-------------------------- MODULE WorkspaceProofs ---------------------------
(***************************************************************************)
(* What holds of members and invitations, of connected accounts and of the *)
(* media library, each for every value of its constants.                   *)
(***************************************************************************)
EXTENDS Members, Accounts, MediaLibrary, FiniteSetTheorems, TLAPS

----------------------------------------------------------------------------
(***************************************************************************)
(* Members, for every number of people, requests and invitations.          *)
(***************************************************************************)

MemberChanges == [op : {"role", "remove", "transfer"}, actor : People, target : People,
            want : OrgRoles \cup {"NONE"}, seen : Rows(OrgRoles) \ {NoRow}, alone : BOOLEAN]
SeatChanges == [op : {"seat", "unseat"}, actor : People, target : People,
                want : Seats \cup {"NONE"}, seen : Rows(Seats), alone : BOOLEAN]
Invites == [op : {"invite"}, actor : People, target : People,
            want : OrgRoles \ {"OWNER"}, seen : {NoRow}, alone : BOOLEAN]
OnInvitations == [op : {"revoke", "accept"}, actor : People, target : Invitations,
                  want : {"NONE"}, seen : {NoRow}, alone : BOOLEAN]
RouteRequests == [op : {"route"}, actor : People, as : OrgRoles, seated : BOOLEAN]

\* What a request is doing, and what it has in hand to do it.
RequestOK(r) ==
    \/ r = NoRequest
    \/ r \in RouteRequests
    \/ /\ r \in MemberChanges /\ r.target # r.actor
       /\ r.op # "remove" => r.want \in OrgRoles
    \/ r \in SeatChanges /\ (r.op = "seat" => r.want \in Seats)
                         /\ (r.op = "unseat" => r.seen # NoRow)
    \/ r \in Invites
    \/ r \in OnInvitations /\ (r.op = "accept" => invitations[r.target].made
                                    /\ invitations[r.target].who = r.actor)

InvitationRows == [made : BOOLEAN, who : People, role : OrgRoles \cup {"NONE"},
                   seat : BOOLEAN, accepted : BOOLEAN, revoked : BOOLEAN, expired : BOOLEAN]

InvitationOK(i) ==
    /\ invitations[i].made => invitations[i].role \in OrgRoles \ {"OWNER"}
    /\ ~invitations[i].accepted => joins[i] = 0

MembersShape ==
    /\ MembersTypeOK
    /\ DOMAIN request = Requests /\ \A q \in Requests : RequestOK(request[q])
    /\ invitations \in [Invitations -> InvitationRows] /\ joins \in [Invitations -> Nat]
    /\ \A i \in Invitations : InvitationOK(i)

\* What the guards of a request read still holds of the rows as they are.
Grounded(r) ==
    /\ r.op \in {"role", "remove"} =>
           /\ members[r.target] = r.seen
           /\ r.target \in Owners => \E o \in Owners : o # r.target
    /\ r.op = "transfer" => members[r.target].role # "CLIENT"
    /\ r.op = "seat" => Belongs(r.target) /\ r.want = SeatFor(members[r.target].role)

\* Nothing was committed since a request that is still alone passed its guards.
AloneIsGrounded ==
    \A q \in Requests :
        request[q].op \notin {"none", "route"} /\ request[q].alone => Grounded(request[q])

MembersInv == MembersShape /\ AloneIsGrounded /\ OwnerRemains /\ SeatsFitRoles

----------------------------------------------------------------------------
LEMMA RolesAreRoles ==
    {"OWNER", "ADMIN", "CLIENT"} \subseteq OrgRoles /\ "NONE" \notin OrgRoles
BY MembersAssumption

\* NotLastOwner, as the guards that rely on it need it.
LEMMA AnotherOwner ==
    ASSUME NEW p \in People, p \in Owners, NotLastOwner(p)
    PROVE  \E o \in Owners : o # p
<1>1. IsFiniteSet(Owners) /\ Cardinality(Owners) > 1
  BY MembersAssumption, FS_Subset DEF Owners, NotLastOwner
<1> SUFFICES ASSUME \A o \in Owners : o = p PROVE FALSE
  OBVIOUS
<1>2. Owners = {p}  OBVIOUS
<1> QED  BY <1>1, <1>2, FS_Singleton

LEMMA MembersInitial == MembersInit => MembersInv
<1> SUFFICES ASSUME MembersInit PROVE MembersInv
  OBVIOUS
<1> USE MembersAssumption, RolesAreRoles DEF MembersInit
<1>1. MembersTypeOK
  <2>1. members \in [People -> Rows(OrgRoles)]
    BY DEF Rows, NoRow
  <2>2. seats \in [People -> Rows(Seats)]
    BY DEF Rows, NoRow
  <2>3. \A p \in People : members[p].id <= rows /\ seats[p].id <= rows
    BY DEF NoRow
  <2>4. \A i \in Invitations : invitations[i].accepted => invitations[i].made
    BY DEF NoInvitation
  <2>5. rows \in 1 .. MaxRows
    OBVIOUS
  <2>6. raced \in BOOLEAN /\ usurped \in BOOLEAN
    OBVIOUS
  <2> QED  BY <2>1, <2>2, <2>3, <2>4, <2>5, <2>6, Zenon DEF MembersTypeOK
<1>2. MembersShape
  BY <1>1 DEF MembersShape, RequestOK, InvitationRows, InvitationOK, NoInvitation
<1>3. AloneIsGrounded
  BY DEF AloneIsGrounded, NoRequest
<1>4. OwnerRemains
  <2>1. Founder \in Owners  BY DEF Owners
  <2> QED  BY <2>1 DEF OwnerRemains
<1>5. SeatsFitRoles
  BY DEF SeatsFitRoles, Seated
<1> QED  BY <1>2, <1>3, <1>4, <1>5 DEF MembersInv
----------------------------------------------------------------------------
(* Before a commit: only the request itself changes.                       *)

LEMMA RequestMoves ==
    ASSUME MembersInv, NEW q \in Requests, UNCHANGED notRequests,
           \E r : /\ RequestOK(r)
                  /\ r.op \notin {"none", "route"} => Grounded(r)
                  /\ request' = [request EXCEPT ![q] = r]
    PROVE  MembersInv'
<1> PICK r : /\ RequestOK(r)
             /\ r.op \notin {"none", "route"} => Grounded(r)
             /\ request' = [request EXCEPT ![q] = r]
  OBVIOUS
<1> USE DEF notRequests
<1>1. MembersTypeOK'
  BY DEF MembersInv, MembersShape, MembersTypeOK
<1>2. DOMAIN request' = Requests /\ \A x \in Requests : RequestOK(request[x])'
  BY DEF MembersInv, MembersShape, RequestOK
<1>3. \A i \in Invitations : InvitationOK(i)'
  BY DEF MembersInv, MembersShape, InvitationOK
<1>4. MembersShape'
  BY <1>1, <1>2, <1>3 DEF MembersInv, MembersShape
<1>5. \A x \in Requests :
          request'[x].op \notin {"none", "route"} /\ request'[x].alone => Grounded(request[x])'
  <2> TAKE x \in Requests
  <2>1. CASE x = q
    <3>1. request'[x] = r  BY <2>1 DEF MembersInv, MembersShape
    <3> QED  BY <3>1 DEF Grounded, Owners, Belongs
  <2>2. CASE x # q
    <3>1. request'[x] = request[x]  BY <2>2 DEF MembersInv, MembersShape
    <3> QED  BY <3>1 DEF MembersInv, AloneIsGrounded, Grounded, Owners, Belongs
  <2> QED  BY <2>1, <2>2
<1>6. AloneIsGrounded'
  BY <1>5 DEF AloneIsGrounded
<1>7. OwnerRemains' /\ SeatsFitRoles'
  BY DEF MembersInv, OwnerRemains, SeatsFitRoles, Owners, Seated, Belongs
<1> QED  BY <1>4, <1>6, <1>7 DEF MembersInv

LEMMA RollsBackKeeps ==
    ASSUME MembersInv, NEW q \in Requests, RollsBack(q)
    PROVE  MembersInv'
BY RequestMoves DEF RollsBack, RequestOK, NoRequest

\* A request that may still be routed has a principal.
LEMMA RoutedHasPrincipal ==
    ASSUME MembersInv, NEW q \in Requests, request[q].op = "route"
    PROVE  request[q] \in RouteRequests
BY DEF MembersInv, MembersShape, RequestOK, NoRequest, MemberChanges, SeatChanges,
       Invites, OnInvitations

LEMMA RowOf ==
    ASSUME MembersInv, NEW p \in People
    PROVE  /\ members[p] \in Rows(OrgRoles) /\ seats[p] \in Rows(Seats)
           /\ Belongs(p) => members[p].role \in OrgRoles /\ members[p].id \in 1 .. MaxRows
           /\ Seated(p) => seats[p].role \in Seats /\ seats[p].id \in 1 .. MaxRows
BY DEF MembersInv, MembersShape, MembersTypeOK, Rows, Belongs, Seated, NoRow

LEMMA AuthenticateKeeps ==
    ASSUME MembersInv, NEW q \in Requests, NEW p \in People, Authenticate(q, p)
    PROVE  MembersInv'
<1>1. PICK r : r = [op |-> "route", actor |-> p, as |-> members[p].role, seated |-> Seated(p)]
  OBVIOUS
<1>2. RequestOK(r)
  BY <1>1, RowOf DEF Authenticate, RequestOK, RouteRequests, Seated
<1> QED  BY <1>1, <1>2, RequestMoves DEF Authenticate

LEMMA PassesKeeps ==
    ASSUME MembersInv, NEW q \in Requests, NEW op, NEW target, NEW want, NEW seen,
           NEW actor \in People, Begin(q, op, actor, target, want, seen),
           LET r == [op |-> op, actor |-> actor, target |-> target, want |-> want,
                     seen |-> seen, alone |-> TRUE]
           IN  RequestOK(r) /\ Grounded(r)
    PROVE  MembersInv'
BY RequestMoves DEF Begin

LEMMA AsksKeep ==
    ASSUME MembersInv, NEW q \in Requests, Asks(q)
    PROVE  MembersInv'
<1>1. request[q].op = "route"
  BY DEF Asks, AskRemove, AskTransfer, AskUnseat, AskRole, AskInvite, AskSeat, AskRevoke, Granted
<1>2. PICK actor \in People : actor = request[q].actor
  BY <1>1, RoutedHasPrincipal DEF RouteRequests
<1> USE <1>2, RowOf, RolesAreRoles DEF Passes, Grounded
<1>3. ASSUME NEW p \in People, AskRemove(q, p) PROVE MembersInv'
  <2>1. PICK seen : seen = members[p]  OBVIOUS
  <2>2. seen \in Rows(OrgRoles) \ {NoRow} /\ p # actor
    BY <1>3, <2>1 DEF AskRemove, MayActOn, Belongs
  <2>3. p \in Owners => \E o \in Owners : o # p
    BY <1>3, AnotherOwner DEF AskRemove
  <2>4. RequestOK([op |-> "remove", actor |-> actor, target |-> p, want |-> "NONE",
                   seen |-> seen, alone |-> TRUE])
    BY <2>2 DEF RequestOK, MemberChanges
  <2> QED  BY <1>3, <2>1, <2>3, <2>4, PassesKeeps DEF AskRemove
<1>4. ASSUME NEW p \in People, AskTransfer(q, p) PROVE MembersInv'
  <2>1. PICK seen : seen = members[p]  OBVIOUS
  <2>2. seen \in Rows(OrgRoles) \ {NoRow} /\ p # actor
    BY <1>4, <2>1 DEF AskTransfer, Belongs
  <2>4. RequestOK([op |-> "transfer", actor |-> actor, target |-> p, want |-> "OWNER",
                   seen |-> seen, alone |-> TRUE])
    BY <2>2 DEF RequestOK, MemberChanges
  <2> QED  BY <1>4, <2>1, <2>4, PassesKeeps DEF AskTransfer
<1>5. ASSUME NEW p \in People, AskUnseat(q, p) PROVE MembersInv'
  <2>1. PICK seen : seen = seats[p]  OBVIOUS
  <2>2. seen \in Rows(Seats) /\ seen # NoRow
    BY <1>5, <2>1 DEF AskUnseat, Seated
  <2>4. RequestOK([op |-> "unseat", actor |-> actor, target |-> p, want |-> "NONE",
                   seen |-> seen, alone |-> TRUE])
    BY <2>2 DEF RequestOK, SeatChanges
  <2> QED  BY <1>5, <2>1, <2>4, PassesKeeps DEF AskUnseat
<1>6. ASSUME NEW p \in People, NEW role \in OrgRoles, AskRole(q, p, role) PROVE MembersInv'
  <2>1. PICK seen : seen = members[p]  OBVIOUS
  <2>2. seen \in Rows(OrgRoles) \ {NoRow} /\ p # actor
    BY <1>6, <2>1 DEF AskRole, MayActOn, Belongs
  <2>3. p \in Owners => \E o \in Owners : o # p
    BY <1>6, AnotherOwner DEF AskRole
  <2>4. RequestOK([op |-> "role", actor |-> actor, target |-> p, want |-> role,
                   seen |-> seen, alone |-> TRUE])
    BY <2>2 DEF RequestOK, MemberChanges
  <2> QED  BY <1>6, <2>1, <2>3, <2>4, PassesKeeps DEF AskRole
<1>7. ASSUME NEW p \in People, NEW role \in OrgRoles, AskInvite(q, p, role) PROVE MembersInv'
  <2>1. role # "OWNER"
    BY <1>7 DEF AskInvite, Invitable
  <2>2. RequestOK([op |-> "invite", actor |-> actor, target |-> p, want |-> role,
                   seen |-> NoRow, alone |-> TRUE])
    BY <2>1 DEF RequestOK, Invites
  <2> QED  BY <1>7, <2>2, PassesKeeps DEF AskInvite
<1>8. ASSUME NEW p \in People, NEW seat \in Seats, AskSeat(q, p, seat) PROVE MembersInv'
  <2>1. PICK seen : seen = seats[p]  OBVIOUS
  <2>2. RequestOK([op |-> "seat", actor |-> actor, target |-> p, want |-> seat,
                   seen |-> seen, alone |-> TRUE])
    BY <2>1 DEF RequestOK, SeatChanges
  <2> QED  BY <1>8, <2>1, <2>2, PassesKeeps DEF AskSeat
<1>9. ASSUME NEW i \in Invitations, AskRevoke(q, i) PROVE MembersInv'
  <2>1. RequestOK([op |-> "revoke", actor |-> actor, target |-> i, want |-> "NONE",
                   seen |-> NoRow, alone |-> TRUE])
    BY DEF RequestOK, OnInvitations
  <2> QED  BY <1>9, <2>1, PassesKeeps DEF AskRevoke
<1> QED  BY <1>3, <1>4, <1>5, <1>6, <1>7, <1>8, <1>9 DEF Asks

LEMMA OpenInvitationKeeps ==
    ASSUME MembersInv, NEW q \in Requests, NEW i \in Invitations, OpenInvitation(q, i)
    PROVE  MembersInv'
<1>1. PICK actor \in People : actor = invitations[i].who
  BY DEF MembersInv, MembersShape, InvitationRows
<1>2. RequestOK([op |-> "accept", actor |-> actor, target |-> i, want |-> "NONE",
                 seen |-> NoRow, alone |-> TRUE])
  BY <1>1 DEF RequestOK, OnInvitations, OpenInvitation, Pending
<1> QED  BY <1>1, <1>2, PassesKeeps DEF OpenInvitation, Grounded
----------------------------------------------------------------------------
(* A commit: whoever read before it is no longer alone.                    *)

LEMMA CommitKeepsRequests ==
    ASSUME MembersInv, NEW q \in Requests, Commits(q),
           \A i \in Invitations : invitations[i].made =>
               invitations'[i].made /\ invitations'[i].who = invitations[i].who
    PROVE  /\ DOMAIN request' = Requests /\ \A r \in Requests : RequestOK(request[r])'
           /\ AloneIsGrounded'
<1>1. DOMAIN request' = Requests
  BY DEF Commits
<1>2. ASSUME NEW r \in Requests PROVE RequestOK(request[r])'
  <2>1. CASE r = q \/ request[r].op \in {"none", "route"}
    BY <2>1 DEF Commits, MembersInv, MembersShape, RequestOK, NoRequest, MemberChanges,
              SeatChanges, Invites, OnInvitations
  <2>2. CASE r # q /\ request[r].op \notin {"none", "route"}
    <3>1. request'[r] = [request[r] EXCEPT !.alone = FALSE]
      BY <2>2 DEF Commits
    <3>2. RequestOK(request[r]) /\ request[r] \notin RouteRequests /\ request[r] # NoRequest
      BY <2>2 DEF MembersInv, MembersShape, RouteRequests, NoRequest
    <3>3. CASE request[r] \in MemberChanges
      BY <3>1, <3>2, <3>3 DEF RequestOK, MemberChanges, SeatChanges, Invites, OnInvitations
    <3>4. CASE request[r] \in SeatChanges
      BY <3>1, <3>2, <3>4 DEF RequestOK, MemberChanges, SeatChanges, Invites, OnInvitations
    <3>5. CASE request[r] \in Invites
      BY <3>1, <3>2, <3>5 DEF RequestOK, MemberChanges, SeatChanges, Invites, OnInvitations
    <3>6. CASE request[r] \in OnInvitations
      BY <3>1, <3>2, <3>6 DEF RequestOK, MemberChanges, SeatChanges, Invites, OnInvitations
    <3> QED  BY <3>2, <3>3, <3>4, <3>5, <3>6 DEF RequestOK
  <2> QED  BY <2>1, <2>2
<1>3. ASSUME NEW r \in Requests, request'[r].op \notin {"none", "route"}
      PROVE  ~request'[r].alone
  <2>1. r # q /\ request[r].op \notin {"none", "route"}
    BY <1>3 DEF Commits, NoRequest
  <2>2. request'[r] = [request[r] EXCEPT !.alone = FALSE]
    BY <2>1 DEF Commits
  <2>3. "alone" \in DOMAIN request[r]
    BY <2>1 DEF MembersInv, MembersShape, RequestOK, NoRequest, RouteRequests, MemberChanges,
              SeatChanges, Invites, OnInvitations
  <2> QED  BY <2>2, <2>3
<1> QED  BY <1>1, <1>2, <1>3 DEF AloneIsGrounded

\* What a commit that leaves the invitations alone has to show.
LEMMA RowsChange ==
    ASSUME MembersInv, NEW q \in Requests, Commits(q), UNCHANGED <<invitations, joins>>,
           members' \in [People -> Rows(OrgRoles)], seats' \in [People -> Rows(Seats)],
           rows' \in 1 .. MaxRows, usurped' \in BOOLEAN,
           \A p \in People : members'[p].id <= rows' /\ seats'[p].id <= rows',
           OwnerRemains', SeatsFitRoles'
    PROVE  MembersInv'
<1>1. MembersTypeOK'
  BY DEF MembersInv, MembersShape, MembersTypeOK, Commits
<1>2. \A i \in Invitations : InvitationOK(i)'
  BY DEF MembersInv, MembersShape, InvitationOK
<1>3. MembersShape' /\ AloneIsGrounded'
  BY <1>1, <1>2, CommitKeepsRequests DEF MembersInv, MembersShape
<1> QED  BY <1>3 DEF MembersInv

LEMMA MemberChange ==
    ASSUME MembersInv, NEW q \in Requests, request[q].op \in {"role", "remove", "transfer"}
    PROVE  /\ request[q] \in MemberChanges /\ request[q].target # request[q].actor
           /\ request[q].op # "remove" => request[q].want \in OrgRoles
BY DEF MembersInv, MembersShape, RequestOK, NoRequest, RouteRequests, MemberChanges,
       SeatChanges, Invites, OnInvitations

LEMMA SeatChange ==
    ASSUME MembersInv, NEW q \in Requests, request[q].op \in {"seat", "unseat"}
    PROVE  /\ request[q] \in SeatChanges /\ (request[q].op = "seat" => request[q].want \in Seats)
           /\ request[q].op = "unseat" => request[q].seen # NoRow
BY DEF MembersInv, MembersShape, RequestOK, NoRequest, RouteRequests, MemberChanges,
       SeatChanges, Invites, OnInvitations

LEMMA OnInvitation ==
    ASSUME MembersInv, NEW q \in Requests, request[q].op \in {"revoke", "accept"}
    PROVE  /\ request[q] \in OnInvitations
           /\ request[q].op = "accept" => /\ invitations[request[q].target].made
                                          /\ invitations[request[q].target].who = request[q].actor
BY DEF MembersInv, MembersShape, RequestOK, NoRequest, RouteRequests, MemberChanges,
       SeatChanges, Invites, OnInvitations

\* A request that writes while nobody else has was alone.
LEMMA AloneUnlessRaced ==
    ASSUME MembersInv, NEW q \in Requests, request[q].op \notin {"none", "route"},
           Commits(q), ~raced'
    PROVE  ~raced /\ Grounded(request[q])
BY DEF MembersInv, AloneIsGrounded, Commits

LEMMA UpdateRoleKeeps ==
    ASSUME MembersInv, NEW q \in Requests, UpdateRole(q)
    PROVE  MembersInv'
<1> DEFINE r == request[q]
<1>1. r \in MemberChanges /\ r.want \in OrgRoles /\ r.op = "role"
  BY MemberChange DEF UpdateRole, Ready
<1>2. CASE members[r.target].id # r.seen.id
  BY <1>2, RollsBackKeeps DEF UpdateRole
<1>3. CASE members[r.target].id = r.seen.id
  <2> DEFINE p == r.target
  <2>1. /\ members' = [members EXCEPT ![p].role = r.want]
        /\ seats' = SeatsAfterRole(p, r.seen.role, r.want)
        /\ Commits(q) /\ UNCHANGED <<invitations, rows, joins, usurped>>
    BY <1>3 DEF UpdateRole
  <2>2. p \in People /\ members[p] # NoRow
    BY <1>1, <1>3 DEF MemberChanges, Rows, NoRow
  <2>3. /\ members' \in [People -> Rows(OrgRoles)]
        /\ \A x \in People : members'[x].id = members[x].id
        /\ \A x \in People : members'[x].role = IF x = p THEN r.want ELSE members[x].role
        /\ \A x \in People : members'[x] = NoRow <=> members[x] = NoRow
    BY <2>1, <2>2, <1>1, RowOf DEF MembersInv, MembersShape, MembersTypeOK, Rows, Belongs, NoRow
  <2>4. /\ seats' \in [People -> Rows(Seats)]
        /\ \A x \in People : seats'[x] = seats[x] \/ seats'[x] = NoRow
    BY <2>1, <2>2 DEF SeatsAfterRole, MembersInv, MembersShape, MembersTypeOK, Rows
  <2>5. /\ rows' \in 1 .. MaxRows /\ usurped' \in BOOLEAN
        /\ \A x \in People : members'[x].id <= rows' /\ seats'[x].id <= rows'
    BY <2>1, <2>3, <2>4 DEF MembersInv, MembersShape, MembersTypeOK, NoRow
  <2>6. OwnerRemains'
    <3> SUFFICES ASSUME ~raced' PROVE Owners' # {}
      BY DEF OwnerRemains
    <3>1. ~raced /\ Grounded(r)
      BY <2>1, <1>1, AloneUnlessRaced
    <3>2. PICK o \in Owners : o # p
      BY <3>1, <1>1 DEF Grounded, MembersInv, OwnerRemains
    <3> QED  BY <3>2, <2>3 DEF Owners
  <2>7. SeatsFitRoles'
    <3> SUFFICES ASSUME ~raced', ~usurped', NEW x \in People, Seated(x)'
                 PROVE  Belongs(x)' /\ seats'[x].role = SeatFor(members'[x].role)
      BY DEF SeatsFitRoles
    <3>1. ~raced /\ Grounded(r) /\ ~usurped
      BY <2>1, <1>1, AloneUnlessRaced
    <3>2. seats'[x] = seats[x] /\ Seated(x)
      BY <2>4 DEF Seated
    <3>3. Belongs(x) /\ seats[x].role = SeatFor(members[x].role)
      BY <3>1, <3>2 DEF MembersInv, SeatsFitRoles
    <3>4. CASE x = p
      <4>1. members[p] = r.seen
        BY <3>1, <1>1 DEF Grounded
      <4>2. (r.seen.role = "CLIENT") <=> (r.want = "CLIENT")
        BY <3>4, <2>1, <2>2 DEF SeatsAfterRole, Seated, MembersInv, MembersShape, MembersTypeOK
      <4> QED  BY <3>2, <3>3, <3>4, <4>1, <4>2, <2>3 DEF SeatFor, Belongs
    <3> QED  BY <3>2, <3>3, <3>4, <2>3 DEF Belongs
  <2> QED  BY <2>1, <2>3, <2>4, <2>5, <2>6, <2>7, RowsChange
<1> QED  BY <1>2, <1>3
LEMMA RemoveMemberKeeps ==
    ASSUME MembersInv, NEW q \in Requests, RemoveMember(q)
    PROVE  MembersInv'
<1> DEFINE r == request[q]
<1>1. r \in MemberChanges /\ r.op = "remove"
  BY MemberChange DEF RemoveMember, Ready
<1>2. CASE members[r.target].id # r.seen.id
  BY <1>2, RollsBackKeeps DEF RemoveMember
<1>3. CASE members[r.target].id = r.seen.id
  <2> DEFINE p == r.target
  <2>1. /\ members' = [members EXCEPT ![p] = NoRow] /\ seats' = [seats EXCEPT ![p] = NoRow]
        /\ Commits(q) /\ UNCHANGED <<invitations, rows, joins, usurped>>
    BY <1>3 DEF RemoveMember
  <2>2. p \in People
    BY <1>1 DEF MemberChanges
  <2>3. /\ members' \in [People -> Rows(OrgRoles)] /\ seats' \in [People -> Rows(Seats)]
        /\ \A x \in People : x # p => members'[x] = members[x] /\ seats'[x] = seats[x]
        /\ members'[p] = NoRow /\ seats'[p] = NoRow
    BY <2>1, <2>2 DEF MembersInv, MembersShape, MembersTypeOK, Rows
  <2>4. /\ rows' \in 1 .. MaxRows /\ usurped' \in BOOLEAN
        /\ \A x \in People : members'[x].id <= rows' /\ seats'[x].id <= rows'
    BY <2>1, <2>3 DEF MembersInv, MembersShape, MembersTypeOK, NoRow
  <2>5. OwnerRemains'
    <3> SUFFICES ASSUME ~raced' PROVE Owners' # {}
      BY DEF OwnerRemains
    <3>1. ~raced /\ Grounded(r)
      BY <2>1, <1>1, AloneUnlessRaced
    <3>2. PICK o \in Owners : o # p
      BY <3>1, <1>1 DEF Grounded, MembersInv, OwnerRemains
    <3> QED  BY <3>2, <2>3 DEF Owners
  <2>6. SeatsFitRoles'
    BY <2>1, <2>3 DEF Commits, MembersInv, SeatsFitRoles, Seated, Belongs
  <2> QED  BY <2>1, <2>3, <2>4, <2>5, <2>6, RowsChange
<1> QED  BY <1>2, <1>3

LEMMA TransferOwnershipKeeps ==
    ASSUME MembersInv, NEW q \in Requests, TransferOwnership(q)
    PROVE  MembersInv'
<1> DEFINE r == request[q]
<1>1. r \in MemberChanges /\ r.op = "transfer" /\ r.target # r.actor
  BY MemberChange DEF TransferOwnership, Ready
<1>2. CASE ~(members[r.target].id = r.seen.id /\ Belongs(r.actor))
  BY <1>2, RollsBackKeeps DEF TransferOwnership
<1>3. CASE members[r.target].id = r.seen.id /\ Belongs(r.actor)
  <2> DEFINE p == r.target
             a == r.actor
  <2>1. /\ members' = [members EXCEPT ![p].role = "OWNER", ![a].role = "ADMIN"]
        /\ usurped' = (usurped \/ members[a].role # "OWNER")
        /\ Commits(q) /\ UNCHANGED <<seats, invitations, rows, joins>>
    BY <1>3 DEF TransferOwnership
  <2>2. p \in People /\ a \in People /\ members[p] # NoRow /\ members[a] # NoRow
    BY <1>1, <1>3 DEF MemberChanges, Rows, NoRow, Belongs
  <2>3. /\ members' \in [People -> Rows(OrgRoles)]
        /\ \A x \in People : members'[x].id = members[x].id
        /\ \A x \in People : members'[x].role = IF x = a THEN "ADMIN"
                                          ELSE IF x = p THEN "OWNER" ELSE members[x].role
        /\ \A x \in People : members'[x] = NoRow <=> members[x] = NoRow
    <3>1. members \in [People -> Rows(OrgRoles)]
      BY DEF MembersInv, MembersShape, MembersTypeOK
    <3>2. \A x \in People : members[x] # NoRow => members[x] \in [id : 1 .. MaxRows, role : OrgRoles]
      BY <3>1 DEF Rows
    <3>3. \A x \in People :
              members'[x] = IF x = a THEN [members[x] EXCEPT !.role = "ADMIN"]
                            ELSE IF x = p THEN [members[x] EXCEPT !.role = "OWNER"]
                            ELSE members[x]
      BY <2>1, <2>2, <3>1, <3>2
    <3>4. \A x \in People : members'[x] \in Rows(OrgRoles)
      BY <3>1, <3>2, <3>3, <2>2, RolesAreRoles DEF Rows
    <3>5. members' \in [People -> Rows(OrgRoles)]
      BY <2>1, <3>1, <3>4
    <3> QED  BY <3>2, <3>3, <3>5, <2>2, <3>1 DEF Rows, NoRow
  <2>4. /\ rows' \in 1 .. MaxRows /\ usurped' \in BOOLEAN /\ seats' \in [People -> Rows(Seats)]
        /\ \A x \in People : members'[x].id <= rows' /\ seats'[x].id <= rows'
    BY <2>1, <2>3 DEF MembersInv, MembersShape, MembersTypeOK
  <2>5. OwnerRemains'
    BY <1>1, <2>2, <2>3 DEF OwnerRemains, Owners
  <2>6. SeatsFitRoles'
    <3> SUFFICES ASSUME ~raced', ~usurped', NEW x \in People, Seated(x)'
                 PROVE  Belongs(x)' /\ seats'[x].role = SeatFor(members'[x].role)
      BY DEF SeatsFitRoles
    <3>1. ~raced /\ Grounded(r) /\ ~usurped /\ members[a].role = "OWNER"
      BY <2>1, <1>1, AloneUnlessRaced
    <3>2. Seated(x) /\ seats'[x] = seats[x]
      BY <2>1 DEF Seated
    <3>3. Belongs(x) /\ seats[x].role = SeatFor(members[x].role)
      BY <3>1, <3>2 DEF MembersInv, SeatsFitRoles
    <3>4. members[p].role # "CLIENT"
      BY <3>1, <1>1 DEF Grounded
    <3> QED  BY <3>1, <3>2, <3>3, <3>4, <2>3 DEF SeatFor, Belongs
  <2> QED  BY <2>1, <2>3, <2>4, <2>5, <2>6, RowsChange
<1> QED  BY <1>2, <1>3

LEMMA AddWorkspaceMemberKeeps ==
    ASSUME MembersInv, NEW q \in Requests, AddWorkspaceMember(q)
    PROVE  MembersInv'
<1> DEFINE r == request[q]
<1>1. r \in SeatChanges /\ r.op = "seat" /\ r.want \in Seats
  BY SeatChange DEF AddWorkspaceMember, Ready
<1>2. CASE seats[r.target].id # r.seen.id
  BY <1>2, RollsBackKeeps DEF AddWorkspaceMember
<1>3. CASE seats[r.target].id = r.seen.id
  <2> DEFINE p == r.target
             id == IF r.seen = NoRow THEN rows' ELSE r.seen.id
  <2>1. /\ rows' = IF r.seen = NoRow THEN rows + 1 ELSE rows
        /\ rows' <= MaxRows
        /\ seats' = [seats EXCEPT ![p] = [id |-> id, role |-> r.want]]
        /\ Commits(q) /\ UNCHANGED <<members, invitations, joins, usurped>>
    BY <1>3 DEF AddWorkspaceMember
  <2>2. p \in People /\ rows \in 1 .. MaxRows /\ rows' \in 1 .. MaxRows /\ rows <= rows'
    BY <1>1, <2>1, MembersAssumption DEF SeatChanges, MembersInv, MembersShape, MembersTypeOK
  <2>3. id \in 1 .. MaxRows /\ id <= rows'
    BY <1>1, <1>3, <2>1, <2>2, RowOf
    DEF SeatChanges, Rows, NoRow, MembersInv, MembersShape, MembersTypeOK
  <2>4. /\ seats' \in [People -> Rows(Seats)] /\ seats'[p] = [id |-> id, role |-> r.want]
        /\ \A x \in People : x # p => seats'[x] = seats[x]
    BY <1>1, <2>1, <2>2, <2>3 DEF MembersInv, MembersShape, MembersTypeOK, Rows
  <2>5. \A x \in People : members'[x].id <= rows' /\ seats'[x].id <= rows'
    <3> TAKE x \in People
    <3>1. members[x].id \in Nat /\ seats[x].id \in Nat /\ members[x].id <= rows /\ seats[x].id <= rows
      BY MembersAssumption, RowOf DEF Rows, NoRow, MembersInv, MembersShape, MembersTypeOK
    <3> QED  BY <3>1, <2>1, <2>2, <2>3, <2>4
  <2>6. OwnerRemains'
    BY <2>1 DEF Commits, MembersInv, OwnerRemains, Owners
  <2>7. SeatsFitRoles'
    <3> SUFFICES ASSUME ~raced', ~usurped', NEW x \in People, Seated(x)'
                 PROVE  Belongs(x)' /\ seats'[x].role = SeatFor(members'[x].role)
      BY DEF SeatsFitRoles
    <3>1. ~raced /\ Grounded(r) /\ ~usurped
      BY <2>1, <1>1, AloneUnlessRaced
    <3>2. CASE x = p
      BY <3>1, <3>2, <1>1, <2>1, <2>4 DEF Grounded, Belongs
    <3>3. CASE x # p
      BY <3>1, <3>3, <2>1, <2>4 DEF MembersInv, SeatsFitRoles, Seated, Belongs
    <3> QED  BY <3>2, <3>3
  <2>8. members' \in [People -> Rows(OrgRoles)] /\ usurped' \in BOOLEAN
    BY <2>1 DEF MembersInv, MembersShape, MembersTypeOK
  <2> QED  BY <2>1, <2>2, <2>4, <2>5, <2>6, <2>7, <2>8, RowsChange
<1> QED  BY <1>2, <1>3

LEMMA RemoveWorkspaceMemberKeeps ==
    ASSUME MembersInv, NEW q \in Requests, RemoveWorkspaceMember(q)
    PROVE  MembersInv'
<1> DEFINE r == request[q]
           p == r.target
<1>1. p \in People /\ r.op = "unseat"
  BY SeatChange DEF RemoveWorkspaceMember, Ready, SeatChanges
<1>2. CASE seats[p].id # r.seen.id
  BY <1>2, RollsBackKeeps DEF RemoveWorkspaceMember
<1>3. CASE seats[p].id = r.seen.id
  <2>1. /\ seats' = [seats EXCEPT ![p] = NoRow]
        /\ Commits(q) /\ UNCHANGED <<members, invitations, rows, joins, usurped>>
    BY <1>3 DEF RemoveWorkspaceMember
  <2>2. /\ seats' \in [People -> Rows(Seats)] /\ seats'[p] = NoRow
        /\ \A x \in People : x # p => seats'[x] = seats[x]
    BY <1>1, <2>1 DEF MembersInv, MembersShape, MembersTypeOK, Rows
  <2>3. /\ rows' \in 1 .. MaxRows /\ usurped' \in BOOLEAN /\ members' \in [People -> Rows(OrgRoles)]
        /\ \A x \in People : members'[x].id <= rows' /\ seats'[x].id <= rows'
    BY <2>1, <2>2 DEF MembersInv, MembersShape, MembersTypeOK, NoRow
  <2>4. OwnerRemains' /\ SeatsFitRoles'
    BY <2>1, <2>2 DEF Commits, MembersInv, OwnerRemains, Owners, SeatsFitRoles, Seated, Belongs
  <2> QED  BY <2>1, <2>2, <2>3, <2>4, RowsChange
<1> QED  BY <1>2, <1>3
LEMMA CreateInvitationKeeps ==
    ASSUME MembersInv, NEW q \in Requests, CreateInvitation(q)
    PROVE  MembersInv'
<1> DEFINE r == request[q]
<1>1. r \in Invites /\ r.op = "invite"
  BY DEF MembersInv, MembersShape, RequestOK, NoRequest, RouteRequests, MemberChanges,
         SeatChanges, Invites, OnInvitations, CreateInvitation, Ready
<1>2. PICK i \in Invitations, seat \in BOOLEAN :
         /\ ~invitations[i].made
         /\ invitations' = [invitations EXCEPT ![i] =
                [NoInvitation EXCEPT !.made = TRUE, !.who = r.target, !.role = r.want,
                                     !.seat = seat]]
  BY DEF CreateInvitation
<1>3. Commits(q) /\ UNCHANGED <<members, seats, rows, joins, usurped>>
  BY DEF CreateInvitation
<1>4. PICK row : row = [NoInvitation EXCEPT !.made = TRUE, !.who = r.target, !.role = r.want,
                                           !.seat = seat]
  OBVIOUS
<1>5. /\ row \in InvitationRows /\ row.made /\ ~row.accepted
      /\ row.role \in OrgRoles \ {"OWNER"}
  BY <1>1, <1>4 DEF NoInvitation, InvitationRows, Invites
<1>6. /\ invitations' \in [Invitations -> InvitationRows] /\ invitations'[i] = row
      /\ \A j \in Invitations : j # i => invitations'[j] = invitations[j]
  BY <1>2, <1>4, <1>5 DEF MembersInv, MembersShape
<1>7. \A j \in Invitations : InvitationOK(j)'
  BY <1>2, <1>3, <1>5, <1>6 DEF MembersInv, MembersShape, MembersTypeOK, InvitationOK
<1>8. MembersTypeOK'
  BY <1>3, <1>5, <1>6 DEF MembersInv, MembersShape, MembersTypeOK, Commits
<1>9. MembersShape' /\ AloneIsGrounded'
  BY <1>2, <1>3, <1>6, <1>7, <1>8, CommitKeepsRequests DEF MembersInv, MembersShape
<1>10. OwnerRemains' /\ SeatsFitRoles'
  BY <1>3 DEF Commits, MembersInv, OwnerRemains, Owners, SeatsFitRoles, Seated, Belongs
<1> QED  BY <1>9, <1>10 DEF MembersInv

LEMMA RevokeInvitationKeeps ==
    ASSUME MembersInv, NEW q \in Requests, RevokeInvitation(q)
    PROVE  MembersInv'
<1> DEFINE i == request[q].target
<1>1. i \in Invitations
  BY OnInvitation DEF RevokeInvitation, Ready, OnInvitations
<1>2. /\ invitations' = [invitations EXCEPT ![i].revoked = TRUE]
      /\ Commits(q) /\ UNCHANGED <<members, seats, rows, joins, usurped>>
  BY DEF RevokeInvitation
<1>3. /\ invitations' \in [Invitations -> InvitationRows]
      /\ \A j \in Invitations :
             /\ invitations'[j].made = invitations[j].made
             /\ invitations'[j].who = invitations[j].who
             /\ invitations'[j].role = invitations[j].role
             /\ invitations'[j].accepted = invitations[j].accepted
  <2>1. invitations \in [Invitations -> InvitationRows]
    BY DEF MembersInv, MembersShape
  <2>2. [invitations[i] EXCEPT !.revoked = TRUE] \in InvitationRows
    BY <1>1, <2>1 DEF InvitationRows
  <2>3. \A j \in Invitations :
            invitations'[j] = IF j = i THEN [invitations[i] EXCEPT !.revoked = TRUE] ELSE invitations[j]
    BY <1>1, <1>2, <2>1
  <2>4. invitations' \in [Invitations -> InvitationRows]
    BY <1>1, <1>2, <2>1, <2>2
  <2> QED  BY <2>1, <2>3, <2>4, <1>1 DEF InvitationRows
<1>4. MembersTypeOK' /\ \A j \in Invitations : InvitationOK(j)'
  BY <1>2, <1>3 DEF MembersInv, MembersShape, MembersTypeOK, InvitationOK, Commits
<1>5. MembersShape' /\ AloneIsGrounded'
  BY <1>2, <1>3, <1>4, CommitKeepsRequests DEF MembersInv, MembersShape
<1>6. OwnerRemains' /\ SeatsFitRoles'
  BY <1>2 DEF Commits, MembersInv, OwnerRemains, Owners, SeatsFitRoles, Seated, Belongs
<1> QED  BY <1>5, <1>6 DEF MembersInv

LEMMA ExpireKeeps ==
    ASSUME MembersInv, NEW i \in Invitations, Expire(i)
    PROVE  MembersInv'
<1>1. /\ invitations' = [invitations EXCEPT ![i].expired = TRUE]
      /\ UNCHANGED <<members, seats, request, rows, joins, raced, usurped>>
  BY DEF Expire
<1>2. /\ invitations' \in [Invitations -> InvitationRows]
      /\ \A j \in Invitations :
             /\ invitations'[j].made = invitations[j].made
             /\ invitations'[j].who = invitations[j].who
             /\ invitations'[j].role = invitations[j].role
             /\ invitations'[j].accepted = invitations[j].accepted
  <2>1. invitations \in [Invitations -> InvitationRows]
    BY DEF MembersInv, MembersShape
  <2>2. [invitations[i] EXCEPT !.expired = TRUE] \in InvitationRows
    BY <2>1 DEF InvitationRows
  <2>3. \A j \in Invitations :
            invitations'[j] = IF j = i THEN [invitations[i] EXCEPT !.expired = TRUE] ELSE invitations[j]
    BY <1>1, <2>1
  <2>4. invitations' \in [Invitations -> InvitationRows]
    BY <1>1, <2>1, <2>2
  <2> QED  BY <2>1, <2>3, <2>4, <1>1 DEF InvitationRows
<1>3. MembersTypeOK' /\ \A j \in Invitations : InvitationOK(j)'
  BY <1>1, <1>2 DEF MembersInv, MembersShape, MembersTypeOK, InvitationOK
<1>4. \A r \in Requests : RequestOK(request[r])'
  BY <1>1, <1>2 DEF MembersInv, MembersShape, RequestOK, OnInvitations
<1>5. AloneIsGrounded' /\ OwnerRemains' /\ SeatsFitRoles'
  BY <1>1 DEF MembersInv, AloneIsGrounded, Grounded, OwnerRemains, Owners, SeatsFitRoles,
              Seated, Belongs
<1> QED  BY <1>1, <1>2, <1>3, <1>4, <1>5 DEF MembersInv, MembersShape

LEMMA AcceptInvitationKeeps ==
    ASSUME MembersInv, NEW q \in Requests, AcceptInvitation(q)
    PROVE  MembersInv'
<1> DEFINE i == request[q].target
           p == request[q].actor
           takesSeat == invitations[i].seat /\ ~Seated(p)
           role == invitations[i].role
<1>1. /\ i \in Invitations /\ p \in People /\ invitations[i].made
      /\ request[q].op = "accept"
  BY OnInvitation DEF AcceptInvitation, Ready, OnInvitations
<1>2. CASE ~Claimable(i) \/ Belongs(p)
  BY <1>2, RollsBackKeeps DEF AcceptInvitation
<1>3. CASE Claimable(i) /\ ~Belongs(p)
  <2>1. /\ rows' = IF takesSeat THEN rows + 2 ELSE rows + 1
        /\ rows' <= MaxRows
        /\ invitations' = [invitations EXCEPT ![i].accepted = TRUE]
        /\ members' = [members EXCEPT ![p] = [id |-> rows + 1, role |-> role]]
        /\ seats' = IF takesSeat
                    THEN [seats EXCEPT ![p] = [id |-> rows + 2, role |-> SeatFor(role)]]
                    ELSE seats
        /\ joins' = [joins EXCEPT ![i] = @ + 1]
        /\ Commits(q) /\ UNCHANGED usurped
    BY <1>3 DEF AcceptInvitation
  <2>2. /\ rows \in 1 .. MaxRows /\ rows' \in 1 .. MaxRows /\ rows + 1 <= rows'
        /\ takesSeat => rows + 2 <= rows'
    BY <2>1, MembersAssumption DEF MembersInv, MembersShape, MembersTypeOK
  <2>3. role \in OrgRoles \ {"OWNER"}
    BY <1>1 DEF MembersInv, MembersShape, InvitationOK
  <2>4. /\ members' \in [People -> Rows(OrgRoles)]
        /\ members'[p] = [id |-> rows + 1, role |-> role] /\ members'[p] # NoRow
        /\ \A x \in People : x # p => members'[x] = members[x]
    BY <1>1, <2>1, <2>2, <2>3, MembersAssumption
    DEF MembersInv, MembersShape, MembersTypeOK, Rows, NoRow
  <2>5. /\ seats' \in [People -> Rows(Seats)]
        /\ seats'[p] = IF takesSeat THEN [id |-> rows + 2, role |-> SeatFor(role)] ELSE seats[p]
        /\ \A x \in People : x # p => seats'[x] = seats[x]
    <3>1. CASE takesSeat
      BY <1>1, <2>1, <2>2, <3>1, MembersAssumption
      DEF MembersInv, MembersShape, MembersTypeOK, Rows, Seats, SeatFor
    <3>2. CASE ~takesSeat
      BY <2>1, <3>2 DEF MembersInv, MembersShape, MembersTypeOK
    <3> QED  BY <3>1, <3>2
  <2>6. \A x \in People : members'[x].id <= rows' /\ seats'[x].id <= rows'
    <3> TAKE x \in People
    <3>1. members[x].id \in Nat /\ seats[x].id \in Nat /\ members[x].id <= rows /\ seats[x].id <= rows
      BY MembersAssumption, RowOf DEF Rows, NoRow, MembersInv, MembersShape, MembersTypeOK
    <3> QED  BY <3>1, <2>2, <2>4, <2>5
  <2>7. /\ invitations' \in [Invitations -> InvitationRows]
        /\ joins' \in [Invitations -> Nat]
        /\ \A j \in Invitations :
               /\ invitations'[j].made = invitations[j].made
               /\ invitations'[j].who = invitations[j].who
               /\ invitations'[j].role = invitations[j].role
               /\ j # i => joins'[j] = joins[j] /\ invitations'[j] = invitations[j]
        /\ invitations'[i].accepted
    <3>1. invitations \in [Invitations -> InvitationRows] /\ joins \in [Invitations -> Nat]
      BY DEF MembersInv, MembersShape
    <3>2. [invitations[i] EXCEPT !.accepted = TRUE] \in InvitationRows
      BY <1>1, <3>1 DEF InvitationRows
    <3>3. \A j \in Invitations :
              invitations'[j] = IF j = i THEN [invitations[i] EXCEPT !.accepted = TRUE]
                                ELSE invitations[j]
      BY <1>1, <2>1, <3>1
    <3>4. invitations' \in [Invitations -> InvitationRows]
      BY <1>1, <2>1, <3>1, <3>2
    <3>5. joins' \in [Invitations -> Nat] /\ \A j \in Invitations : j # i => joins'[j] = joins[j]
      BY <1>1, <2>1, <3>1
    <3>6. invitations[i] \in InvitationRows
      BY <1>1, <3>1
    <3> QED  BY <3>3, <3>4, <3>5, <3>6, <1>1 DEF InvitationRows
  <2>8. \A j \in Invitations : InvitationOK(j)'
    BY <2>7 DEF MembersInv, MembersShape, InvitationOK
  <2>9. \A j \in Invitations : invitations'[j].accepted => invitations'[j].made
    BY <1>1, <2>7 DEF MembersInv, MembersShape, MembersTypeOK
  <2>10. MembersTypeOK'
    BY <2>1, <2>2, <2>4, <2>5, <2>6, <2>9 DEF MembersInv, MembersShape, MembersTypeOK, Commits
  <2>11. MembersShape' /\ AloneIsGrounded'
    BY <2>1, <2>7, <2>8, <2>10, CommitKeepsRequests DEF MembersShape
  <2>12. OwnerRemains'
    <3> SUFFICES ASSUME ~raced' PROVE Owners' # {}
      BY DEF OwnerRemains
    <3>1. PICK o \in Owners : TRUE
      BY <2>1 DEF Commits, MembersInv, OwnerRemains
    <3>2. o # p
      BY <1>3, <3>1 DEF Owners, Belongs, NoRow
    <3> QED  BY <3>1, <3>2, <2>4 DEF Owners
  <2>13. SeatsFitRoles'
    <3> SUFFICES ASSUME ~raced', ~usurped', NEW x \in People, Seated(x)'
                 PROVE  Belongs(x)' /\ seats'[x].role = SeatFor(members'[x].role)
      BY DEF SeatsFitRoles
    <3>1. \A y \in People : Seated(y) => Belongs(y) /\ seats[y].role = SeatFor(members[y].role)
      BY <2>1 DEF Commits, MembersInv, SeatsFitRoles
    <3>2. CASE x = p
      BY <1>1, <1>3, <2>4, <2>5, <3>1, <3>2 DEF Seated, Belongs
    <3>3. CASE x # p
      BY <2>4, <2>5, <3>1, <3>3 DEF Seated, Belongs
    <3> QED  BY <3>2, <3>3
  <2> QED  BY <2>11, <2>12, <2>13 DEF MembersInv
<1> QED  BY <1>2, <1>3

LEMMA MembersStep == MembersInv /\ [MembersNext]_memberVars => MembersInv'
<1> SUFFICES ASSUME MembersInv, [MembersNext]_memberVars PROVE MembersInv'
  OBVIOUS
<1>1. ASSUME NEW q \in Requests, NEW actor \in People, Authenticate(q, actor) PROVE MembersInv'
  BY <1>1, AuthenticateKeeps
<1>2. ASSUME NEW q \in Requests, Asks(q) PROVE MembersInv'
  BY <1>2, AsksKeep
<1>3. ASSUME NEW q \in Requests, Declined(q) PROVE MembersInv'
  BY <1>3, RollsBackKeeps DEF Declined
<1>4. ASSUME NEW q \in Requests, Commit(q) PROVE MembersInv'
  BY <1>4, UpdateRoleKeeps, RemoveMemberKeeps, TransferOwnershipKeeps, AddWorkspaceMemberKeeps,
     RemoveWorkspaceMemberKeeps, CreateInvitationKeeps, RevokeInvitationKeeps,
     AcceptInvitationKeeps DEF Commit
<1>5. ASSUME NEW q \in Requests, NEW i \in Invitations, OpenInvitation(q, i) PROVE MembersInv'
  BY <1>5, OpenInvitationKeeps
<1>6. ASSUME NEW i \in Invitations, Expire(i) PROVE MembersInv'
  BY <1>6, ExpireKeeps
<1>7. CASE UNCHANGED memberVars
  BY <1>7 DEF memberVars, MembersInv, MembersShape, MembersTypeOK, RequestOK, InvitationOK,
              AloneIsGrounded, Grounded, OwnerRemains, Owners, SeatsFitRoles, Seated, Belongs
<1> QED  BY <1>1, <1>2, <1>3, <1>4, <1>5, <1>6, <1>7 DEF MembersNext

\* The inductive invariant holds, whichever requests meet (features/tenancy).
THEOREM MembersInvariant == MembersSpec => []MembersInv
BY MembersInitial, MembersStep, PTL DEF MembersSpec

\* Whatever order people join, change role, leave and come back in, and however
\* many requests do it: the organization keeps an owner unless two requests
\* overlapped (members.ts, assertNotLastOwner).
THEOREM AnOwnerRemains == MembersSpec => []OwnerRemains
BY MembersInvariant, PTL DEF MembersInv

\* A seat is a member's and of the kind of their role, unless requests
\* overlapped or somebody no longer an owner transferred the ownership
\* (members.ts, invitations.ts).
THEOREM SeatsDoFit == MembersSpec => []SeatsFitRoles
BY MembersInvariant, PTL DEF MembersInv

\* Rows are what their columns say, whichever requests overlap.
THEOREM MembersTypeCorrect == MembersSpec => []MembersTypeOK
BY MembersInvariant, PTL DEF MembersInv, MembersShape

LEMMA JoinsOnce ==
    ASSUME MembersInv, [MembersNext]_memberVars, NEW i \in Invitations, joins'[i] # joins[i]
    PROVE  joins'[i] = 1 /\ ~invitations[i].revoked
<1>1. \E q \in Requests : Commit(q)
  BY DEF MembersNext, memberVars, notRequests, Authenticate, Asks, AskRemove, AskTransfer,
         AskUnseat, AskRole, AskInvite, AskSeat, AskRevoke, Passes, Begin, Declined, RollsBack,
         OpenInvitation, Expire
<1>2. PICK q \in Requests : AcceptInvitation(q) /\ ~RollsBack(q)
  <2>1. ASSUME NEW q \in Requests, RollsBack(q) PROVE FALSE
    BY <2>1 DEF RollsBack, notRequests
  <2>2. PICK q \in Requests : Commit(q)
    BY <1>1
  <2>3. AcceptInvitation(q)
    BY <2>1, <2>2 DEF Commit, UpdateRole, RemoveMember, TransferOwnership, AddWorkspaceMember,
                      RemoveWorkspaceMember, CreateInvitation, RevokeInvitation
  <2> QED  BY <2>1, <2>3
<1>3. Claimable(request[q].target) /\ joins' = [joins EXCEPT ![request[q].target] = @ + 1]
  BY <1>2 DEF AcceptInvitation
<1>4. i = request[q].target
  BY <1>3 DEF MembersInv, MembersShape
<1> QED  BY <1>3, <1>4 DEF Claimable, MembersInv, MembersShape, InvitationOK

\* An invitation lets in once, and never after it was revoked, however many
\* requests follow the link at the same time (acceptInvitation).
THEOREM InvitationsAdmitOnce == MembersSpec => AdmitsOnce
<1>1. MembersInv /\ [MembersNext]_memberVars =>
          [\A i \in Invitations : joins'[i] # joins[i] =>
               joins'[i] = 1 /\ ~invitations[i].revoked]_memberVars
  BY JoinsOnce
<1> QED  BY <1>1, MembersInvariant, PTL DEF MembersSpec, AdmitsOnce

----------------------------------------------------------------------------
(***************************************************************************)
(* Accounts, for every number of requests and jobs, consents and renewals, *)
(* and however often locks are lost.                                       *)
(***************************************************************************)

AccountRows == [row : BOOLEAN, status : Statuses, deleted : BOOLEAN, checked : BOOLEAN]
Credentials == [grant : 0 .. MaxGrants, use : 0 .. MaxRenewals, fresh : BOOLEAN]

\* A credential that came from a consent; it ages only if it may be renewed.
Usable(c) == c \in Credentials /\ c.grant # 0 /\ (~c.fresh => c.use < MaxRenewals)

\* What each request or job is doing, and what it has in hand to do it.
TaskOK(t) ==
    \/ t = IdleTask
    \/ t \in [do : {"renew"}, current : Credentials]
    \/ /\ t \in [do : {"ask", "store", "late"}, current : Credentials]
       /\ Usable(t.current) /\ t.current.grant <= grants
       /\ t.do = "store" => ~t.current.fresh
    \/ t \in [do : {"stage"}, grant : 1 .. grants, was : AccountRows]
    \/ t = [do |-> "discard"] \/ t = [do |-> "disconnect"]
    \/ t \in [do : {"probe"}, by : {"worker", "web"}, was : Statuses]
    \/ t \in [do : {"verdict", "record"}, was : Statuses,
              verdict : {"ACTIVE", "NEEDS_RECONNECT"}]

AccountShape ==
    /\ account \in AccountRows
    /\ credential # NoCredential => Usable(credential) /\ credential.grant <= grants
    /\ rowLock \in AccountHands \cup {Nobody}
    /\ DOMAIN hand = AccountHands /\ \A h \in AccountHands : TaskOK(hand[h])
    /\ issued \in [Grants -> Int] /\ grants \in 0 .. MaxGrants
    /\ told \in {"fine", "broken"}
    /\ lostLocks \in Nat

\* Who asks or stores holds the row, and what it read under the lock is there.
HolderHasTheRow ==
    \A h \in AccountHands :
        /\ hand[h].do \in {"ask", "store"} <=> rowLock = h
        /\ rowLock = h => /\ hand[h].current.grant = credential.grant
                          /\ hand[h].current.use = credential.use

\* A consent on its way into the database is nobody else's, and unused.
ConsentsApart ==
    /\ \A h \in AccountHands : Does(h, "stage") =>
           /\ hand[h].grant # credential.grant
           /\ \A k \in AccountHands \ {h} : Does(k, "stage") => hand[k].grant # hand[h].grant
    /\ \A g \in Grants : g > grants => issued[g] = 0

\* As long as no transaction was lost: the platform has issued what the row
\* has, or what a renewal is about to store.
IssuedIsStored ==
    /\ ~spent
    /\ \A h \in AccountHands : ~Does(h, "late")
    /\ \A h \in AccountHands : Does(h, "stage") => issued[hand[h].grant] <= 0
    /\ credential # NoCredential =>
           \/ issued[credential.grant] <= credential.use
           \/ /\ \E h \in AccountHands : Does(h, "store")
              /\ issued[credential.grant] <= credential.use + 1

AccountInv ==
    /\ AccountShape /\ HolderHasTheRow /\ ConsentsApart
    /\ lostLocks = 0 => IssuedIsStored
    /\ NeverSilentlyBroken
----------------------------------------------------------------------------
LEMMA AccountInitial == AccountInit => AccountInv
BY AccountsAssumption
DEF AccountInit, AccountInv, AccountShape, HolderHasTheRow, ConsentsApart, IssuedIsStored,
    NeverSilentlyBroken, Standing, TaskOK, AccountRows, Statuses, NoAccount, NoCredential,
    IdleTask, Does, Nobody, Grants

\* Who has some task has what the task works on.
LEMMA TaskHas ==
    ASSUME AccountInv, NEW h \in AccountHands
    PROVE  /\ hand[h].do \in {"ask", "store", "late"} =>
                  /\ Usable(hand[h].current) /\ hand[h].current.grant <= grants
                  /\ hand[h].do = "store" => ~hand[h].current.fresh
           /\ hand[h].do = "stage" => hand[h].grant \in 1 .. grants /\ hand[h].was \in AccountRows
           /\ hand[h].do \in {"verdict", "record"} =>
                  hand[h].was \in Statuses /\ hand[h].verdict \in {"ACTIVE", "NEEDS_RECONNECT"}
           /\ hand[h].do = "probe" => hand[h].was \in Statuses /\ hand[h].by \in {"worker", "web"}
BY DEF AccountInv, AccountShape, TaskOK, IdleTask

\* The row is in one hand.
LEMMA OneHolder ==
    ASSUME AccountInv, NEW h \in AccountHands, hand[h].do \in {"ask", "store"}
    PROVE  /\ rowLock = h /\ credential # NoCredential
           /\ hand[h].current.grant = credential.grant /\ hand[h].current.use = credential.use
           /\ \A k \in AccountHands \ {h} : hand[k].do \notin {"ask", "store"}
BY TaskHas DEF AccountInv, HolderHasTheRow, Usable, NoCredential

----------------------------------------------------------------------------
(* Steps that change only what one request or job is doing.                *)

LEMMA TaskMoves ==
    ASSUME AccountInv, NEW h \in AccountHands, hand[h].do \notin {"ask", "store"},
           UNCHANGED <<account, credential, rowLock, issued, grants, told, ghosts, lostLocks>>,
           \E t : /\ TaskOK(t) /\ t.do \notin {"ask", "store", "late", "stage"}
                  /\ hand' = [hand EXCEPT ![h] = t]
    PROVE  AccountInv'
<1> PICK t : /\ TaskOK(t) /\ t.do \notin {"ask", "store", "late", "stage"}
             /\ hand' = [hand EXCEPT ![h] = t]
  OBVIOUS
<1> USE DEF ghosts
<1>1. /\ DOMAIN hand' = AccountHands /\ hand'[h] = t
      /\ \A k \in AccountHands \ {h} : hand'[k] = hand[k]
  BY DEF AccountInv, AccountShape
<1>2. \A k \in AccountHands : TaskOK(hand[k])'
  BY <1>1 DEF AccountInv, AccountShape, TaskOK
<1>3. AccountShape'
  BY <1>1, <1>2 DEF AccountInv, AccountShape
<1>4. HolderHasTheRow'
  BY <1>1 DEF AccountInv, HolderHasTheRow
<1>5. ConsentsApart'
  BY <1>1 DEF AccountInv, ConsentsApart, Does
<1>6. (lostLocks = 0 => IssuedIsStored)'
  BY <1>1 DEF AccountInv, IssuedIsStored, Does
<1>7. NeverSilentlyBroken'
  BY DEF AccountInv, NeverSilentlyBroken, Standing
<1> QED  BY <1>3, <1>4, <1>5, <1>6, <1>7 DEF AccountInv

LEMMA OpenCredentialKeeps ==
    ASSUME AccountInv, NEW h \in AccountHands, OpenCredential(h)
    PROVE  AccountInv'
<1>1. PICK t : t = [do |-> "renew", current |-> credential]  OBVIOUS
<1>2. TaskOK(t)
  BY <1>1 DEF OpenCredential, TaskOK, AccountInv, AccountShape, Usable
<1> QED  BY <1>1, <1>2, TaskMoves DEF OpenCredential, Now, Does, bounds, ghosts

LEMMA TaskBeginsKeeps ==
    ASSUME AccountInv, NEW h \in AccountHands,
           DiscardReads(h) \/ DisconnectBegins(h) \/ ProbeBegins(h) \/ CheckBegins(h)
    PROVE  AccountInv'
<1>1. account.status \in Statuses
  BY DEF AccountInv, AccountShape, AccountRows
<1>2. CASE DiscardReads(h)
  BY <1>2, TaskMoves DEF DiscardReads, Now, Does, bounds, ghosts, TaskOK
<1>3. CASE DisconnectBegins(h)
  BY <1>3, TaskMoves DEF DisconnectBegins, Now, Does, bounds, ghosts, TaskOK
<1>4. CASE ProbeBegins(h)
  <2>1. PICK t : t = [do |-> "probe", by |-> "worker", was |-> account.status]  OBVIOUS
  <2> QED  BY <1>1, <1>4, <2>1, TaskMoves DEF ProbeBegins, Now, Does, bounds, ghosts, TaskOK
<1>5. CASE CheckBegins(h)
  <2>1. PICK t : t = [do |-> "probe", by |-> "web", was |-> account.status]  OBVIOUS
  <2> QED  BY <1>1, <1>5, <2>1, TaskMoves DEF CheckBegins, Now, Does, bounds, ghosts, TaskOK
<1> QED  BY <1>2, <1>3, <1>4, <1>5

LEMMA ProbeMovesKeeps ==
    ASSUME AccountInv, NEW h \in AccountHands,
           AskPlatform(h) \/ ProbeFails(h) \/ RecordReads(h)
    PROVE  AccountInv'
<1>1. TaskOK(IdleTask) /\ IdleTask.do = "idle"
  BY DEF TaskOK, IdleTask
<1>2. CASE AskPlatform(h)
  <2>1. CASE credential = NoCredential
    BY <1>1, <1>2, <2>1, TaskMoves DEF AskPlatform, Finish, Now, Does, bounds, ghosts
  <2>2. CASE credential # NoCredential
    <3>1. PICK t : t = [do |-> IF hand[h].by = "worker" THEN "verdict" ELSE "record",
                        was |-> hand[h].was, verdict |-> VerdictOn(credential)]
      OBVIOUS
    <3>2. TaskOK(t) /\ t.do \in {"verdict", "record"}
      BY <1>2, <3>1, TaskHas DEF AskPlatform, Does, TaskOK, VerdictOn
    <3> QED  BY <1>2, <2>2, <3>1, <3>2, TaskMoves DEF AskPlatform, Now, Does, bounds, ghosts
  <2> QED  BY <2>1, <2>2
<1>3. CASE ProbeFails(h)
  BY <1>1, <1>3, TaskMoves DEF ProbeFails, Finish, Now, Does, ghosts
<1>4. CASE RecordReads(h)
  <2>1. CASE ~Standing(account)
    BY <1>1, <1>4, <2>1, TaskMoves DEF RecordReads, Finish, Now, Does, bounds, ghosts
  <2>2. CASE Standing(account)
    <3>1. PICK t : t = [hand[h] EXCEPT !.do = "record", !.was = account.status]
      OBVIOUS
    <3>2. hand[h] \in [do : {"verdict", "record"}, was : Statuses,
                       verdict : {"ACTIVE", "NEEDS_RECONNECT"}]
      BY <1>4 DEF RecordReads, Does, AccountInv, AccountShape, TaskOK, IdleTask
    <3>3. TaskOK(t) /\ t.do = "record"
      BY <3>1, <3>2 DEF TaskOK, AccountInv, AccountShape, AccountRows
    <3> QED  BY <1>4, <2>2, <3>1, <3>3, TaskMoves DEF RecordReads, Now, Does, bounds, ghosts
  <2> QED  BY <2>1, <2>2
<1> QED  BY <1>2, <1>3, <1>4
----------------------------------------------------------------------------
(* Renewing.                                                               *)

\* What the whole of a step has to show, for a hand that moves.
LEMMA HandMoves ==
    ASSUME AccountInv, NEW h \in AccountHands, NEW t, hand' = [hand EXCEPT ![h] = t]
    PROVE  /\ DOMAIN hand' = AccountHands /\ hand'[h] = t
           /\ \A k \in AccountHands \ {h} : hand'[k] = hand[k]
BY DEF AccountInv, AccountShape

LEMMA LockRowKeeps ==
    ASSUME AccountInv, NEW h \in AccountHands, LockRow(h)
    PROVE  AccountInv'
<1> USE DEF ghosts, bounds
<1>1. CASE credential = NoCredential
  <2>1. TaskOK(IdleTask) /\ IdleTask.do = "idle"
    BY DEF TaskOK, IdleTask
  <2> QED  BY <1>1, <2>1, TaskMoves DEF LockRow, Finish, Now, Does
<1>2. CASE credential # NoCredential
  <2>1. PICK t : t = [do |-> "ask", current |-> credential]  OBVIOUS
  <2>2. hand' = [hand EXCEPT ![h] = t] /\ rowLock' = h /\ hand[h].do = "renew" /\ rowLock = Nobody
    BY <1>2, <2>1 DEF LockRow, Now, ReadAgain, Does, RowFree
  <2>3. UNCHANGED <<account, credential, issued, grants, told, ghosts, bounds>>
    BY DEF LockRow
  <2>4. DOMAIN hand' = AccountHands /\ hand'[h] = t /\ \A k \in AccountHands \ {h} : hand'[k] = hand[k]
    BY <2>2, HandMoves
  <2>5. TaskOK(t) /\ t.do = "ask" /\ t.current = credential
    BY <1>2, <2>1 DEF TaskOK, AccountInv, AccountShape, Usable
  <2>6. \A k \in AccountHands : TaskOK(hand[k])'
    BY <2>3, <2>4, <2>5 DEF AccountInv, AccountShape, TaskOK
  <2>7. AccountShape'
    BY <2>2, <2>3, <2>4, <2>6 DEF AccountInv, AccountShape
  <2>8. HolderHasTheRow'
    BY <2>2, <2>3, <2>4, <2>5, AccountsAssumption DEF AccountInv, HolderHasTheRow
  <2>9. ConsentsApart'
    BY <2>2, <2>3, <2>4, <2>5 DEF AccountInv, ConsentsApart, Does
  <2>10. (lostLocks = 0 => IssuedIsStored)'
    BY <2>2, <2>3, <2>4, <2>5 DEF AccountInv, IssuedIsStored, Does
  <2>11. NeverSilentlyBroken'
    BY <2>3 DEF AccountInv, NeverSilentlyBroken, Standing
  <2> QED  BY <2>7, <2>8, <2>9, <2>10, <2>11 DEF AccountInv
<1> QED  BY <1>1, <1>2

\* The holder ends its transaction; the row is as it stands.
LEMMA ReleaseKeeps ==
    ASSUME AccountInv, NEW h \in AccountHands, hand[h].do = "ask",
           Finish(h), rowLock' = Nobody, UNCHANGED <<account, credential, grants, told, undercut,
           overlapped, lostLocks>>,
           issued' \in [Grants -> Int], \A g \in Grants : g > grants => issued'[g] = 0,
           lostLocks = 0 => UNCHANGED issued /\ (~spent => ~spent')
    PROVE  AccountInv'
<1>1. /\ DOMAIN hand' = AccountHands /\ hand'[h] = IdleTask
      /\ \A k \in AccountHands \ {h} : hand'[k] = hand[k]
  BY HandMoves DEF Finish, Now
<1>2. \A k \in AccountHands : TaskOK(hand[k])'
  BY <1>1 DEF AccountInv, AccountShape, TaskOK
<1>3. AccountShape'
  BY <1>1, <1>2 DEF AccountInv, AccountShape
<1>4. HolderHasTheRow'
  BY <1>1, OneHolder, AccountsAssumption DEF AccountInv, HolderHasTheRow, IdleTask
<1>5. ConsentsApart'
  BY <1>1 DEF AccountInv, ConsentsApart, Does, IdleTask
<1>6. (lostLocks = 0 => IssuedIsStored)'
  <2> SUFFICES ASSUME lostLocks = 0 PROVE IssuedIsStored'
    OBVIOUS
  <2>1. UNCHANGED issued /\ (~spent => ~spent') /\ IssuedIsStored
    BY DEF AccountInv
  <2>2. \A k \in AccountHands : ~Does(k, "store")
    BY OneHolder DEF Does
  <2> QED  BY <1>1, <2>1, <2>2 DEF IssuedIsStored, Does, IdleTask
<1>7. NeverSilentlyBroken'
  BY DEF AccountInv, NeverSilentlyBroken, Standing
<1> QED  BY <1>3, <1>4, <1>5, <1>6, <1>7 DEF AccountInv

LEMMA KeepCredentialKeeps ==
    ASSUME AccountInv, NEW h \in AccountHands, KeepCredential(h)
    PROVE  AccountInv'
BY ReleaseKeeps DEF KeepCredential, Does, ghosts, bounds, AccountInv, AccountShape, ConsentsApart

\* What presenting a credential does at the platform.
LEMMA PresentedShape ==
    ASSUME AccountInv, NEW c, Usable(c), Presented(c), c.grant <= grants
    PROVE  /\ c.grant \in Grants
           /\ issued' \in [Grants -> Int] /\ \A g \in Grants : g > grants => issued'[g] = 0
           /\ \A g \in Grants \ {c.grant} : issued'[g] = issued[g]
           /\ issued'[c.grant] = IF issued[c.grant] = c.use THEN issued[c.grant] + 1
                                                             ELSE issued[c.grant]
           /\ spent' = (spent \/ issued[c.grant] > c.use)
<1>1. c.grant \in Grants
  BY AccountsAssumption DEF Usable, Credentials, Grants
<1>2. issued \in [Grants -> Int] /\ grants \in Nat
  BY AccountsAssumption DEF AccountInv, AccountShape
<1>3. issued' = [issued EXCEPT ![c.grant] = IF @ = c.use THEN @ + 1 ELSE @]
  BY DEF Presented
<1>4. issued' \in [Grants -> Int]
  BY <1>1, <1>2, <1>3
<1>5. /\ \A g \in Grants \ {c.grant} : issued'[g] = issued[g]
      /\ issued'[c.grant] = IF issued[c.grant] = c.use THEN issued[c.grant] + 1
                                                        ELSE issued[c.grant]
  BY <1>1, <1>2, <1>3
<1>6. \A g \in Grants : g > grants => issued'[g] = 0
  <2>1. \A g \in Grants : g > grants => issued[g] = 0 /\ g # c.grant
    BY <1>1, <1>2, AccountsAssumption DEF AccountInv, ConsentsApart, Grants
  <2> QED  BY <1>5, <2>1
<1>7. spent' = (spent \/ issued[c.grant] > c.use)
  BY DEF Presented
<1> QED  BY <1>1, <1>4, <1>5, <1>6, <1>7

LEMMA RefreshKeeps ==
    ASSUME AccountInv, NEW h \in AccountHands, Refresh(h)
    PROVE  AccountInv'
<1> DEFINE c == hand[h].current
<1>1. /\ hand[h].do = "ask" /\ Usable(c) /\ Presented(c) /\ ~c.fresh /\ rowLock = h
      /\ UNCHANGED <<account, credential, grants, told, undercut, overlapped, bounds>>
  BY TaskHas, OneHolder DEF Refresh, Does
<1>2. /\ credential # NoCredential /\ c.grant = credential.grant /\ c.use = credential.use
      /\ \A k \in AccountHands \ {h} : hand[k].do \notin {"ask", "store"}
  BY <1>1, OneHolder
<1>3. Usable(credential) /\ c.grant <= grants
  BY <1>2 DEF AccountInv, AccountShape
<1>4. /\ c.grant \in Grants
      /\ issued' \in [Grants -> Int] /\ \A g \in Grants : g > grants => issued'[g] = 0
      /\ \A g \in Grants \ {c.grant} : issued'[g] = issued[g]
      /\ issued'[c.grant] = IF issued[c.grant] = c.use THEN issued[c.grant] + 1
                                                        ELSE issued[c.grant]
      /\ spent' = (spent \/ issued[c.grant] > c.use)
  BY <1>1, <1>3, PresentedShape
<1>5. lostLocks = 0 => ~spent' /\ issued[c.grant] <= c.use
  <2> SUFFICES ASSUME lostLocks = 0 PROVE ~spent' /\ issued[c.grant] <= c.use
    OBVIOUS
  <2>1. IssuedIsStored
    BY DEF AccountInv
  <2>2. \A k \in AccountHands : ~Does(k, "store")
    BY <1>1, <1>2 DEF Does
  <2>3. issued[c.grant] \in Int /\ c.use \in Nat
    BY <1>1, <1>4, AccountsAssumption DEF AccountInv, AccountShape, Usable, Credentials
  <2>4. issued[c.grant] <= c.use /\ ~spent
    BY <1>2, <2>1, <2>2 DEF IssuedIsStored
  <2>5. ~(issued[c.grant] > c.use)
    BY <2>3, <2>4
  <2> QED  BY <1>4, <2>4, <2>5, Zenon
<1>6. CASE issued'[c.grant] = issued[c.grant]
  <2>1. Finish(h) /\ rowLock' = Nobody
    BY <1>6 DEF Refresh
  <2>2. UNCHANGED issued
    <3>1. \A g \in Grants : issued'[g] = issued[g]
      BY <1>4, <1>6
    <3> QED  BY <1>4, <3>1 DEF AccountInv, AccountShape
  <2> QED  BY <1>1, <1>4, <1>5, <2>1, <2>2, ReleaseKeeps DEF bounds
<1>7. CASE issued'[c.grant] # issued[c.grant]
  <2>1. PICK t : t = [do |-> "store", current |-> c]  OBVIOUS
  <2>2. hand' = [hand EXCEPT ![h] = t] /\ rowLock' = h
    BY <1>1, <1>7, <2>1 DEF Refresh, Now
  <2>3. DOMAIN hand' = AccountHands /\ hand'[h] = t /\ \A k \in AccountHands \ {h} : hand'[k] = hand[k]
    BY <2>2, HandMoves
  <2>4. TaskOK(t) /\ t.do = "store" /\ t.current = c
    BY <1>1, <1>3, <2>1 DEF TaskOK, Usable
  <2>5. \A k \in AccountHands : TaskOK(hand[k])'
    BY <1>1, <2>3, <2>4 DEF AccountInv, AccountShape, TaskOK
  <2>6. AccountShape'
    BY <1>1, <1>4, <2>2, <2>3, <2>5 DEF AccountInv, AccountShape, bounds
  <2>7. HolderHasTheRow'
    BY <1>1, <1>2, <2>2, <2>3, <2>4 DEF AccountInv, HolderHasTheRow
  <2>8. ConsentsApart'
    BY <1>1, <1>4, <2>3, <2>4 DEF AccountInv, ConsentsApart, Does
  <2>9. (lostLocks = 0 => IssuedIsStored)'
    <3> SUFFICES ASSUME lostLocks = 0 PROVE IssuedIsStored'
      BY <1>1 DEF bounds
    <3>1. IssuedIsStored /\ ConsentsApart
      BY DEF AccountInv
    <3>2. ~spent' /\ \A k \in AccountHands : hand'[k].do # "late"
      BY <1>5, <2>3, <2>4, <3>1 DEF IssuedIsStored, Does
    <3>3. ASSUME NEW k \in AccountHands, hand'[k].do = "stage" PROVE issued'[hand'[k].grant] <= 0
      <4>1. k # h /\ hand'[k] = hand[k] /\ hand[k].do = "stage"
        BY <2>3, <2>4, <3>3
      <4>2. hand[k].grant \in Grants \ {c.grant}
        BY <1>2, <3>1, <4>1, TaskHas, AccountsAssumption
        DEF ConsentsApart, Does, Grants, AccountInv, AccountShape
      <4> QED  BY <1>4, <3>1, <4>1, <4>2 DEF IssuedIsStored, Does
    <3>4. issued'[credential.grant] <= credential.use + 1
      BY <1>2, <1>3, <1>4, <1>5 DEF AccountInv, AccountShape, Usable, Credentials
    <3> QED  BY <1>1, <2>3, <2>4, <3>2, <3>3, <3>4 DEF IssuedIsStored, Does
  <2>10. NeverSilentlyBroken'
    BY <1>1 DEF AccountInv, NeverSilentlyBroken, Standing
  <2> QED  BY <2>6, <2>7, <2>8, <2>9, <2>10 DEF AccountInv
<1> QED  BY <1>6, <1>7

LEMMA StoreRenewedKeeps ==
    ASSUME AccountInv, NEW h \in AccountHands, StoreRenewed(h)
    PROVE  AccountInv'
<1> DEFINE c == hand[h].current
<1> USE DEF ghosts, bounds
<1>1. /\ hand[h].do = "store" /\ Usable(c) /\ ~c.fresh /\ rowLock = h
      /\ credential' = [c EXCEPT !.use = @ + 1, !.fresh = TRUE] /\ rowLock' = Nobody
      /\ UNCHANGED <<account, issued, grants, told, ghosts, bounds>>
  BY TaskHas, OneHolder DEF StoreRenewed, Does
<1>2. /\ credential # NoCredential /\ c.grant = credential.grant /\ c.use = credential.use
      /\ \A k \in AccountHands \ {h} : hand[k].do \notin {"ask", "store"}
  BY <1>1, OneHolder
<1>3. /\ Usable(credential)' /\ credential'.grant = credential.grant
      /\ credential'.use = credential.use + 1 /\ credential' # NoCredential
      /\ credential.grant <= grants /\ Usable(credential)
  <2>1. credential.grant <= grants /\ Usable(credential)
    BY <1>2 DEF AccountInv, AccountShape
  <2>2. c \in Credentials /\ c.grant # 0 /\ c.use < MaxRenewals
    BY <1>1 DEF Usable
  <2>3. c.use + 1 \in 0 .. MaxRenewals
    BY <2>2, AccountsAssumption DEF Credentials
  <2>4. /\ credential'.grant = c.grant /\ credential'.use = c.use + 1 /\ credential'.fresh
        /\ credential' \in Credentials
    BY <1>1, <2>2, <2>3 DEF Credentials
  <2> QED  BY <1>2, <2>1, <2>2, <2>4 DEF Usable, NoCredential
<1>4. /\ DOMAIN hand' = AccountHands /\ hand'[h] = IdleTask
      /\ \A k \in AccountHands \ {h} : hand'[k] = hand[k]
  BY HandMoves DEF StoreRenewed, Finish, Now
<1>5. \A k \in AccountHands : TaskOK(hand[k])'
  BY <1>1, <1>4 DEF AccountInv, AccountShape, TaskOK
<1>6. AccountShape'
  BY <1>1, <1>3, <1>4, <1>5 DEF AccountInv, AccountShape
<1>7. HolderHasTheRow'
  BY <1>1, <1>2, <1>4, AccountsAssumption DEF AccountInv, HolderHasTheRow, IdleTask
<1>8. ConsentsApart'
  BY <1>1, <1>3, <1>4 DEF AccountInv, ConsentsApart, Does, IdleTask
<1>9. (lostLocks = 0 => IssuedIsStored)'
  <2> SUFFICES ASSUME lostLocks = 0 PROVE IssuedIsStored'
    BY <1>1
  <2>1. IssuedIsStored
    BY DEF AccountInv
  <2>2. issued[credential.grant] \in Int /\ credential.use \in Nat
    BY <1>3, AccountsAssumption DEF AccountInv, AccountShape, Usable, Credentials, Grants
  <2>3. issued'[credential'.grant] <= credential'.use
    BY <1>1, <1>2, <1>3, <2>1, <2>2 DEF IssuedIsStored
  <2> QED  BY <1>1, <1>4, <2>1, <2>3 DEF IssuedIsStored, Does, IdleTask
<1>10. NeverSilentlyBroken'
  BY <1>1, <1>2, <1>3 DEF AccountInv, NeverSilentlyBroken, Standing
<1> QED  BY <1>6, <1>7, <1>8, <1>9, <1>10 DEF AccountInv

LEMMA LoseLockKeeps ==
    ASSUME AccountInv, NEW h \in AccountHands, LoseLock(h)
    PROVE  AccountInv'
<1> USE DEF ghosts, bounds
<1>1. /\ rowLock = h /\ lostLocks' = lostLocks + 1 /\ rowLock' = Nobody
      /\ UNCHANGED <<account, credential, issued, grants, told, ghosts, breaks>>
      /\ hand[h].do \in {"ask", "store"}
  BY DEF LoseLock, AccountInv, HolderHasTheRow
<1>2. PICK t : /\ hand' = [hand EXCEPT ![h] = t] /\ TaskOK(t)
               /\ t.do \notin {"ask", "store", "stage"}
  <2>1. CASE Does(h, "ask")
    <3>1. PICK t : t = [do |-> "late", current |-> hand[h].current]  OBVIOUS
    <3>2. TaskOK(t) /\ t.do = "late"
      BY <1>1, <2>1, <3>1, TaskHas DEF TaskOK, Usable, Does
    <3> QED  BY <2>1, <3>1, <3>2 DEF LoseLock, Now
  <2>2. CASE ~Does(h, "ask")
    <3>1. TaskOK(IdleTask) /\ IdleTask.do = "idle"
      BY DEF TaskOK, IdleTask
    <3> QED  BY <2>2, <3>1 DEF LoseLock, Finish, Now
  <2> QED  BY <2>1, <2>2
<1>3. DOMAIN hand' = AccountHands /\ hand'[h] = t /\ \A k \in AccountHands \ {h} : hand'[k] = hand[k]
  BY <1>2, HandMoves
<1>4. \A k \in AccountHands : TaskOK(hand[k])'
  BY <1>1, <1>2, <1>3 DEF AccountInv, AccountShape, TaskOK
<1>5. AccountShape'
  BY <1>1, <1>3, <1>4 DEF AccountInv, AccountShape
<1>6. HolderHasTheRow'
  BY <1>1, <1>2, <1>3, OneHolder, AccountsAssumption DEF AccountInv, HolderHasTheRow
<1>7. ConsentsApart'
  BY <1>1, <1>2, <1>3 DEF AccountInv, ConsentsApart, Does
<1>8. lostLocks' # 0
  BY <1>1 DEF AccountInv, AccountShape
<1>9. NeverSilentlyBroken'
  BY <1>1 DEF AccountInv, NeverSilentlyBroken, Standing
<1> QED  BY <1>5, <1>6, <1>7, <1>8, <1>9 DEF AccountInv
LEMMA AnswerTooLateKeeps ==
    ASSUME AccountInv, NEW h \in AccountHands, AnswerTooLate(h)
    PROVE  AccountInv'
<1> DEFINE c == hand[h].current
<1> USE DEF bounds
<1>1. /\ hand[h].do = "late" /\ Usable(c) /\ c.grant <= grants
      /\ UNCHANGED <<account, credential, rowLock, grants, told, undercut, overlapped, bounds>>
  BY TaskHas DEF AnswerTooLate, Does
<1>2. /\ issued' \in [Grants -> Int] /\ \A g \in Grants : g > grants => issued'[g] = 0
  <2>1. CASE UNCHANGED <<spent, issued>>
    BY <2>1 DEF AccountInv, AccountShape, ConsentsApart
  <2>2. CASE Presented(c)
    BY <1>1, <2>2, PresentedShape
  <2> QED  BY <2>1, <2>2 DEF AnswerTooLate
<1>3. /\ DOMAIN hand' = AccountHands /\ hand'[h] = IdleTask
      /\ \A k \in AccountHands \ {h} : hand'[k] = hand[k]
  BY HandMoves DEF AnswerTooLate, Finish, Now
<1>4. \A k \in AccountHands : TaskOK(hand[k])'
  BY <1>1, <1>3 DEF AccountInv, AccountShape, TaskOK
<1>5. AccountShape'
  BY <1>1, <1>2, <1>3, <1>4 DEF AccountInv, AccountShape
<1>6. HolderHasTheRow'
  BY <1>1, <1>3 DEF AccountInv, HolderHasTheRow, IdleTask
<1>7. ConsentsApart'
  BY <1>1, <1>2, <1>3 DEF AccountInv, ConsentsApart, Does, IdleTask
<1>8. lostLocks' # 0
  BY <1>1 DEF AccountInv, IssuedIsStored, Does
<1>9. NeverSilentlyBroken'
  BY <1>1 DEF AccountInv, NeverSilentlyBroken, Standing
<1> QED  BY <1>5, <1>6, <1>7, <1>8, <1>9 DEF AccountInv

----------------------------------------------------------------------------
(* What happens to the rows and at the platform on its own.                *)

\* Steps that leave every request and job where it is.
LEMMA StillHands ==
    ASSUME AccountInv, UNCHANGED <<rowLock, hand, issued, grants, spent, lostLocks>>,
           account' \in AccountRows, told' \in {"fine", "broken"},
           \/ UNCHANGED credential
           \/ credential' = NoCredential /\ rowLock = Nobody
           \/ credential # NoCredential /\ credential.use < MaxRenewals
                 /\ credential' = [credential EXCEPT !.fresh = FALSE],
           NeverSilentlyBroken'
    PROVE  AccountInv'
<1>1. \A k \in AccountHands : TaskOK(hand[k])'
  BY DEF AccountInv, AccountShape, TaskOK
<1>2. credential' # NoCredential =>
          /\ credential # NoCredential /\ Usable(credential)' /\ credential'.grant <= grants
          /\ credential'.grant = credential.grant /\ credential'.use = credential.use
  <2>1. CASE UNCHANGED credential
    BY <2>1 DEF AccountInv, AccountShape, Usable
  <2>2. CASE /\ credential # NoCredential /\ credential.use < MaxRenewals
             /\ credential' = [credential EXCEPT !.fresh = FALSE]
    <3>1. credential \in Credentials /\ credential.grant # 0 /\ credential.grant <= grants
      BY <2>2 DEF AccountInv, AccountShape, Usable
    <3>2. /\ credential' \in Credentials /\ credential'.grant = credential.grant
          /\ credential'.use = credential.use
      BY <2>2, <3>1 DEF Credentials
    <3> QED  BY <2>2, <3>1, <3>2 DEF Usable
  <2> QED  BY <2>1, <2>2
<1>3. AccountShape'
  BY <1>1, <1>2 DEF AccountInv, AccountShape
<1>4. HolderHasTheRow'
  BY <1>2, OneHolder, AccountsAssumption DEF AccountInv, HolderHasTheRow, NoCredential
<1>5. ConsentsApart'
  <2>1. ASSUME NEW k \in AccountHands, hand[k].do = "stage"
        PROVE  hand[k].grant # 0 /\ hand[k].grant # credential'.grant
    BY <1>2, <2>1, TaskHas, AccountsAssumption
    DEF AccountInv, AccountShape, ConsentsApart, Does, NoCredential
  <2> QED  BY <2>1 DEF AccountInv, ConsentsApart, Does
<1>6. (lostLocks = 0 => IssuedIsStored)'
  BY <1>2 DEF AccountInv, IssuedIsStored, Does
<1> QED  BY <1>3, <1>4, <1>5, <1>6 DEF AccountInv

LEMMA CredentialAgesKeeps ==
    ASSUME AccountInv, CredentialAges
    PROVE  AccountInv'
<1>1. credential # NoCredential
  BY DEF CredentialAges, NoCredential
<1>2. credential'.grant = credential.grant /\ Usable(credential)
  BY <1>1 DEF CredentialAges, AccountInv, AccountShape, Usable, Credentials
<1>3. credential' # NoCredential
  BY <1>2 DEF Usable, NoCredential
<1>4. NeverSilentlyBroken'
  BY <1>1, <1>3 DEF CredentialAges, ghosts, AccountInv, NeverSilentlyBroken, Standing
<1> QED  BY <1>1, <1>4, StillHands DEF CredentialAges, ghosts, bounds, AccountInv, AccountShape

LEMMA ConnectKeeps ==
    ASSUME AccountInv, Connect
    PROVE  AccountInv'
<1>1. /\ account' \in AccountRows /\ Standing(account)' /\ account'.status = "ACTIVE"
  BY DEF Connect, AccountInv, AccountShape, AccountRows, Statuses, Standing
<1>2. NeverSilentlyBroken'
  BY <1>1 DEF Connect, AccountInv, NeverSilentlyBroken
<1> QED  BY <1>1, <1>2, StillHands DEF Connect, bounds

LEMMA CleanupStagedKeeps ==
    ASSUME AccountInv, CleanupStaged
    PROVE  AccountInv'
BY StillHands DEF CleanupStaged, RowFree, ghosts, bounds, NeverSilentlyBroken, Standing, NoAccount,
   AccountInv, AccountShape, AccountRows, Statuses

LEMMA CheckGrowsOldKeeps ==
    ASSUME AccountInv, CheckGrowsOld
    PROVE  AccountInv'
<1>1. /\ account' \in AccountRows /\ Standing(account)' = Standing(account)
      /\ account'.status = account.status
  BY DEF CheckGrowsOld, AccountInv, AccountShape, AccountRows, Standing
<1>2. NeverSilentlyBroken'
  BY <1>1 DEF CheckGrowsOld, ghosts, AccountInv, NeverSilentlyBroken
<1> QED  BY <1>1, <1>2, StillHands DEF CheckGrowsOld, ghosts, bounds, AccountInv, AccountShape

LEMMA PlatformEndsKeeps ==
    ASSUME AccountInv, PlatformEnds
    PROVE  AccountInv'
<1> USE DEF ghosts
<1>1. /\ issued' = [g \in Grants |-> IF g <= grants THEN 0 - 1 ELSE issued[g]]
      /\ UNCHANGED <<account, credential, rowLock, hand, grants, told, ghosts, lostLocks>>
  BY DEF PlatformEnds
<1>2. issued' \in [Grants -> Int] /\ \A g \in Grants : issued'[g] = issued[g] \/ issued'[g] = 0 - 1
  BY <1>1 DEF AccountInv, AccountShape
<1>3. \A g \in Grants : g > grants => issued'[g] = 0
  BY <1>1, AccountsAssumption DEF AccountInv, AccountShape, ConsentsApart, Grants
<1>4. \A k \in AccountHands : TaskOK(hand[k])'
  BY <1>1 DEF AccountInv, AccountShape, TaskOK
<1>5. AccountShape' /\ HolderHasTheRow' /\ ConsentsApart' /\ NeverSilentlyBroken'
  BY <1>1, <1>2, <1>3, <1>4 DEF AccountInv, AccountShape, HolderHasTheRow, ConsentsApart, Does,
                                NeverSilentlyBroken, Standing
<1>6. (lostLocks = 0 => IssuedIsStored)'
  <2> SUFFICES ASSUME lostLocks = 0 PROVE IssuedIsStored'
    BY <1>1
  <2>1. IssuedIsStored
    BY DEF AccountInv
  <2>2. ASSUME NEW k \in AccountHands, Does(k, "stage") PROVE issued'[hand[k].grant] <= 0
    <3>1. hand[k].grant \in Grants
      BY <2>2, TaskHas, AccountsAssumption DEF Does, Grants, AccountInv, AccountShape
    <3> QED  BY <1>2, <2>1, <2>2, <3>1 DEF IssuedIsStored
  <2>3. ASSUME credential # NoCredential
        PROVE  /\ issued[credential.grant] \in Int /\ credential.use \in Nat
               /\ issued'[credential.grant] = issued[credential.grant] \/ issued'[credential.grant] = 0 - 1
    BY <1>2, <2>3, AccountsAssumption DEF AccountInv, AccountShape, Usable, Credentials, Grants
  <2> QED  BY <1>1, <2>1, <2>2, <2>3 DEF IssuedIsStored, Does
<1> QED  BY <1>5, <1>6 DEF AccountInv
----------------------------------------------------------------------------
(* Connecting, disconnecting, and what is found out about the account.     *)

LEMMA StageReadsKeeps ==
    ASSUME AccountInv, NEW h \in AccountHands, StageReads(h)
    PROVE  AccountInv'
<1> USE DEF ghosts, bounds
<1>1. /\ hand[h].do = "idle" /\ grants' = grants + 1 /\ grants < MaxGrants
      /\ UNCHANGED <<account, credential, rowLock, issued, told, ghosts, bounds>>
  BY DEF StageReads, Does
<1>2. PICK t : t = [do |-> "stage", grant |-> grants + 1, was |-> account]
  OBVIOUS
<1>3. grants \in 0 .. MaxGrants /\ grants' \in 0 .. MaxGrants
  BY <1>1, AccountsAssumption DEF AccountInv, AccountShape
<1>4. DOMAIN hand' = AccountHands /\ hand'[h] = t /\ \A k \in AccountHands \ {h} : hand'[k] = hand[k]
  BY <1>2, HandMoves DEF StageReads, Now
<1>5. t.do = "stage" /\ t.grant = grants + 1
  BY <1>2
<1>6. \A k \in AccountHands : TaskOK(hand[k])'
  <2>1. TaskOK(t)'
    BY <1>1, <1>2, <1>3 DEF TaskOK, AccountInv, AccountShape
  <2>2. ASSUME NEW k \in AccountHands PROVE TaskOK(hand[k])'
    <3>1. CASE k = h  BY <1>4, <2>1, <3>1
    <3>2. CASE k # h
      <4>1. TaskOK(hand[k]) /\ hand'[k] = hand[k]
        BY <1>4, <3>2 DEF AccountInv, AccountShape
      <4>2. CASE hand[k].do \in {"ask", "store", "late"}
        <5>1. /\ hand[k] \in [do : {"ask", "store", "late"}, current : Credentials]
              /\ Usable(hand[k].current) /\ hand[k].current.grant <= grants
              /\ hand[k].do = "store" => ~hand[k].current.fresh
          BY <4>1, <4>2 DEF TaskOK, IdleTask
        <5>2. hand[k].current.grant <= grants'
          BY <1>1, <1>3, <5>1, AccountsAssumption DEF Credentials
        <5> QED  BY <4>1, <5>1, <5>2 DEF TaskOK, Usable
      <4>3. CASE hand[k].do = "stage"
        <5>1. hand[k] \in [do : {"stage"}, grant : 1 .. grants, was : AccountRows]
          BY <4>1, <4>3 DEF TaskOK, IdleTask
        <5> QED  BY <1>1, <1>3, <4>1, <5>1, AccountsAssumption DEF TaskOK
      <4> QED  BY <4>1, <4>2, <4>3 DEF TaskOK
    <3> QED  BY <3>1, <3>2
  <2> QED  BY <2>2
<1>7. AccountShape'
  <2>1. credential # NoCredential => Usable(credential)' /\ credential'.grant <= grants'
    BY <1>1, <1>3, AccountsAssumption DEF AccountInv, AccountShape, Usable, Credentials
  <2> QED  BY <1>1, <1>3, <1>4, <1>6, <2>1 DEF AccountInv, AccountShape
<1>8. HolderHasTheRow'
  BY <1>1, <1>4, <1>5 DEF AccountInv, HolderHasTheRow
<1>9. ConsentsApart'
  <2>1. credential.grant <= grants
    BY <1>3, AccountsAssumption DEF AccountInv, AccountShape, NoCredential
  <2>2. ASSUME NEW k \in AccountHands, Does(k, "stage") PROVE hand[k].grant \in 1 .. grants
    BY <2>2, TaskHas DEF Does
  <2>3. credential.grant # grants + 1
    BY <1>3, <2>1, AccountsAssumption DEF AccountInv, AccountShape, Usable, Credentials, NoCredential
  <2>4. \A k \in AccountHands : Does(k, "stage") => hand[k].grant # grants + 1
    BY <1>3, <2>2
  <2>5. \A g \in Grants : g > grants' => issued'[g] = 0
    BY <1>1, <1>3, AccountsAssumption DEF AccountInv, ConsentsApart, Grants
  <2>6. ASSUME NEW j \in AccountHands, Does(j, "stage")'
        PROVE  /\ hand'[j].grant # credential'.grant
               /\ \A k \in AccountHands \ {j} : Does(k, "stage")' => hand'[k].grant # hand'[j].grant
    <3>1. CASE j = h
      BY <1>1, <1>4, <1>5, <2>3, <2>4, <3>1 DEF Does
    <3>2. CASE j # h
      BY <1>1, <1>4, <1>5, <2>4, <2>6, <3>2 DEF Does, AccountInv, ConsentsApart
    <3> QED  BY <3>1, <3>2
  <2> QED  BY <2>5, <2>6 DEF ConsentsApart
<1>10. (lostLocks = 0 => IssuedIsStored)'
  <2> SUFFICES ASSUME lostLocks = 0 PROVE IssuedIsStored'
    BY <1>1
  <2>1. IssuedIsStored /\ issued[grants + 1] = 0
    BY <1>1, <1>3, AccountsAssumption DEF AccountInv, ConsentsApart, Grants
  <2> QED  BY <1>1, <1>4, <1>5, <2>1 DEF IssuedIsStored, Does
<1>11. NeverSilentlyBroken'
  BY <1>1 DEF AccountInv, NeverSilentlyBroken, Standing
<1> QED  BY <1>7, <1>8, <1>9, <1>10, <1>11 DEF AccountInv

\* A task that found the row free ends, and writes what it has to.
LEMMA TaskEndsKeeps ==
    ASSUME AccountInv, NEW h \in AccountHands, hand[h].do \notin {"ask", "store", "late"},
           Finish(h), UNCHANGED <<rowLock, issued, grants, spent, lostLocks>>,
           account' \in AccountRows, told' \in {"fine", "broken"},
           \/ UNCHANGED credential
           \/ credential' = NoCredential /\ rowLock = Nobody
           \/ /\ hand[h].do = "stage" /\ rowLock = Nobody
              /\ credential' = [grant |-> hand[h].grant, use |-> 0, fresh |-> TRUE],
           NeverSilentlyBroken'
    PROVE  AccountInv'
<1>1. /\ DOMAIN hand' = AccountHands /\ hand'[h] = IdleTask
      /\ \A k \in AccountHands \ {h} : hand'[k] = hand[k]
  BY HandMoves DEF Finish, Now
<1>2. \A k \in AccountHands : TaskOK(hand[k])'
  BY <1>1 DEF AccountInv, AccountShape, TaskOK
<1>3. grants \in 0 .. MaxGrants /\ MaxGrants \in Nat /\ MaxRenewals \in Nat
  BY AccountsAssumption DEF AccountInv, AccountShape
<1>4. credential' # NoCredential =>
          /\ Usable(credential)' /\ credential'.grant <= grants
          /\ \/ UNCHANGED credential
             \/ hand[h].do = "stage" /\ credential'.grant = hand[h].grant /\ credential'.use = 0
                    /\ rowLock = Nobody
  <2>1. CASE UNCHANGED credential
    BY <2>1 DEF AccountInv, AccountShape, Usable
  <2>2. CASE /\ hand[h].do = "stage" /\ rowLock = Nobody
             /\ credential' = [grant |-> hand[h].grant, use |-> 0, fresh |-> TRUE]
    <3>1. hand[h].grant \in 1 .. grants
      BY <2>2, TaskHas
    <3>2. credential' \in Credentials /\ credential'.fresh /\ credential'.grant = hand[h].grant
      BY <1>3, <2>2, <3>1 DEF Credentials
    <3> QED  BY <1>3, <2>2, <3>1, <3>2 DEF Usable
  <2> QED  BY <2>1, <2>2
<1>5. AccountShape'
  BY <1>1, <1>2, <1>4 DEF AccountInv, AccountShape
<1>6. HolderHasTheRow'
  <2>1. UNCHANGED credential \/ rowLock = Nobody
    BY <1>4
  <2> QED  BY <1>1, <2>1, AccountsAssumption DEF AccountInv, HolderHasTheRow, IdleTask
<1>7. ConsentsApart'
  <2>1. ASSUME NEW j \in AccountHands, Does(j, "stage")'
        PROVE  /\ j # h /\ hand'[j] = hand[j] /\ Does(j, "stage")
               /\ hand[j].grant # credential'.grant
    <3>1. j # h /\ hand'[j] = hand[j] /\ Does(j, "stage")
      BY <1>1, <2>1 DEF Does, IdleTask
    <3>2. hand[j].grant \in 1 .. grants
      BY <3>1, TaskHas DEF Does
    <3>3. CASE credential' = NoCredential
      BY <1>3, <3>1, <3>2, <3>3 DEF NoCredential
    <3>4. CASE credential' # NoCredential
      BY <1>4, <3>1, <3>4 DEF AccountInv, ConsentsApart, Does
    <3> QED  BY <3>1, <3>3, <3>4
  <2> QED  BY <1>1, <2>1 DEF AccountInv, ConsentsApart, Does
<1>8. (lostLocks = 0 => IssuedIsStored)'
  <2> SUFFICES ASSUME lostLocks = 0 PROVE IssuedIsStored'
    OBVIOUS
  <2>1. IssuedIsStored
    BY DEF AccountInv
  <2>2. ASSUME credential' # NoCredential, ~UNCHANGED credential
        PROVE  issued'[credential'.grant] <= credential'.use
    BY <1>4, <2>1, <2>2 DEF IssuedIsStored, Does
  <2>3. (\E k \in AccountHands : Does(k, "store")) => \E k \in AccountHands : Does(k, "store")'
    BY <1>1 DEF Does
  <2> QED  BY <1>1, <2>1, <2>2, <2>3 DEF IssuedIsStored, Does, IdleTask
<1> QED  BY <1>5, <1>6, <1>7, <1>8 DEF AccountInv

LEMMA StageCommitsKeeps ==
    ASSUME AccountInv, NEW h \in AccountHands, StageCommits(h)
    PROVE  AccountInv'
<1> DEFINE was == hand[h].was
<1> USE DEF bounds
<1>1. /\ hand[h].do = "stage" /\ rowLock = Nobody /\ Finish(h) /\ was \in AccountRows
      /\ UNCHANGED <<rowLock, issued, grants, spent, overlapped, bounds>>
  BY TaskHas DEF StageCommits, Does, RowFree
<1>2. CASE account.row # was.row
  <2>1. UNCHANGED <<account, credential, told, undercut>>
    BY <1>2 DEF StageCommits
  <2>2. NeverSilentlyBroken'
    BY <1>1, <2>1 DEF AccountInv, NeverSilentlyBroken, Standing
  <2> QED  BY <1>1, <2>1, <2>2, TaskEndsKeeps DEF AccountInv, AccountShape
<1>3. CASE account.row = was.row
  <2>1. /\ account' = Staged(was)
        /\ credential' = [grant |-> hand[h].grant, use |-> 0, fresh |-> TRUE]
        /\ told' = IF account'.status = "NEEDS_RECONNECT" THEN told ELSE "fine"
        /\ undercut' = (undercut \/ Standing(was) # Standing(account))
    BY <1>3 DEF StageCommits
  <2>2. account \in AccountRows /\ told \in {"fine", "broken"}
    BY DEF AccountInv, AccountShape
  <2>3. /\ account' \in AccountRows /\ account'.row
        /\ account'.status = CASE was.status = "NEEDS_RECONNECT" -> "ACTIVE"
                     [] was.status # "NEEDS_RECONNECT" /\ ~AlreadyConnected(was) -> "DISABLED"
                     [] OTHER -> account.status
        /\ account'.deleted = IF AlreadyConnected(was) THEN account.deleted ELSE FALSE
    BY <2>1, <2>2 DEF Staged, AccountRows, Statuses
  <2>4. credential' # NoCredential
    <3>1. hand[h].grant \in 1 .. grants
      BY <1>1, TaskHas
    <3> QED  BY <2>1, <3>1, AccountsAssumption DEF NoCredential, AccountInv, AccountShape
  <2>5. undercut' \/ Standing(account)'
    BY <1>1, <2>1, <2>2, <2>3 DEF Standing, AlreadyConnected, AccountRows
  <2>6. ASSUME Standing(account)', account'.status = "NEEDS_RECONNECT"
        PROVE  told' = "broken" \/ overlapped'
    <3>1. AlreadyConnected(was) /\ account.status = "NEEDS_RECONNECT" /\ told' = told
      BY <1>1, <2>1, <2>3, <2>6
    <3>2. Standing(account)
      BY <1>3, <2>3, <2>6, <3>1 DEF Standing, AlreadyConnected
    <3> QED  BY <1>1, <3>1, <3>2 DEF AccountInv, NeverSilentlyBroken
  <2>7. NeverSilentlyBroken'
    BY <2>4, <2>5, <2>6 DEF NeverSilentlyBroken
  <2>8. told' \in {"fine", "broken"}
    BY <2>1, <2>2
  <2> QED  BY <1>1, <2>1, <2>3, <2>7, <2>8, TaskEndsKeeps
<1> QED  BY <1>2, <1>3

LEMMA DiscardDeletesKeeps ==
    ASSUME AccountInv, NEW h \in AccountHands, DiscardDeletes(h)
    PROVE  AccountInv'
<1>1. NoAccount \in AccountRows /\ ~Standing(NoAccount)
  BY DEF NoAccount, AccountRows, Statuses, Standing
<1>2. NeverSilentlyBroken'
  BY <1>1 DEF DiscardDeletes, NeverSilentlyBroken, Standing
<1> QED  BY <1>1, <1>2, TaskEndsKeeps
      DEF DiscardDeletes, Does, RowFree, ghosts, bounds, AccountInv, AccountShape

LEMMA DisconnectCommitsKeeps ==
    ASSUME AccountInv, NEW h \in AccountHands, DisconnectCommits(h)
    PROVE  AccountInv'
<1>1. /\ hand[h].do = "disconnect" /\ rowLock = Nobody /\ Finish(h)
      /\ UNCHANGED <<rowLock, issued, grants, told, ghosts, bounds>>
  BY DEF DisconnectCommits, Does, RowFree
<1>2. CASE UNCHANGED <<account, credential>>
  <2>1. NeverSilentlyBroken'
    BY <1>1, <1>2 DEF ghosts, AccountInv, NeverSilentlyBroken, Standing
  <2> QED  BY <1>1, <1>2, <2>1, TaskEndsKeeps DEF ghosts, bounds, AccountInv, AccountShape
<1>3. CASE /\ account' = [account EXCEPT !.status = "REVOKED", !.deleted = TRUE]
           /\ credential' = CredentialGone
  <2>1. account' \in AccountRows /\ ~Standing(account)' /\ credential' = NoCredential
    BY <1>3 DEF AccountInv, AccountShape, AccountRows, Statuses, Standing, CredentialGone
  <2>2. NeverSilentlyBroken'
    BY <2>1 DEF NeverSilentlyBroken
  <2> QED  BY <1>1, <2>1, <2>2, TaskEndsKeeps DEF ghosts, bounds, AccountInv, AccountShape
<1> QED  BY <1>2, <1>3 DEF DisconnectCommits

LEMMA RecordVerdictKeeps ==
    ASSUME AccountInv, NEW h \in AccountHands, RecordVerdict(h)
    PROVE  AccountInv'
<1> DEFINE r == hand[h]
<1> USE DEF bounds
<1>1. /\ r.do = "record" /\ Finish(h) /\ r.was \in Statuses
      /\ r.verdict \in {"ACTIVE", "NEEDS_RECONNECT"}
      /\ UNCHANGED <<credential, rowLock, issued, grants, spent, undercut, bounds>>
  BY TaskHas DEF RecordVerdict, Does
<1>2. CASE ~account.row
  <2>1. UNCHANGED <<account, told, overlapped>>
    BY <1>2 DEF RecordVerdict
  <2>2. NeverSilentlyBroken'
    BY <1>1, <2>1 DEF AccountInv, NeverSilentlyBroken, Standing
  <2> QED  BY <1>1, <2>1, <2>2, TaskEndsKeeps DEF AccountInv, AccountShape
<1>3. CASE account.row
  <2>1. /\ account' = [account EXCEPT !.status = r.verdict, !.checked = TRUE]
        /\ told' = ToldAfter(r.was, r.verdict)
        /\ overlapped' = (overlapped \/ r.was # account.status)
    BY <1>3 DEF RecordVerdict
  <2>2. account \in AccountRows /\ told \in {"fine", "broken"}
    BY DEF AccountInv, AccountShape
  <2>3. /\ account' \in AccountRows /\ Standing(account)' = Standing(account)
        /\ account'.status = r.verdict
    BY <1>1, <2>1, <2>2 DEF AccountRows, Statuses, Standing
  <2>4. ASSUME Standing(account)', account'.status = "NEEDS_RECONNECT"
        PROVE  told' = "broken" \/ overlapped'
    <3>1. CASE r.was # "NEEDS_RECONNECT"
      BY <2>1, <2>3, <2>4, <3>1 DEF ToldAfter
    <3>2. CASE r.was = "NEEDS_RECONNECT" /\ account.status = "NEEDS_RECONNECT"
      <4>1. told' = told
        BY <2>1, <2>3, <2>4, <3>2 DEF ToldAfter
      <4> QED  BY <2>1, <2>3, <2>4, <3>2, <4>1 DEF AccountInv, NeverSilentlyBroken
    <3> QED  BY <2>1, <3>1, <3>2
  <2>5. NeverSilentlyBroken'
    BY <1>1, <2>3, <2>4 DEF AccountInv, NeverSilentlyBroken
  <2>6. told' \in {"fine", "broken"}
    BY <2>1, <2>2 DEF ToldAfter
  <2> QED  BY <1>1, <2>3, <2>5, <2>6, TaskEndsKeeps
<1> QED  BY <1>2, <1>3

----------------------------------------------------------------------------
LEMMA AccountStep == AccountInv /\ [AccountNext]_accountVars => AccountInv'
<1> SUFFICES ASSUME AccountInv, [AccountNext]_accountVars PROVE AccountInv'
  OBVIOUS
<1>1. ASSUME NEW h \in AccountHands, Renewing(h) PROVE AccountInv'
  BY <1>1, OpenCredentialKeeps, LockRowKeeps, KeepCredentialKeeps, RefreshKeeps,
     StoreRenewedKeeps, LoseLockKeeps, AnswerTooLateKeeps DEF Renewing
<1>2. ASSUME NEW h \in AccountHands, Connecting(h) PROVE AccountInv'
  BY <1>2, StageReadsKeeps, StageCommitsKeeps, TaskBeginsKeeps, DiscardDeletesKeeps,
     DisconnectCommitsKeeps DEF Connecting
<1>3. ASSUME NEW h \in AccountHands, Probing(h) PROVE AccountInv'
  BY <1>3, TaskBeginsKeeps, ProbeMovesKeeps, RecordVerdictKeeps DEF Probing
<1>4. CASE UNCHANGED accountVars
  <2>1. \A k \in AccountHands : TaskOK(hand[k])'
    BY <1>4 DEF accountVars, AccountInv, AccountShape, TaskOK
  <2> QED
    BY <1>4, <2>1 DEF accountVars, AccountInv, AccountShape, HolderHasTheRow, ConsentsApart,
       IssuedIsStored, NeverSilentlyBroken, Standing, Does, Usable
<1> QED  BY <1>1, <1>2, <1>3, <1>4, CredentialAgesKeeps, ConnectKeeps, CleanupStagedKeeps,
            CheckGrowsOldKeeps, PlatformEndsKeeps DEF AccountNext

\* The inductive invariant holds, whichever requests and jobs meet (features/social,
\* credentials.ts, health).
THEOREM AccountInvariant == AccountSpec => []AccountInv
BY AccountInitial, AccountStep, PTL DEF AccountSpec

\* The rows are what their columns say, and whoever asks the platform or stores
\* its answer holds the row, however often locks are lost (renewUnderLock).
THEOREM AccountTypeCorrect == AccountSpec => []AccountsTypeOK
<1>1. AccountInv => AccountsTypeOK
  BY AccountsAssumption DEF AccountInv, AccountShape, HolderHasTheRow, AccountsTypeOK, AccountRows,
     Usable, Credentials, NoCredential
<1> QED  BY <1>1, AccountInvariant, PTL

\* No refresh token is presented twice, for any number of callers and renewals,
\* unless a renewal's transaction was lost while the platform worked.
THEOREM TokensUsedOnce == AccountSpec => []TokenUsedOnce
<1>1. AccountInv => TokenUsedOnce
  BY DEF AccountInv, AccountShape, IssuedIsStored, TokenUsedOnce
<1> QED  BY <1>1, AccountInvariant, PTL

\* What stands has a credential and what is broken has been said, whichever
\* connections, checks and disconnections overlap but for the two named.
THEOREM NothingSilentlyBroken == AccountSpec => []NeverSilentlyBroken
BY AccountInvariant, PTL DEF AccountInv

LEMMA ConsentChanges ==
    ASSUME AccountInv, [AccountNext]_accountVars,
           credential'.grant # 0, credential'.grant < credential.grant
    PROVE  \E h \in AccountHands : Does(h, "stage") /\ hand[h].grant = credential'.grant
<1>1. credential.grant \in Nat
  BY AccountsAssumption DEF AccountInv, AccountShape, Usable, Credentials, NoCredential
<1>2. credential'.grant # credential.grant
  BY <1>1
<1>3. ASSUME NEW h \in AccountHands, StoreRenewed(h) PROVE FALSE
  <2>1. /\ Usable(hand[h].current) /\ hand[h].current.grant = credential.grant
        /\ credential' = [hand[h].current EXCEPT !.use = @ + 1, !.fresh = TRUE]
    BY <1>3, TaskHas, OneHolder DEF StoreRenewed, Does
  <2> QED  BY <1>2, <2>1 DEF Usable, Credentials
<1>4. ASSUME CredentialAges PROVE FALSE
  <2>1. credential # NoCredential
    BY <1>4 DEF CredentialAges, NoCredential
  <2> QED  BY <1>2, <1>4, <2>1 DEF CredentialAges, AccountInv, AccountShape, Usable, Credentials
<1>5. NoCredential.grant = 0
  BY DEF NoCredential
<1>6. ASSUME NEW h \in AccountHands, Probing(h) PROVE UNCHANGED credential
  BY <1>6 DEF Probing, ProbeBegins, CheckBegins, AskPlatform, ProbeFails, RecordReads, RecordVerdict
<1>7. ASSUME NEW h \in AccountHands, Renewing(h), ~StoreRenewed(h) PROVE UNCHANGED credential
  BY <1>7 DEF Renewing, OpenCredential, LockRow, KeepCredential, Refresh, LoseLock, AnswerTooLate
<1>8. ASSUME NEW h \in AccountHands, Connecting(h), ~StageCommits(h)
      PROVE  UNCHANGED credential \/ credential' = NoCredential
  BY <1>8 DEF Connecting, StageReads, DiscardReads, DiscardDeletes, DisconnectBegins,
              DisconnectCommits, CredentialGone
<1>9. ASSUME Connect \/ CleanupStaged \/ CheckGrowsOld \/ PlatformEnds \/ UNCHANGED accountVars
      PROVE  UNCHANGED credential \/ credential' = NoCredential
  BY <1>9 DEF Connect, CleanupStaged, CheckGrowsOld, PlatformEnds, accountVars
<1>10. PICK h \in AccountHands : StageCommits(h)
  BY <1>2, <1>3, <1>4, <1>5, <1>6, <1>7, <1>8, <1>9 DEF AccountNext
<1> QED  BY <1>2, <1>10 DEF StageCommits, Does

LEMMA InUseIsDiscarded ==
    ASSUME AccountInv, [AccountNext]_accountVars, Connected, ~account'.row
    PROVE  \E h \in AccountHands : Does(h, "discard")
<1>1. account.row /\ account.status # "DISABLED" /\ account \in AccountRows
  BY DEF Connected, Standing, AccountInv, AccountShape
<1>2. ASSUME NEW h \in AccountHands, Renewing(h) PROVE UNCHANGED account
  BY <1>2 DEF Renewing, OpenCredential, LockRow, KeepCredential, Refresh, StoreRenewed, LoseLock,
              AnswerTooLate
<1>3. ASSUME NEW h \in AccountHands, Probing(h) PROVE account'.row
  BY <1>1, <1>3 DEF Probing, ProbeBegins, CheckBegins, AskPlatform, ProbeFails, RecordReads,
                    RecordVerdict, AccountRows
<1>4. ASSUME NEW h \in AccountHands, Connecting(h), ~DiscardDeletes(h) PROVE account'.row
  BY <1>1, <1>4 DEF Connecting, StageReads, StageCommits, Staged, DiscardReads, DisconnectBegins,
                    DisconnectCommits, AccountRows
<1>5. ASSUME CredentialAges \/ Connect \/ CleanupStaged \/ CheckGrowsOld \/ PlatformEnds
                 \/ UNCHANGED accountVars
      PROVE  account'.row
  BY <1>1, <1>5 DEF CredentialAges, Connect, CleanupStaged, AbandonedStaging, CheckGrowsOld,
                    PlatformEnds, accountVars, AccountRows
<1> QED  BY <1>1, <1>2, <1>3, <1>4, <1>5 DEF AccountNext, DiscardDeletes

\* However renewals, callbacks, choices and disconnections overlap: no renewal
\* puts an older consent back, and only a discard deletes an account in use.
THEOREM NewestIsKept == AccountSpec => NewestConsentKept
<1>1. AccountInv /\ [AccountNext]_accountVars =>
          [/\ credential'.grant # 0 /\ credential'.grant < credential.grant =>
                  \E h \in AccountHands : Does(h, "stage") /\ hand[h].grant = credential'.grant
           /\ Connected /\ ~account'.row => \E h \in AccountHands : Does(h, "discard")]_accountVars
  BY ConsentChanges, InUseIsDiscarded
<1> QED  BY <1>1, AccountInvariant, PTL DEF AccountSpec, NewestConsentKept

----------------------------------------------------------------------------
(***************************************************************************)
(* MediaLibrary, for every number of requests that complete an upload and  *)
(* of posts it may be attached to.                                         *)
(***************************************************************************)

AssetRecord == [status : {"none", "PENDING", "READY", "REJECTED"}, deleted : BOOLEAN]
CompletionSteps == {"idle", "verify", "accept", "reject", "erase"}

MediaShape ==
    /\ asset \in AssetRecord /\ object \in Contents \cup {"none"}
    /\ completing \in [Completions -> CompletionSteps]
    /\ attached \subseteq LibraryPosts /\ attaching \subseteq LibraryPosts \ attached
    /\ handed \in Contents \cup {"nothing", "broken"}
    /\ asset.status = "none" =>
           /\ object = "none" /\ ~urlOpen /\ attached = {} /\ attaching = {}
           /\ \A c \in Completions : completing[c] = "idle"

\* Until a file is put after a completion began, what was accepted is what is
\* in the bucket.
UnfitHeld ==
    ~putAgain =>
        /\ handed # "unfit"
        /\ object = "unfit" =>
               asset.status # "READY" /\ \A c \in Completions : completing[c] # "accept"

\* A completion that met no other is the only one, and the row and the bucket
\* are as it left them.
Alone ==
    /\ \A c, d \in Completions : completing[c] # "idle" /\ completing[d] # "idle" => c = d
    /\ \A c \in Completions :
           /\ completing[c] \in {"verify", "accept", "reject"} => asset.status = "PENDING"
           /\ completing[c] = "accept" => object # "none"
           /\ completing[c] = "erase" => asset.status = "REJECTED"
    /\ asset.status = "READY" => object # "none"
    /\ handed # "broken"

\* What a post has, or is about to have, is there; nothing is deleted of what
\* was counted as attached nowhere and still is.
UsesHeld ==
    /\ attached \cup attaching # {} => asset.status = "READY" /\ ~asset.deleted
    /\ deleting => attached = {} /\ attaching = {}

MediaInv == MediaShape /\ UnfitHeld /\ (~crossed => Alone /\ UsesHeld)

----------------------------------------------------------------------------
LEMMA MediaInitial == MediaInit => MediaInv
BY DEF MediaInit, MediaInv, Contents, MediaShape, AssetRecord, CompletionSteps, UnfitHeld, Alone, UsesHeld

\* A completion goes from one step to the next.
LEMMA CompletionMoves ==
    ASSUME MediaShape, NEW c \in Completions, NEW step \in CompletionSteps,
           completing' = [completing EXCEPT ![c] = step]
    PROVE  /\ completing' \in [Completions -> CompletionSteps] /\ completing'[c] = step
           /\ \A d \in Completions : d # c => completing'[d] = completing[d]
BY DEF MediaShape

\* The row's status changes and nothing else of it.
LEMMA StatusChanges ==
    ASSUME MediaShape, NEW status \in {"PENDING", "READY", "REJECTED"},
           asset' = [asset EXCEPT !.status = status]
    PROVE  asset' \in AssetRecord /\ asset'.status = status /\ asset'.deleted = asset.deleted
BY DEF MediaShape, AssetRecord

LEMMA CompletionBeginKeeps ==
    ASSUME MediaInv, NEW c \in Completions, BeginCompletion(c)
    PROVE  MediaInv'
<1>1. /\ completing' \in [Completions -> CompletionSteps] /\ completing'[c] = "verify"
      /\ \A d \in Completions : d # c => completing'[d] = completing[d]
  BY CompletionMoves DEF BeginCompletion, MediaInv, CompletionSteps
<1>2. MediaShape' /\ UnfitHeld'
  BY <1>1 DEF BeginCompletion, MediaInv, MediaShape, UnfitHeld
<1>3. ASSUME ~crossed' PROVE Alone' /\ UsesHeld'
  <2>1. ~crossed /\ \A d \in Completions : d # c => completing[d] = "idle"
    BY <1>3 DEF BeginCompletion, ElsewhereCompleting
  <2> QED  BY <1>1, <2>1 DEF BeginCompletion, MediaInv, Alone, UsesHeld
<1> QED  BY <1>2, <1>3 DEF MediaInv

LEMMA VerifyKeeps ==
    ASSUME MediaInv, NEW c \in Completions, VerifyUpload(c)
    PROVE  MediaInv'
<1>1. PICK step \in {"accept", "reject"} :
          /\ completing' = [completing EXCEPT ![c] = step]
          /\ step = "accept" => FileIsFit
  BY DEF VerifyUpload
<1>2. /\ completing' \in [Completions -> CompletionSteps] /\ completing'[c] = step
      /\ \A d \in Completions : d # c => completing'[d] = completing[d]
  BY <1>1, CompletionMoves DEF MediaInv, CompletionSteps
<1>3. MediaShape'  BY <1>2 DEF VerifyUpload, MediaInv, MediaShape
<1>4. UnfitHeld'
  BY <1>1, <1>2 DEF VerifyUpload, MediaInv, UnfitHeld, FileIsFit
<1>5. ASSUME ~crossed' PROVE Alone' /\ UsesHeld'
  BY <1>1, <1>2, <1>5 DEF VerifyUpload, FileIsFit, MediaInv, Alone, UsesHeld
<1> QED  BY <1>3, <1>4, <1>5 DEF MediaInv

LEMMA AcceptKeeps ==
    ASSUME MediaInv, NEW c \in Completions, AcceptUpload(c)
    PROVE  MediaInv'
<1>1. /\ completing[c] = "accept" /\ asset.status # "none"
      /\ UNCHANGED <<object, urlOpen, attached, attaching, deleting, handed, putAgain>>
  BY DEF AcceptUpload, MediaInv, MediaShape
<1>2. PICK step \in {"idle", "reject"} :
          /\ completing' = [completing EXCEPT ![c] = step]
          /\ asset' = asset \/ asset' = [asset EXCEPT !.status = "READY"]
          /\ asset' = asset => step = "reject" \/ asset.status = "READY"
  BY DEF AcceptUpload, MediaInv, MediaShape, AssetRecord
<1>3. /\ completing' \in [Completions -> CompletionSteps] /\ completing'[c] = step
      /\ \A d \in Completions : d # c => completing'[d] = completing[d]
  BY <1>2, CompletionMoves DEF MediaInv, CompletionSteps
<1>4. /\ asset' \in AssetRecord /\ asset'.deleted = asset.deleted
      /\ asset'.status = asset.status \/ asset'.status = "READY"
  BY <1>2, StatusChanges DEF MediaInv, MediaShape
<1>5. MediaShape'  BY <1>1, <1>3, <1>4 DEF MediaInv, MediaShape
<1>6. UnfitHeld'  BY <1>1, <1>3, <1>4 DEF MediaInv, UnfitHeld
<1>7. ASSUME ~crossed' PROVE Alone' /\ UsesHeld'
  <2>1. ~crossed /\ (asset'.status = "READY" => step # "reject")
    BY <1>3, <1>7 DEF AcceptUpload
  <2>2. \A d \in Completions : d # c => completing'[d] = "idle"
    BY <1>1, <1>3, <2>1 DEF MediaInv, Alone
  <2>3. object # "none" /\ asset.status = "PENDING" /\ handed # "broken"  BY <1>1, <2>1 DEF MediaInv, Alone
  <2>4. Alone'  BY <1>1, <1>2, <1>3, <1>4, <2>1, <2>2, <2>3 DEF Alone
  <2>5. UsesHeld'  BY <1>1, <1>4, <2>1, <2>3 DEF MediaInv, UsesHeld
  <2> QED  BY <2>4, <2>5
<1> QED  BY <1>5, <1>6, <1>7 DEF MediaInv

LEMMA RejectKeeps ==
    ASSUME MediaInv, NEW c \in Completions, RejectUpload(c)
    PROVE  MediaInv'
<1>1. /\ completing[c] = "reject" /\ asset.status # "none"
      /\ UNCHANGED <<object, urlOpen, attached, attaching, deleting, handed, crossed,
                     putAgain>>
  BY DEF RejectUpload, MediaInv, MediaShape
<1>2. CASE asset' = asset /\ completing' = [completing EXCEPT ![c] = "idle"]
  <2>1. /\ completing' \in [Completions -> CompletionSteps] /\ completing'[c] = "idle"
        /\ \A d \in Completions : d # c => completing'[d] = completing[d]
    BY <1>2, CompletionMoves DEF MediaInv, CompletionSteps
  <2>2. MediaShape' /\ UnfitHeld'
    BY <1>1, <1>2, <2>1 DEF MediaInv, MediaShape, UnfitHeld
  <2>3. ASSUME ~crossed' PROVE Alone' /\ UsesHeld'
    BY <1>1, <1>2, <2>1, <2>3 DEF MediaInv, Alone, UsesHeld
  <2> QED  BY <2>2, <2>3 DEF MediaInv
<1>3. CASE /\ asset' = [asset EXCEPT !.status = "REJECTED"]
           /\ completing' = [completing EXCEPT ![c] = "erase"]
  <2>1. /\ completing' \in [Completions -> CompletionSteps] /\ completing'[c] = "erase"
        /\ \A d \in Completions : d # c => completing'[d] = completing[d]
    BY <1>3, CompletionMoves DEF MediaInv, CompletionSteps
  <2>2. /\ asset' \in AssetRecord /\ asset'.status = "REJECTED"
        /\ asset'.deleted = asset.deleted
    BY <1>3, StatusChanges DEF MediaInv
  <2>3. MediaShape' /\ UnfitHeld'
    BY <1>1, <2>1, <2>2 DEF MediaInv, MediaShape, UnfitHeld
  <2>4. ASSUME ~crossed' PROVE Alone' /\ UsesHeld'
    <3>1. asset.status = "PENDING" /\ \A d \in Completions : d # c => completing'[d] = "idle"
      BY <1>1, <2>1, <2>4 DEF MediaInv, Alone
    <3> QED  BY <1>1, <2>1, <2>2, <2>4, <3>1 DEF MediaInv, Alone, UsesHeld
  <2> QED  BY <2>3, <2>4 DEF MediaInv
<1> QED  BY <1>2, <1>3 DEF RejectUpload

LEMMA EraseKeeps ==
    ASSUME MediaInv, NEW c \in Completions, EraseUpload(c) \/ CompletionDies(c)
    PROVE  MediaInv'
<1>1. /\ completing[c] # "idle" /\ asset.status # "none"
      /\ completing' = [completing EXCEPT ![c] = "idle"]
      /\ object' = object \/ (completing[c] = "erase" /\ object' = "none")
      /\ UNCHANGED <<asset, urlOpen, attached, attaching, deleting, handed, crossed,
                     putAgain>>
  BY DEF EraseUpload, CompletionDies, MediaInv, MediaShape
<1>2. /\ completing' \in [Completions -> CompletionSteps] /\ completing'[c] = "idle"
      /\ \A d \in Completions : d # c => completing'[d] = completing[d]
  BY <1>1, CompletionMoves DEF MediaInv, CompletionSteps
<1>3. MediaShape' /\ UnfitHeld'
  BY <1>1, <1>2 DEF MediaInv, MediaShape, UnfitHeld
<1>4. ASSUME ~crossed' PROVE Alone' /\ UsesHeld'
  <2>1. \A d \in Completions : completing'[d] = "idle"
    BY <1>1, <1>2, <1>4 DEF MediaInv, Alone
  <2>2. asset.status = "READY" => object' # "none"
    <3>1. ~crossed  BY <1>1, <1>4
    <3>2. asset.status = "READY" => completing[c] # "erase" /\ object # "none"
      BY <3>1 DEF MediaInv, Alone
    <3>3. completing[c] # "erase" => object' = object  BY <1>1
    <3> QED  BY <3>2, <3>3
  <2> QED  BY <1>1, <1>4, <2>1, <2>2 DEF MediaInv, Alone, UsesHeld
<1> QED  BY <1>3, <1>4 DEF MediaInv

LEMMA MediaStep ==
    ASSUME MediaInv, [MediaNext]_mediaVars
    PROVE  MediaInv'
<1>1. CASE PresignMediaUpload
  <2>1. asset' \in AssetRecord /\ asset'.status = "PENDING" /\ asset'.deleted = asset.deleted
    BY <1>1, StatusChanges DEF PresignMediaUpload, MediaInv
  <2> QED
    BY <1>1, <2>1 DEF PresignMediaUpload, MediaInv, MediaShape, UnfitHeld, Alone, UsesHeld
<1>2. ASSUME NEW content \in Contents, UploadFile(content) PROVE MediaInv'
  <2>1. /\ urlOpen /\ object' = content /\ content # "none"
        /\ UNCHANGED <<asset, completing, attached, attaching, deleting, handed, crossed>>
    BY <1>2 DEF UploadFile, Contents
  <2>2. MediaShape'  BY <2>1 DEF MediaInv, MediaShape
  <2>3. ASSUME ~putAgain' PROVE UnfitHeld'
    <3>1. ~putAgain /\ asset.status = "PENDING" /\ \A c \in Completions : completing[c] = "idle"
      BY <1>2, <2>3 DEF UploadFile, Examined
    <3> QED  BY <2>1, <3>1 DEF MediaInv, UnfitHeld
  <2>4. ASSUME ~crossed' PROVE Alone' /\ UsesHeld'
    BY <2>1, <2>4 DEF MediaInv, Alone, UsesHeld
  <2> QED  BY <2>2, <2>3, <2>4 DEF MediaInv, UnfitHeld
<1>12. CASE UrlExpires
  BY <1>12 DEF UrlExpires, MediaInv, MediaShape, UnfitHeld, Alone, UsesHeld
<1>3. CASE CountAttachments
  BY <1>3 DEF CountAttachments, Deletable, MediaInv, MediaShape, UnfitHeld, Alone, UsesHeld
<1>4. CASE DeleteMediaAsset
  <2>1. /\ asset' \in AssetRecord /\ asset'.status = asset.status
        /\ UNCHANGED <<object, urlOpen, completing, attached, attaching, handed, crossed,
                       putAgain>>
        /\ deleting /\ ~deleting'
    BY <1>4 DEF DeleteMediaAsset, MediaInv, MediaShape, AssetRecord
  <2> QED  BY <2>1 DEF MediaInv, MediaShape, UnfitHeld, Alone, UsesHeld
<1>5. ASSUME NEW c \in Completions,
             \/ BeginCompletion(c) \/ VerifyUpload(c) \/ AcceptUpload(c)
             \/ RejectUpload(c) \/ EraseUpload(c) \/ CompletionDies(c)
      PROVE MediaInv'
  BY <1>5, CompletionBeginKeeps, VerifyKeeps, AcceptKeeps, RejectKeeps, EraseKeeps
<1>6. ASSUME NEW p \in LibraryPosts, FindMedia(p) PROVE MediaInv'
  BY <1>6 DEF FindMedia, Attachable, MediaInv, MediaShape, UnfitHeld, Alone, UsesHeld
<1>7. ASSUME NEW p \in LibraryPosts, AttachMedia(p) PROVE MediaInv'
  BY <1>7 DEF AttachMedia, MediaInv, MediaShape, UnfitHeld, Alone, UsesHeld
<1>8. ASSUME NEW p \in LibraryPosts, NEW q \in LibraryPosts, CopyMedia(p, q) PROVE MediaInv'
  BY <1>8 DEF CopyMedia, MediaInv, MediaShape, UnfitHeld, Alone, UsesHeld
<1>9. ASSUME NEW p \in LibraryPosts, DetachMedia(p) PROVE MediaInv'
  BY <1>9 DEF DetachMedia, MediaInv, MediaShape, UnfitHeld, Alone, UsesHeld
<1>10. ASSUME NEW p \in LibraryPosts, ServeMedia(p) PROVE MediaInv'
  BY <1>10 DEF ServeMedia, Contents, MediaInv, MediaShape, UnfitHeld, Alone, UsesHeld
<1>11. CASE UNCHANGED mediaVars
  BY <1>11 DEF mediaVars, MediaInv, MediaShape, UnfitHeld, Alone, UsesHeld
<1> QED
  BY <1>1, <1>2, <1>3, <1>4, <1>5, <1>6, <1>7, <1>8, <1>9, <1>10, <1>11, <1>12 DEF MediaNext

----------------------------------------------------------------------------
\* The row, the bucket and the attachments, however requests interleave.
THEOREM MediaInvariant == MediaSpec => []MediaInv
BY MediaInitial, MediaStep, PTL DEF MediaSpec

\* The rows are what they should be, and what is REJECTED was rejected by a
\* completion (service.ts, completeMediaUpload).
THEOREM MediaTypeCorrect == MediaSpec => []MediaTypeOK
<1>1. MediaInv => MediaTypeOK
  BY DEF MediaInv, MediaShape, AssetRecord, Alone, MediaTypeOK
<1> QED  BY <1>1, MediaInvariant, PTL

\* What posts have attached stands, when no two requests met between their
\* reads and their writes, and a file that fails the checks is given to a
\* platform only if it was put after a completion began (service.ts,
\* completeMediaUpload, deleteMediaAsset; s3.ts, the URL; resolveSubject).
THEOREM AttachmentsStand == MediaSpec => []AttachedStands
<1>1. MediaInv => AttachedStands
  BY DEF MediaInv, Alone, UsesHeld, UnfitHeld, AttachedStands
<1> QED  BY <1>1, MediaInvariant, PTL
=============================================================================
