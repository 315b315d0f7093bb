------------------------------- MODULE Teams -------------------------------
(***************************************************************************)
(* Users, organizations and memberships: lib/org.ts, the team settings      *)
(* (app/app/settings/team/actions.ts), signup, account deletion and the     *)
(* candidates it must erase.  A request is a process; it interleaves with   *)
(* the others at every await.  A transaction is one step, except that an    *)
(* interactive one that reads before it writes is two.                      *)
(***************************************************************************)
EXTENDS Naturals, FiniteSets

CONSTANTS
  Users,      \* e-mail addresses, whether or not they have an account
  Orgs,       \* organization ids that may be handed out (a bound)
  Founder,    \* the user who has an account from the start, and its
  Home,       \* personal organization
  NoOrg,      \* a null User.organizationId
  Requests,   \* slots for requests in progress
  Kinds,      \* kinds of request in this instance
  MaxOps      \* bound on the number of requests

ASSUME TeamsAssumption ==
  /\ Founder \in Users /\ Home \in Orgs /\ NoOrg \notin Orgs
  /\ Kinds \subseteq {"visit", "signup", "invite", "remove", "candidate", "delete"}
  /\ MaxOps \in Nat

VARIABLES
  account,     \* absent, pending (invited, no password) or active
  primary,     \* User.organizationId
  orgs,        \* Organization rows
  member,      \* OrganizationMember rows: role, and the id of the row
  joins,       \* ids handed out to rows, in the order of their creation
  candidates,  \* Candidate rows: who created them, with which organization
  request, ops

rows == <<account, primary, orgs, member, joins, candidates>>
vars == <<account, primary, orgs, member, joins, candidates, request, ops>>

Roles == {"none", "MEMBER", "OWNER"}
NoRequest == [pc |-> "idle", kind |-> "visit", actor |-> Founder,
              target |-> Founder, org |-> NoOrg, saw |-> 0, sole |-> {}]

IsMember(o, u) == member[o][u].role # "none"
IsOwner(o, u) == member[o][u].role = "OWNER"
Join(o, u, r) == [member EXCEPT ![o][u] = [role |-> r, id |-> joins + 1]]
Members(o) == {u \in Users : IsMember(o, u)}
Owners(o) == {u \in Users : IsOwner(o, u)}

TeamsInit ==
  /\ account = [u \in Users |-> IF u = Founder THEN "active" ELSE "absent"]
  /\ primary = [u \in Users |-> IF u = Founder THEN Home ELSE NoOrg]
  /\ orgs = {Home}
  /\ member = [o \in Orgs |-> [u \in Users |->
       IF o = Home /\ u = Founder THEN [role |-> "OWNER", id |-> 1]
       ELSE [role |-> "none", id |-> 0]]]
  /\ joins = 1
  /\ candidates = {}
  /\ request = [r \in Requests |-> NoRequest]
  /\ ops = 0

---------------------------------------------------------------------------
(* Requests and the organization they act in.  "saw" is the id of the        *)
(* membership that a removal has read; with an invitation and a deletion it   *)
(* only dates their reading: the newest id at that time.                      *)

At(r, pc) == request[r].pc = pc
GoTo(r, pc) == request' = [request EXCEPT ![r].pc = pc]
Done(r) == request' = [request EXCEPT ![r] = NoRequest]
Keeps == UNCHANGED <<rows, ops>>

\* Anyone may sign up; every other request needs a session.
Begin(r) ==
  /\ At(r, "idle") /\ ops < MaxOps
  /\ \E k \in Kinds, u \in Users, v \in Users :
       /\ k = "signup" \/ account[u] = "active"
       /\ k \in {"invite", "remove"} \/ v = u
       /\ k = "invite" => v # u
       /\ request' = [request EXCEPT ![r] =
            [NoRequest EXCEPT !.kind = k, !.actor = u, !.target = v,
             !.pc = CASE k = "signup" -> "row"
                      [] k = "delete" -> "count"
                      [] OTHER -> "org"]]
  /\ ops' = ops + 1
  /\ UNCHANGED rows

\* What a request does once getOrCreateUserOrg has returned o.
Resolved(r, o) ==
  LET k == request[r].kind IN
  request' = [request EXCEPT ![r] =
    IF k \in {"visit", "signup"} THEN NoRequest
    ELSE [@ EXCEPT !.org = o,
                   !.pc = IF k = "candidate" THEN "candidate" ELSE "owner"]]

ReadOrg(r) ==
  LET u == request[r].actor IN
  /\ At(r, "org")
  /\ request' = [request EXCEPT ![r] =
       IF account[u] = "absent" THEN NoRequest
       ELSE [@ EXCEPT !.org = primary[u],
                      !.pc = IF primary[u] = NoOrg THEN "create" ELSE "upsert"]]
  /\ Keeps

\* The defensive upsert; its errors (the user is gone) are swallowed.
UpsertMember(r) ==
  LET u == request[r].actor
      o == request[r].org IN
  /\ At(r, "upsert")
  /\ member' = IF IsMember(o, u) \/ account[u] = "absent" THEN member
               ELSE Join(o, u, "OWNER")
  /\ joins' = IF member' = member THEN joins ELSE joins + 1
  /\ Resolved(r, o)
  /\ UNCHANGED <<account, primary, orgs, candidates, ops>>

CreateOrg(r) ==
  LET u == request[r].actor IN
  /\ At(r, "create")
  /\ \/ /\ account[u] # "absent"
        /\ \E o \in Orgs \ orgs :
             /\ orgs' = orgs \cup {o}
             /\ member' = Join(o, u, "OWNER") /\ joins' = joins + 1
             /\ primary' = [primary EXCEPT ![u] = o]
             /\ Resolved(r, o)
        /\ UNCHANGED <<account, candidates, ops>>
     \/ account[u] = "absent" /\ Done(r) /\ Keeps

---------------------------------------------------------------------------
(* Signup: a pending row keeps the organization its inviter gave it *)

SignupRead(r) ==
  LET u == request[r].actor IN
  /\ At(r, "row")
  /\ request' = [request EXCEPT ![r] =
       IF account[u] = "active" THEN NoRequest
       ELSE [@ EXCEPT !.pc = IF account[u] = "pending" THEN "update" ELSE "insert"]]
  /\ Keeps

\* The update needs the row to be there still, the insert to be absent still.
SignupWrite(r) ==
  LET u == request[r].actor IN
  /\ At(r, "update") \/ At(r, "insert")
  /\ IF At(r, "update") = (account[u] # "absent")
       THEN /\ account' = [account EXCEPT ![u] = "active"]
            /\ GoTo(r, "org")
            /\ UNCHANGED <<primary, orgs, member, joins, candidates, ops>>
       ELSE Done(r) /\ Keeps

---------------------------------------------------------------------------
(* The owner invites and removes members *)

\* requireOwnerOrg
CheckOwner(r) ==
  /\ At(r, "owner")
  /\ IF IsOwner(request[r].org, request[r].actor)
       THEN GoTo(r, IF request[r].kind = "invite" THEN "invitee" ELSE "membership")
       ELSE Done(r)
  /\ Keeps

\* As if an invitee of another organization were not refused.
ReadAnyInvitee(r) ==
  /\ At(r, "invitee")
  /\ request' = [request EXCEPT ![r].saw = joins,
       ![r].pc = IF account[request[r].target] = "absent" THEN "new" ELSE "already"]
  /\ Keeps

ReadInvitee(r) ==
  LET v == request[r].target
      o == request[r].org IN
  /\ At(r, "invitee")
  /\ IF account[v] # "absent" /\ primary[v] \notin {NoOrg, o}
       THEN Done(r)
       ELSE request' = [request EXCEPT ![r].saw = joins,
              ![r].pc = IF account[v] = "absent" THEN "new" ELSE "already"]
  /\ Keeps

ReadAlready(r) ==
  /\ At(r, "already")
  /\ IF IsMember(request[r].org, request[r].target) THEN Done(r) ELSE GoTo(r, "attach")
  /\ Keeps

\* Unique (organizationId, userId) and a vanished user make the transaction fail.
Attach(r) ==
  LET v == request[r].target
      o == request[r].org IN
  /\ At(r, "attach") /\ Done(r)
  /\ IF account[v] # "absent" /\ ~IsMember(o, v)
       THEN /\ primary' = [primary EXCEPT ![v] = o]
            /\ member' = Join(o, v, "MEMBER") /\ joins' = joins + 1
            /\ UNCHANGED <<account, orgs, candidates, ops>>
       ELSE Keeps

InviteNew(r) ==
  LET v == request[r].target
      o == request[r].org IN
  /\ At(r, "new") /\ Done(r)
  /\ IF account[v] = "absent"
       THEN /\ account' = [account EXCEPT ![v] = "pending"]
            /\ primary' = [primary EXCEPT ![v] = o]
            /\ member' = Join(o, v, "MEMBER") /\ joins' = joins + 1
            /\ UNCHANGED <<orgs, candidates, ops>>
       ELSE Keeps

ReadMembership(r) ==
  LET v == request[r].target
      o == request[r].org IN
  /\ At(r, "membership")
  /\ request' = [request EXCEPT ![r] =
       IF ~IsMember(o, v) THEN NoRequest
       ELSE [@ EXCEPT !.saw = member[o][v].id,
                      !.pc = IF IsOwner(o, v) THEN "owners" ELSE "drop"]]
  /\ Keeps


CountOwners(r) ==
  /\ At(r, "owners")
  /\ IF Cardinality(Owners(request[r].org)) <= 1 THEN Done(r) ELSE GoTo(r, "drop")
  /\ Keeps

\* As if the membership went and the user stayed bound.
RemoveRowOnly(r) ==
  LET v == request[r].target
      o == request[r].org IN
  /\ At(r, "drop") /\ Done(r)
  /\ member' = IF member[o][v].id = request[r].saw
                 THEN [member EXCEPT ![o][v].role = "none"] ELSE member
  /\ UNCHANGED <<account, primary, orgs, joins, candidates, ops>>

\* The membership is deleted by the id that was read.
RemoveMember(r) ==
  LET v == request[r].target
      o == request[r].org IN
  /\ At(r, "drop") /\ Done(r)
  /\ IF IsMember(o, v) /\ member[o][v].id = request[r].saw
       THEN /\ member' = [member EXCEPT ![o][v].role = "none"]
            /\ primary' = [primary EXCEPT ![v] = IF @ = o THEN NoOrg ELSE @]
            /\ UNCHANGED <<account, orgs, joins, candidates, ops>>
       ELSE Keeps

---------------------------------------------------------------------------
(* Candidates, and the deletion of an account *)

CreateCandidate(r) ==
  /\ At(r, "candidate") /\ Done(r)
  /\ candidates' = candidates \cup {[by |-> request[r].actor, org |-> request[r].org]}
  /\ UNCHANGED <<account, primary, orgs, member, joins, ops>>

\* The first half of deleteAccountAction's transaction: the sole-member orgs.
DeleteCount(r) ==
  LET u == request[r].actor IN
  /\ At(r, "count")
  /\ request' = [request EXCEPT ![r].pc = "erase", ![r].saw = joins,
                                ![r].sole = {o \in Orgs : Members(o) = {u}}]
  /\ Keeps

DeleteAccount(r) ==
  LET u == request[r].actor IN
  /\ At(r, "erase") /\ Done(r)
  /\ IF account[u] = "absent" THEN Keeps
     ELSE /\ candidates' = {c \in candidates :
                              ~(c.by = u /\ c.org \in request[r].sole)}
          /\ account' = [account EXCEPT ![u] = "absent"]
          /\ primary' = [primary EXCEPT ![u] = NoOrg]
          /\ member' = [o \in Orgs |-> [member[o] EXCEPT ![u].role = "none"]]
          /\ UNCHANGED <<orgs, joins, ops>>

TeamsNext ==
  \E r \in Requests :
    \/ Begin(r) \/ ReadOrg(r) \/ UpsertMember(r) \/ CreateOrg(r)
    \/ SignupRead(r) \/ SignupWrite(r)
    \/ CheckOwner(r) \/ ReadInvitee(r) \/ ReadAlready(r) \/ Attach(r) \/ InviteNew(r)
    \/ ReadMembership(r) \/ CountOwners(r) \/ RemoveMember(r)
    \/ CreateCandidate(r) \/ DeleteCount(r) \/ DeleteAccount(r)

TeamsSpec == TeamsInit /\ [][TeamsNext]_vars

---------------------------------------------------------------------------
(* Properties *)

\* Types: the rows refer to users and organizations that exist in this instance.
TeamsTypeOK ==
  /\ account \in [Users -> {"absent", "pending", "active"}]
  /\ primary \in [Users -> Orgs \cup {NoOrg}]
  /\ orgs \subseteq Orgs
  /\ member \in [Orgs -> [Users -> [role : Roles, id : Nat]]]
  /\ joins \in Nat
  /\ candidates \subseteq [by : Users, org : Orgs]
  /\ request \in [Requests ->
       [pc : {"idle", "row", "update", "insert", "org", "upsert", "create", "owner",
              "invitee", "already", "attach", "new", "membership", "owners", "drop",
              "candidate", "count", "erase"},
        kind : {"visit", "signup", "invite", "remove", "candidate", "delete"},
        actor : Users, target : Users, org : Orgs \cup {NoOrg}, saw : Nat,
        sole : SUBSET Orgs]]
  /\ ops \in Nat

\* Whatever interleaves, a user whose primary organization is o is a member of o:
\* every write of User.organizationId and of the membership share a transaction.
\* The team page lists members, project access follows the primary organization.
Belongs == \A u \in Users, o \in Orgs : primary[u] = o => IsMember(o, u)

\* An organization that is somebody's primary one has an owner who acts in it:
\* nobody else can invite, remove or configure.
Managed ==
  \A u \in Users : primary[u] # NoOrg =>
    \E v \in Users : primary[v] = primary[u] /\ IsOwner(primary[u], v)

\* Nobody owns an organization without acting in it: "a user is never left with a
\* dangling org" (lib/org.ts).
NoDanglingOrg ==
  \A u \in Users, o \in Orgs : IsOwner(o, u) => primary[u] = o

\* "We never silently move someone between teams" (settings/team/actions.ts): nobody
\* who has a primary organization is attached to another one as a member, but by an
\* invitation that looked before they joined the one they leave.
NeverMoved ==
  \A u \in Users : \A o \in Orgs \ {primary[u]} :
    primary[u] # NoOrg /\ primary'[u] = o /\ member'[o][u].role = "MEMBER" =>
      \E r \in Requests : /\ At(r, "attach") /\ request'[r].pc = "idle"
                          /\ request[r].target = u /\ request[r].org = o
                          /\ request[r].saw < member[primary[u]][u].id

\* Deleting an account erases no candidate of an organization somebody else is in, but
\* of one that they joined after the deletion had counted its members.
KeptForOthers ==
  \A c \in candidates \ candidates' : \A u \in Users \ {c.by} :
    primary[u] = c.org =>
      \E r \in Requests : /\ At(r, "erase") /\ request'[r].pc = "idle"
                          /\ request[r].actor = c.by
                          /\ request[r].saw < member[c.org][u].id

\* GDPR Art. 17: a candidate's data outlives its recruiter only while somebody
\* else in the organization can still reach it.
ErasedWithTheLast ==
  \A c \in candidates : account[c.by] # "absent" \/ Members(c.org) # {}
=============================================================================
