---------------------------- MODULE TeamsProofs ----------------------------
(* Proofs about Teams, for any users, organizations and requests. *)
EXTENDS Teams, FiniteSetTheorems, TLAPS

\* What a request record may hold; its fields keep their types when one changes.
Request == [pc : {"idle", "row", "update", "insert", "org", "upsert", "create", "owner",
                  "invitee", "already", "attach", "new", "membership", "owners", "drop",
                  "candidate", "count", "erase"},
            kind : {"visit", "signup", "invite", "remove", "candidate", "delete"},
            actor : Users, target : Users, org : Orgs \cup {NoOrg}, saw : Nat,
            sole : SUBSET Orgs]

\* A request that has its organization has a real one.
Placed(q) ==
  q.pc \in {"upsert", "owner", "invitee", "already", "attach", "new", "membership",
            "owners", "drop", "candidate"} => q.org \in Orgs

RowsOK ==
  /\ account \in [Users -> {"absent", "pending", "active"}]
  /\ primary \in [Users -> Orgs \cup {NoOrg}]
  /\ orgs \subseteq Orgs
  /\ member \in [Orgs -> [Users -> [role : Roles, id : Nat]]]
  /\ joins \in Nat
  /\ candidates \subseteq [by : Users, org : Orgs]
  /\ ops \in Nat
RequestsOK ==
  /\ request \in [Requests -> Request]
  /\ \A r \in Requests : Placed(request[r])

\* The inductive invariant of this module.
IInv == RowsOK /\ RequestsOK /\ Belongs

LEMMA IInvType == IInv => TeamsTypeOK
  BY DEF IInv, RowsOK, RequestsOK, TeamsTypeOK, Request

\* The rows a transaction writes for one user and organization, and what of Belongs
\* they keep.
LEMMA JoinType ==
  ASSUME RowsOK, NEW o \in Orgs, NEW u \in Users, NEW k \in Roles
  PROVE  /\ Join(o, u, k) \in [Orgs -> [Users -> [role : Roles, id : Nat]]]
         /\ Join(o, u, k)[o][u].role = k
         /\ \A p \in Orgs, v \in Users :
              <<p, v>> # <<o, u>> => Join(o, u, k)[p][v] = member[p][v]
  <1>1. joins + 1 \in Nat
    BY DEF RowsOK
  <1> QED
    BY <1>1 DEF RowsOK, Join

\* A membership row that is deleted stays a record.
LEMMA RoleDropped ==
  ASSUME NEW m \in [role : Roles, id : Nat]
  PROVE  [m EXCEPT !.role = "none"] \in [role : Roles, id : Nat]
  BY DEF Roles

\* A request that changes goes from one record to another; the others stay.
LEMMA OneRequest ==
  ASSUME RequestsOK, NEW r \in Requests, NEW q \in Request, Placed(q),
         request' = [request EXCEPT ![r] = q]
  PROVE  RequestsOK'
  BY DEF RequestsOK, Placed

LEMMA DoneOK ==
  ASSUME RequestsOK, NEW r \in Requests, Done(r)
  PROVE  RequestsOK'
  <1>1. NoRequest \in Request /\ Placed(NoRequest)
    BY TeamsAssumption DEF NoRequest, Request, Placed
  <1> QED
    BY <1>1, OneRequest DEF Done

LEMMA RowsKept ==
  ASSUME RowsOK, Belongs, UNCHANGED rows, ops' = ops \/ ops' = ops + 1
  PROVE  RowsOK' /\ Belongs'
  BY DEF RowsOK, Belongs, rows, IsMember

THEOREM TeamsInitIInv == TeamsInit => IInv
  BY TeamsAssumption DEF TeamsInit, IInv, RowsOK, RequestsOK, Belongs, IsMember,
     NoRequest, Request, Placed, Roles

---------------------------------------------------------------------------
(* The actions, one lemma each *)

LEMMA BeginKeeps ==
  ASSUME IInv, NEW r \in Requests, Begin(r)
  PROVE  IInv'
  <1>1. RowsOK' /\ Belongs'
    BY RowsKept DEF IInv, Begin
  <1>2. PICK k \in Kinds, u \in Users, v \in Users :
          /\ k = "signup" \/ account[u] = "active"
          /\ k \in {"invite", "remove"} \/ v = u
          /\ k = "invite" => v # u
          /\ request' = [request EXCEPT ![r] =
            [NoRequest EXCEPT !.kind = k, !.actor = u, !.target = v,
             !.pc = CASE k = "signup" -> "row"
                      [] k = "delete" -> "count"
                      [] OTHER -> "org"]]
    BY DEF Begin
  <1> DEFINE q == [NoRequest EXCEPT !.kind = k, !.actor = u, !.target = v,
             !.pc = CASE k = "signup" -> "row"
                      [] k = "delete" -> "count"
                      [] OTHER -> "org"]
  <1>a. (CASE k = "signup" -> "row" [] k = "delete" -> "count" [] OTHER -> "org")
          \in {"row", "count", "org"}
    OBVIOUS
  <1>3. q \in Request /\ Placed(q)
    BY <1>a, TeamsAssumption DEF NoRequest, Request, Placed
  <1>4. RequestsOK'
    BY <1>2, <1>3, OneRequest DEF IInv
  <1> QED
    BY <1>1, <1>4 DEF IInv

LEMMA GoToOK ==
  ASSUME RequestsOK, NEW r \in Requests, NEW pc, GoTo(r, pc),
         [request[r] EXCEPT !.pc = pc] \in Request,
         Placed([request[r] EXCEPT !.pc = pc])
  PROVE  RequestsOK'
  <1>1. request' = [request EXCEPT ![r] = [request[r] EXCEPT !.pc = pc]]
    BY DEF GoTo, RequestsOK
  <1> QED
    BY <1>1, OneRequest

\* Steps that only read: the rows stay and the request moves on or ends.
LEMMA ReaderKeeps ==
  ASSUME IInv, NEW r \in Requests,
         \/ ReadOrg(r) \/ SignupRead(r) \/ CheckOwner(r) \/ ReadInvitee(r)
         \/ ReadAlready(r) \/ ReadMembership(r) \/ CountOwners(r) \/ DeleteCount(r)
  PROVE  IInv'
  <1> USE DEF IInv
  <1>1. RowsOK' /\ Belongs'
    BY RowsKept DEF ReadOrg, SignupRead, CheckOwner, ReadInvitee, ReadAlready,
       ReadMembership, CountOwners, DeleteCount, Keeps
  <1>2. request[r] \in Request /\ Placed(request[r])
    BY DEF RequestsOK
  <1>3. RequestsOK'
    <2>1. CASE ReadOrg(r)
      <3>1. CASE account[request[r].actor] = "absent"
        BY <2>1, <3>1, DoneOK DEF ReadOrg, Done
      <3>2. CASE account[request[r].actor] # "absent"
        <4> DEFINE u == request[r].actor
                   q == [request[r] EXCEPT !.org = primary[u],
                           !.pc = IF primary[u] = NoOrg THEN "create" ELSE "upsert"]
        <4>1. q \in Request /\ Placed(q)
          BY <1>2 DEF Request, Placed, RowsOK
        <4>2. request' = [request EXCEPT ![r] = q]
          BY <2>1, <3>2 DEF ReadOrg, RequestsOK
        <4> QED
          BY <4>1, <4>2, OneRequest
      <3> QED
        BY <3>1, <3>2
    <2>2. CASE SignupRead(r)
      <3>1. CASE account[request[r].actor] = "active"
        BY <2>2, <3>1, DoneOK DEF SignupRead, Done
      <3>2. CASE account[request[r].actor] # "active"
        <4> DEFINE q == [request[r] EXCEPT !.pc =
                     IF account[request[r].actor] = "pending" THEN "update" ELSE "insert"]
        <4>1. q \in Request /\ Placed(q)
          BY <1>2 DEF Request, Placed
        <4>2. request' = [request EXCEPT ![r] = q]
          BY <2>2, <3>2 DEF SignupRead, RequestsOK
        <4> QED
          BY <4>1, <4>2, OneRequest
      <3> QED
        BY <3>1, <3>2
    <2>3. CASE CheckOwner(r) \/ ReadAlready(r) \/ CountOwners(r)
      <3>1. At(r, "owner") \/ At(r, "already") \/ At(r, "owners")
        BY <2>3 DEF CheckOwner, ReadAlready, CountOwners
      <3>2. Done(r) \/ \E pc \in {"invitee", "membership", "attach", "drop"} : GoTo(r, pc)
        BY <2>3 DEF CheckOwner, ReadAlready, CountOwners
      <3>3. request[r].org \in Orgs
        BY <1>2, <3>1 DEF Placed, At
      <3>4. ASSUME NEW pc \in {"invitee", "membership", "attach", "drop"}
            PROVE  /\ [request[r] EXCEPT !.pc = pc] \in Request
                   /\ Placed([request[r] EXCEPT !.pc = pc])
        BY <1>2, <3>3 DEF Request, Placed
      <3> QED
        BY <3>2, <3>4, DoneOK, GoToOK
    <2>4. CASE ReadMembership(r)
      <3> DEFINE v == request[r].target
                 o == request[r].org
                 q == [request[r] EXCEPT !.saw = member[o][v].id,
                          !.pc = IF IsOwner(o, v) THEN "owners" ELSE "drop"]
      <3>1. o \in Orgs
        BY <1>2, <2>4 DEF Placed, At, ReadMembership
      <3>2. CASE ~IsMember(o, v)
        BY <2>4, <3>2, DoneOK DEF ReadMembership, Done
      <3>3. CASE IsMember(o, v)
        <4>a. member[o][v].id \in Nat
          BY <1>2, <3>1 DEF Request, RowsOK
        <4>1. q \in Request /\ Placed(q)
          BY <1>2, <3>1, <4>a DEF Request, Placed
        <4>2. request' = [request EXCEPT ![r] = q]
          BY <2>4, <3>3 DEF ReadMembership, RequestsOK
        <4> QED
          BY <4>1, <4>2, OneRequest
      <3> QED
        BY <3>2, <3>3
    <2>5. CASE DeleteCount(r)
      <3> DEFINE q == [request[r] EXCEPT !.pc = "erase",
                         !.saw = joins,
                         !.sole = {o \in Orgs : Members(o) = {request[r].actor}}]
      <3>1. q \in Request /\ Placed(q)
        BY <1>2 DEF Request, Placed, RowsOK
      <3>2. request' = [request EXCEPT ![r] = q]
        BY <2>5 DEF DeleteCount, RequestsOK
      <3> QED
        BY <3>1, <3>2, OneRequest
    <2>6. CASE ReadInvitee(r)
      <3>1. CASE Done(r)
        BY <3>1, DoneOK
      <3>2. CASE ~Done(r)
        <4> DEFINE q == [request[r] EXCEPT !.saw = joins, !.pc =
                     IF account[request[r].target] = "absent" THEN "new" ELSE "already"]
        <4>1. request[r].org \in Orgs
          BY <1>2, <2>6 DEF Placed, At, ReadInvitee
        <4>2. q \in Request /\ Placed(q)
          BY <1>2, <4>1 DEF Request, Placed, RowsOK
        <4>3. request' = [request EXCEPT ![r] = q]
          BY <2>6, <3>2 DEF ReadInvitee, RequestsOK
        <4> QED
          BY <4>2, <4>3, OneRequest
      <3> QED
        BY <3>1, <3>2
    <2> QED
      BY <2>1, <2>2, <2>3, <2>4, <2>5, <2>6
  <1> QED
    BY <1>1, <1>3

\* What the end of getOrCreateUserOrg does to the request, for a real organization.
LEMMA ResolvedOK ==
  ASSUME RequestsOK, NEW r \in Requests, NEW o \in Orgs, Resolved(r, o)
  PROVE  RequestsOK'
  <1>1. request[r] \in Request
    BY DEF RequestsOK
  <1>2. CASE request[r].kind \in {"visit", "signup"}
    BY <1>2, DoneOK DEF Resolved, Done
  <1>3. CASE request[r].kind \notin {"visit", "signup"}
    <2> DEFINE q == [request[r] EXCEPT !.org = o,
                 !.pc = IF request[r].kind = "candidate" THEN "candidate" ELSE "owner"]
    <2>1. q \in Request /\ Placed(q)
      BY <1>1 DEF Request, Placed
    <2>2. request' = [request EXCEPT ![r] = q]
      BY <1>3 DEF Resolved, RequestsOK
    <2> QED
      BY <2>1, <2>2, OneRequest
  <1> QED
    BY <1>2, <1>3

\* Joining, with or without becoming one's primary organization, keeps Belongs.
LEMMA JoinBelongs ==
  ASSUME RowsOK, Belongs, NEW o \in Orgs, NEW u \in Users,
         NEW k \in {"MEMBER", "OWNER"}, member' = Join(o, u, k),
         primary' = primary \/ primary' = [primary EXCEPT ![u] = o]
  PROVE  Belongs'
  <1>1. k \in Roles /\ k # "none"
    BY DEF Roles
  <1>2. \A p \in Orgs, v \in Users : IsMember(p, v) \/ <<p, v>> = <<o, u>> => IsMember(p, v)'
    BY <1>1, JoinType DEF IsMember
  <1>3. SUFFICES ASSUME NEW v \in Users, NEW p \in Orgs, primary'[v] = p
                 PROVE  IsMember(p, v)'
    BY DEF Belongs
  <1>4. primary[v] = p \/ (v = u /\ p = o)
    BY <1>3 DEF RowsOK
  <1> QED
    BY <1>2, <1>4 DEF Belongs

LEMMA UpsertMemberKeeps ==
  ASSUME IInv, NEW r \in Requests, UpsertMember(r)
  PROVE  IInv'
  <1> DEFINE u == request[r].actor
             o == request[r].org
  <1>1. u \in Users /\ o \in Orgs
    BY DEF IInv, RequestsOK, Request, Placed, UpsertMember, At
  <1>2. RequestsOK'
    BY <1>1, ResolvedOK DEF IInv, UpsertMember
  <1>3. CASE member' = member
    <2>1. RowsOK' /\ Belongs'
      BY <1>3, RowsKept DEF IInv, UpsertMember, rows
    <2> QED
      BY <1>2, <2>1 DEF IInv
  <1>4. CASE member' = Join(o, u, "OWNER")
    <2>1. Belongs'
      BY <1>1, <1>4, JoinBelongs DEF IInv, UpsertMember
    <2>2. member' \in [Orgs -> [Users -> [role : Roles, id : Nat]]]
      BY <1>1, <1>4, JoinType DEF IInv, Roles
    <2>3. joins' \in Nat
      BY DEF IInv, RowsOK, UpsertMember
    <2>4. RowsOK'
      BY <2>2, <2>3 DEF IInv, RowsOK, UpsertMember
    <2> QED
      BY <1>2, <2>1, <2>4 DEF IInv
  <1> QED
    BY <1>3, <1>4 DEF UpsertMember

LEMMA CreateOrgKeeps ==
  ASSUME IInv, NEW r \in Requests, CreateOrg(r)
  PROVE  IInv'
  <1> DEFINE u == request[r].actor
  <1>1. u \in Users
    BY DEF IInv, RequestsOK, Request
  <1>2. CASE Done(r) /\ Keeps
    <2>1. RowsOK' /\ Belongs'
      BY <1>2, RowsKept DEF IInv, Keeps
    <2> QED
      BY <1>2, <2>1, DoneOK DEF IInv
  <1>3. CASE \E o \in Orgs \ orgs :
               /\ orgs' = orgs \cup {o}
               /\ member' = Join(o, u, "OWNER") /\ joins' = joins + 1
               /\ primary' = [primary EXCEPT ![u] = o]
               /\ Resolved(r, o)
               /\ UNCHANGED <<account, candidates, ops>>
    <2>1. PICK o \in Orgs \ orgs :
               /\ orgs' = orgs \cup {o}
               /\ member' = Join(o, u, "OWNER") /\ joins' = joins + 1
               /\ primary' = [primary EXCEPT ![u] = o]
               /\ Resolved(r, o)
               /\ UNCHANGED <<account, candidates, ops>>
      BY <1>3
    <2>2. Belongs'
      BY <1>1, <2>1, JoinBelongs DEF IInv
    <2>3. member' \in [Orgs -> [Users -> [role : Roles, id : Nat]]]
      BY <1>1, <2>1, JoinType DEF IInv, Roles
    <2>a. joins' \in Nat /\ primary' \in [Users -> Orgs \cup {NoOrg}]
      BY <1>1, <2>1 DEF IInv, RowsOK
    <2>4. RowsOK'
      BY <2>1, <2>3, <2>a DEF IInv, RowsOK
    <2>5. RequestsOK'
      BY <2>1, ResolvedOK DEF IInv
    <2> QED
      BY <2>2, <2>4, <2>5 DEF IInv
  <1> QED
    BY <1>2, <1>3 DEF CreateOrg

LEMMA SignupWriteKeeps ==
  ASSUME IInv, NEW r \in Requests, SignupWrite(r)
  PROVE  IInv'
  <1>1. CASE Done(r) /\ Keeps
    <2>1. RowsOK' /\ Belongs'
      BY <1>1, RowsKept DEF IInv, Keeps
    <2> QED
      BY <1>1, <2>1, DoneOK DEF IInv
  <1>2. CASE /\ account' = [account EXCEPT ![request[r].actor] = "active"]
             /\ GoTo(r, "org")
             /\ UNCHANGED <<primary, orgs, member, joins, candidates, ops>>
    <2>1. RowsOK' /\ Belongs'
      BY <1>2 DEF IInv, RowsOK, Belongs, IsMember
    <2>2. [request[r] EXCEPT !.pc = "org"] \in Request
      BY DEF IInv, RequestsOK, Request
    <2>3. Placed([request[r] EXCEPT !.pc = "org"])
      BY DEF IInv, RequestsOK, Request, Placed
    <2>4. RequestsOK'
      BY <1>2, <2>2, <2>3, GoToOK DEF IInv
    <2> QED
      BY <2>1, <2>4 DEF IInv
  <1> QED
    BY <1>1, <1>2 DEF SignupWrite

LEMMA InviteKeeps ==
  ASSUME IInv, NEW r \in Requests, Attach(r) \/ InviteNew(r)
  PROVE  IInv'
  <1> DEFINE v == request[r].target
             o == request[r].org
  <1>1. v \in Users /\ o \in Orgs
    BY DEF IInv, RequestsOK, Request, Placed, Attach, InviteNew, At
  <1>2. RequestsOK'
    BY DoneOK DEF IInv, Attach, InviteNew
  <1>3. CASE Keeps
    <2>1. RowsOK' /\ Belongs'
      BY <1>3, RowsKept DEF IInv, Keeps
    <2> QED
      BY <1>2, <2>1 DEF IInv
  <1>4. CASE /\ account' \in {account, [account EXCEPT ![v] = "pending"]}
             /\ primary' = [primary EXCEPT ![v] = o]
             /\ member' = Join(o, v, "MEMBER") /\ joins' = joins + 1
             /\ UNCHANGED <<orgs, candidates, ops>>
    <2>1. Belongs'
      BY <1>1, <1>4, JoinBelongs DEF IInv
    <2>2. member' \in [Orgs -> [Users -> [role : Roles, id : Nat]]]
      BY <1>1, <1>4, JoinType DEF IInv, Roles
    <2>a. joins' \in Nat /\ primary' \in [Users -> Orgs \cup {NoOrg}]
      BY <1>1, <1>4 DEF IInv, RowsOK
    <2>3. RowsOK'
      BY <1>1, <1>4, <2>2, <2>a DEF IInv, RowsOK
    <2> QED
      BY <1>2, <2>1, <2>3 DEF IInv
  <1> QED
    BY <1>3, <1>4 DEF Attach, InviteNew

\* The heart of Belongs: the membership goes and the binding to that organization with it.
LEMMA RemoveMemberKeeps ==
  ASSUME IInv, NEW r \in Requests, RemoveMember(r)
  PROVE  IInv'
  <1> DEFINE v == request[r].target
             o == request[r].org
  <1>1. v \in Users /\ o \in Orgs
    BY DEF IInv, RequestsOK, Request, Placed, RemoveMember, At
  <1>2. RequestsOK'
    BY DoneOK DEF IInv, RemoveMember
  <1>3. CASE Keeps
    <2>1. RowsOK' /\ Belongs'
      BY <1>3, RowsKept DEF IInv, Keeps
    <2> QED
      BY <1>2, <2>1 DEF IInv
  <1>4. CASE /\ member' = [member EXCEPT ![o][v].role = "none"]
             /\ primary' = [primary EXCEPT ![v] = IF @ = o THEN NoOrg ELSE @]
             /\ UNCHANGED <<account, orgs, joins, candidates, ops>>
    <2>c. member[o][v] \in [role : Roles, id : Nat]
      BY <1>1 DEF IInv, RowsOK
    <2>a. [member[o][v] EXCEPT !.role = "none"] \in [role : Roles, id : Nat]
      BY <2>c, RoleDropped
    <2>b. [member[o] EXCEPT ![v].role = "none"] \in [Users -> [role : Roles, id : Nat]]
      BY <1>1, <2>a DEF IInv, RowsOK
    <2>1. member' \in [Orgs -> [Users -> [role : Roles, id : Nat]]]
      BY <1>1, <1>4, <2>b DEF IInv, RowsOK
    <2>2. \A p \in Orgs, w \in Users :
            IsMember(p, w) /\ <<p, w>> # <<o, v>> => IsMember(p, w)'
      BY <1>1, <1>4 DEF IInv, RowsOK, IsMember
    <2>3. \A p \in Orgs, w \in Users :
            primary'[w] = p => primary[w] = p /\ <<p, w>> # <<o, v>>
      BY <1>1, <1>4, TeamsAssumption DEF IInv, RowsOK
    <2>4. Belongs'
      BY <2>2, <2>3 DEF IInv, Belongs
    <2>5. primary' \in [Users -> Orgs \cup {NoOrg}]
      BY <1>1, <1>4 DEF IInv, RowsOK
    <2>6. RowsOK'
      BY <1>4, <2>1, <2>5 DEF IInv, RowsOK
    <2> QED
      BY <1>2, <2>4, <2>6 DEF IInv
  <1> QED
    BY <1>3, <1>4 DEF RemoveMember

LEMMA CreateCandidateKeeps ==
  ASSUME IInv, NEW r \in Requests, CreateCandidate(r)
  PROVE  IInv'
  <1>1. request[r].actor \in Users /\ request[r].org \in Orgs
    BY DEF IInv, RequestsOK, Request, Placed, CreateCandidate, At
  <1>2. RequestsOK'
    BY DoneOK DEF IInv, CreateCandidate
  <1>3. RowsOK' /\ Belongs'
    BY <1>1 DEF IInv, RowsOK, Belongs, IsMember, CreateCandidate
  <1> QED
    BY <1>2, <1>3 DEF IInv

LEMMA DeleteAccountKeeps ==
  ASSUME IInv, NEW r \in Requests, DeleteAccount(r)
  PROVE  IInv'
  <1> DEFINE u == request[r].actor
  <1>1. u \in Users
    BY DEF IInv, RequestsOK, Request
  <1>2. RequestsOK'
    BY DoneOK DEF IInv, DeleteAccount
  <1>3. CASE Keeps
    <2>1. RowsOK' /\ Belongs'
      BY <1>3, RowsKept DEF IInv, Keeps
    <2> QED
      BY <1>2, <2>1 DEF IInv
  <1>4. CASE account[u] # "absent"
    <2>1. member' = [o \in Orgs |-> [member[o] EXCEPT ![u].role = "none"]]
      BY <1>4 DEF DeleteAccount
    <2>a. ASSUME NEW o \in Orgs
          PROVE  [member[o] EXCEPT ![u].role = "none"] \in [Users -> [role : Roles, id : Nat]]
      <3>0. member[o][u] \in [role : Roles, id : Nat]
        BY <1>1 DEF IInv, RowsOK
      <3>1. [member[o][u] EXCEPT !.role = "none"] \in [role : Roles, id : Nat]
        BY <3>0, RoleDropped
      <3> QED
        BY <1>1, <3>1 DEF IInv, RowsOK
    <2>2. member' \in [Orgs -> [Users -> [role : Roles, id : Nat]]]
      BY <2>a, <2>1
    <2>3. RowsOK'
      BY <1>1, <1>4, <2>2 DEF IInv, RowsOK, DeleteAccount
    <2>4. \A p \in Orgs, w \in Users \ {u} : IsMember(p, w) => IsMember(p, w)'
      BY <1>1, <2>1 DEF IInv, RowsOK, IsMember
    <2>5. primary' = [primary EXCEPT ![u] = NoOrg]
      BY <1>4 DEF DeleteAccount
    <2>6. \A w \in Users, p \in Orgs : primary'[w] = p => w # u /\ primary[w] = p
      BY <1>1, <2>5, TeamsAssumption DEF IInv, RowsOK
    <2>7. Belongs'
      BY <2>4, <2>6 DEF IInv, Belongs
    <2> QED
      BY <1>2, <2>3, <2>7 DEF IInv
  <1> QED
    BY <1>3, <1>4 DEF DeleteAccount

LEMMA StutterKeeps ==
  ASSUME IInv, UNCHANGED vars
  PROVE  IInv'
  BY DEF IInv, vars, RowsOK, RequestsOK, Placed, Belongs, IsMember

LEMMA NextKeeps == IInv /\ [TeamsNext]_vars => IInv'
  <1> SUFFICES ASSUME IInv, [TeamsNext]_vars
               PROVE  IInv'
    OBVIOUS
  <1>1. CASE UNCHANGED vars
    BY <1>1, StutterKeeps
  <1>2. CASE TeamsNext
    BY <1>2, BeginKeeps, ReaderKeeps, UpsertMemberKeeps, CreateOrgKeeps,
       SignupWriteKeeps, InviteKeeps, RemoveMemberKeeps, CreateCandidateKeeps,
       DeleteAccountKeeps DEF TeamsNext
  <1> QED
    BY <1>1, <1>2

---------------------------------------------------------------------------
(* The theorems *)

THEOREM TeamsIInv == TeamsSpec => []IInv
  BY TeamsInitIInv, NextKeeps, PTL DEF TeamsSpec

\* For any number of users, organizations and interleaved requests the rows keep
\* their types.
THEOREM TeamsTypes == TeamsSpec => []TeamsTypeOK
  BY TeamsIInv, IInvType, PTL

\* However invitations, removals, signups, visits and account deletions interleave
\* (lib/org.ts, settings/team/actions.ts), a user's primary organization is one the
\* user is a member of.
THEOREM TeamsBelong == TeamsSpec => []Belongs
  <1>1. IInv => Belongs
    BY DEF IInv
  <1> QED
    BY <1>1, TeamsIInv, PTL

---------------------------------------------------------------------------
(* What a request has read, by date.  Ids of memberships grow, so that a request *)
(* that saw an id knows which of today's memberships it cannot have seen.        *)

\* An invitation at work targets somebody who belongs to no other organization, or
\* joined the one they belong to after the invitation looked; whoever shares an
\* organization that a deletion counted as its actor's alone joined after the count.
Dates(q) ==
  /\ q.saw <= joins
  /\ q.pc \in {"already", "attach"} /\ primary[q.target] \notin {NoOrg, q.org}
       => q.saw < member[primary[q.target]][q.target].id
  /\ q.pc = "erase" =>
       \A o \in q.sole, u \in Users \ {q.actor} : IsMember(o, u) => q.saw < member[o][u].id

RowsDated ==
  /\ \A o \in Orgs, u \in Users : member[o][u].id <= joins
  /\ \A u \in Users : account[u] = "absent" => primary[u] = NoOrg

Dated == RowsDated /\ \A r \in Requests : Dates(request[r])

\* How rows age in a step: a membership stays, goes, or is a new one with a new id,
\* and so does the organization somebody acts in.
Aged ==
  /\ joins <= joins'
  /\ \A o \in Orgs, u \in Users :
       \/ member'[o][u].id = member[o][u].id /\ (IsMember(o, u)' => IsMember(o, u))
       \/ joins < member'[o][u].id
  /\ \A u \in Users :
       primary'[u] \in {primary[u], NoOrg} \/ joins < member'[primary'[u]][u].id

\* A request that waits while the rows age knows as much as before.
LEMMA WaitingDates ==
  ASSUME IInv, IInv', Aged, NEW q \in Request, Dates(q)
  PROVE  Dates(q)'
  <1>1. /\ q.target \in Users /\ q.sole \subseteq Orgs /\ q.saw \in Nat
        /\ joins \in Nat /\ joins' \in Nat
    BY DEF Request, IInv, RowsOK
  <1>2. /\ \A u \in Users : primary[u] \in Orgs \cup {NoOrg}
        /\ \A u \in Users : primary'[u] \in Orgs \cup {NoOrg}
    BY DEF IInv, RowsOK
  <1>3. \A o \in Orgs, u \in Users : member[o][u].id \in Nat /\ member'[o][u].id \in Nat
    BY DEF IInv, RowsOK
  <1>4. q.saw <= joins'
    BY <1>1 DEF Dates, Aged
  <1>5. ASSUME q.pc \in {"already", "attach"}, primary'[q.target] \notin {NoOrg, q.org}
        PROVE  q.saw < member'[primary'[q.target]][q.target].id
    <2> DEFINE p == primary'[q.target]
    <2>1. p \in Orgs
      BY <1>1, <1>2, <1>5
    <2>2. CASE joins < member'[p][q.target].id
      BY <1>1, <1>3, <2>1, <2>2 DEF Dates
    <2>3. CASE p = primary[q.target] /\ member'[p][q.target].id = member[p][q.target].id
      BY <1>1, <1>3, <1>5, <2>1, <2>3 DEF Dates
    <2> QED
      BY <1>1, <1>5, <2>1, <2>2, <2>3 DEF Aged
  <1>6. ASSUME q.pc = "erase", NEW o \in q.sole, NEW u \in Users \ {q.actor},
               IsMember(o, u)'
        PROVE  q.saw < member'[o][u].id
    <2>1. CASE joins < member'[o][u].id
      BY <1>1, <1>3, <2>1 DEF Dates
    <2>2. CASE member'[o][u].id = member[o][u].id /\ IsMember(o, u)
      BY <1>1, <1>6, <2>2 DEF Dates
    <2> QED
      BY <1>1, <1>6, <2>1, <2>2 DEF Aged
  <1> QED
    BY <1>4, <1>5, <1>6 DEF Dates

LEMMA OneDated ==
  ASSUME IInv, IInv', Dated, Aged, RowsDated', NEW r \in Requests, Dates(request[r])',
         \A s \in Requests \ {r} : request'[s] = request[s]
  PROVE  Dated'
  <1>1. ASSUME NEW s \in Requests \ {r}
        PROVE  Dates(request[s])'
    <2>1. request[s] \in Request /\ Dates(request[s]) /\ request'[s] = request[s]
      BY DEF IInv, RequestsOK, Dated
    <2>2. PICK q \in Request : q = request[s]
      BY <2>1
    <2>3. Dates(q)'
      BY <2>1, <2>2, WaitingDates
    <2> QED
      BY <2>1, <2>2, <2>3 DEF Dates
  <1> QED
    BY <1>1 DEF Dated

\* A request that has read nothing that it will act upon.
LEMMA CalmDates ==
  ASSUME NEW r \in Requests, request'[r].saw <= joins',
         request'[r].pc \notin {"already", "attach", "erase"}
  PROVE  Dates(request[r])'
  BY DEF Dates

LEMMA DatedInit == TeamsInit => Dated
  BY TeamsAssumption DEF TeamsInit, Dated, RowsDated, Dates, NoRequest

\* What a step does to its own request and to those of the others.
LEMMA EndedRequest ==
  ASSUME IInv, IInv', NEW r \in Requests, Done(r)
  PROVE  /\ \A s \in Requests \ {r} : request'[s] = request[s]
         /\ request'[r].pc = "idle" /\ Dates(request[r])'
  <1>1. /\ request'[r] = NoRequest
        /\ \A s \in Requests \ {r} : request'[s] = request[s]
    BY DEF IInv, RequestsOK, Done
  <1>2. request'[r].pc = "idle" /\ request'[r].saw = 0 /\ joins' \in Nat
    BY <1>1 DEF NoRequest, IInv, RowsOK
  <1> QED
    BY <1>1, <1>2, CalmDates

LEMMA ResolvedRequest ==
  ASSUME IInv, IInv', Dated, joins <= joins', NEW r \in Requests, NEW o, Resolved(r, o)
  PROVE  /\ \A s \in Requests \ {r} : request'[s] = request[s]
         /\ Dates(request[r])'
  <1>1. /\ request[r] \in Request /\ request[r].saw <= joins /\ request[r].saw \in Nat
        /\ joins \in Nat /\ joins' \in Nat
    BY DEF IInv, RequestsOK, RowsOK, Dated, Dates, Request
  <1>2. /\ \A s \in Requests \ {r} : request'[s] = request[s]
        /\ request'[r].saw \in {0, request[r].saw}
        /\ request'[r].pc \in {"idle", "candidate", "owner"}
    BY <1>1 DEF IInv, RequestsOK, Resolved, NoRequest, Request
  <1> QED
    BY <1>1, <1>2, CalmDates

LEMMA WentOn ==
  ASSUME IInv, IInv', Dated, joins <= joins', NEW r \in Requests, NEW pc, GoTo(r, pc)
  PROVE  /\ \A s \in Requests \ {r} : request'[s] = request[s]
         /\ request'[r] = [request[r] EXCEPT !.pc = pc]
         /\ pc \notin {"already", "attach", "erase"} => Dates(request[r])'
  <1>1. /\ request[r] \in Request /\ request[r].saw <= joins /\ request[r].saw \in Nat
        /\ joins \in Nat /\ joins' \in Nat
    BY DEF IInv, RequestsOK, RowsOK, Dated, Dates, Request
  <1>2. /\ \A s \in Requests \ {r} : request'[s] = request[s]
        /\ request'[r] = [request[r] EXCEPT !.pc = pc]
    BY DEF IInv, RequestsOK, GoTo
  <1>3. request'[r].saw <= joins' /\ request'[r].pc = pc
    BY <1>1, <1>2 DEF Request
  <1> QED
    BY <1>2, <1>3, CalmDates

\* Rows that stay, and rows with one new membership, have aged.
LEMMA RowsAge ==
  ASSUME IInv, Dated, UNCHANGED rows
  PROVE  Aged /\ RowsDated'
  BY DEF IInv, RowsOK, Dated, Aged, RowsDated, rows, IsMember

LEMMA JoinAges ==
  ASSUME IInv, Dated, NEW o \in Orgs, NEW u \in Users, NEW k \in Roles,
         member' = Join(o, u, k), joins' = joins + 1,
         primary' = primary \/ primary' = [primary EXCEPT ![u] = o],
         primary' # primary => account'[u] # "absent",
         \A v \in Users : account'[v] = "absent" => account[v] = "absent"
  PROVE  Aged /\ RowsDated'
  <1>0. RowsOK /\ RowsDated
    BY DEF IInv, Dated
  <1>1. /\ member'[o][u].id = joins + 1
        /\ \A p \in Orgs, v \in Users : <<p, v>> # <<o, u>> => member'[p][v] = member[p][v]
    BY <1>0 DEF Join, RowsOK
  <1>2. \A p \in Orgs, v \in Users : member[p][v].id \in Nat /\ member[p][v].id <= joins
    BY <1>0 DEF RowsOK, RowsDated
  <1>3. joins \in Nat /\ joins' \in Nat /\ joins < joins'
    BY <1>0 DEF RowsOK
  <1>4. \A p \in Orgs, v \in Users : member'[p][v].id <= joins'
    BY <1>1, <1>2, <1>3
  <1>5. \A v \in Users : primary'[v] = primary[v] \/ (v = u /\ primary'[v] = o)
    BY <1>0 DEF RowsOK
  <1>6. \A v \in Users : account'[v] = "absent" => primary'[v] = NoOrg
    BY <1>0, <1>5 DEF RowsDated, RowsOK
  <1>7. Aged
    BY <1>1, <1>3, <1>5 DEF Aged, IsMember
  <1> QED
    BY <1>4, <1>6, <1>7 DEF RowsDated

LEMMA ReaderDates ==
  ASSUME IInv, IInv', Dated, NEW r \in Requests,
         \/ Begin(r) \/ ReadOrg(r) \/ SignupRead(r) \/ CheckOwner(r) \/ ReadInvitee(r)
         \/ ReadAlready(r) \/ ReadMembership(r) \/ CountOwners(r) \/ DeleteCount(r)
  PROVE  Dated'
  <1> DEFINE q == request[r]
  <1>1. UNCHANGED rows
    BY DEF Begin, ReadOrg, SignupRead, CheckOwner, ReadInvitee, ReadAlready,
       ReadMembership, CountOwners, DeleteCount, Keeps
  <1>2. Aged /\ RowsDated'
    BY <1>1, RowsAge
  <1>3. UNCHANGED <<account, primary, member, joins>> /\ joins <= joins'
    BY <1>1, <1>2 DEF rows, Aged
  <1>4. /\ q \in Request /\ q.saw <= joins /\ q.saw \in Nat /\ q.target \in Users
        /\ joins \in Nat /\ Dates(q) /\ Placed(q)
    BY DEF IInv, RequestsOK, RowsOK, Dated, Dates, Request
  <1>5. ASSUME NEW pc, pc \notin {"already", "attach", "erase"}, Done(r) \/ GoTo(r, pc)
        PROVE  Dates(request[r])' /\ \A s \in Requests \ {r} : request'[s] = request[s]
    BY <1>3, <1>5, EndedRequest, WentOn
  <1>6. Dates(request[r])' /\ \A s \in Requests \ {r} : request'[s] = request[s]
    <2>1. CASE Begin(r)
      <3>a. PICK k \in Kinds, u \in Users, v \in Users :
              /\ k = "signup" \/ account[u] = "active"
              /\ k \in {"invite", "remove"} \/ v = u
              /\ k = "invite" => v # u
              /\ request' = [request EXCEPT ![r] =
                [NoRequest EXCEPT !.kind = k, !.actor = u, !.target = v,
                 !.pc = CASE k = "signup" -> "row"
                          [] k = "delete" -> "count"
                          [] OTHER -> "org"]]
        BY <2>1 DEF Begin
      <3>b. (CASE k = "signup" -> "row" [] k = "delete" -> "count" [] OTHER -> "org")
              \in {"row", "count", "org"}
        OBVIOUS
      <3>1. /\ request'[r].pc \in {"row", "count", "org"} /\ request'[r].saw = 0
            /\ \A s \in Requests \ {r} : request'[s] = request[s]
        BY <3>a, <3>b DEF NoRequest, IInv, RequestsOK
      <3> QED
        BY <1>3, <1>4, <3>1, CalmDates
    <2>2. CASE ReadOrg(r)
      <3>1. /\ request'[r].pc \in {"idle", "create", "upsert"}
            /\ request'[r].saw \in {0, q.saw}
            /\ \A s \in Requests \ {r} : request'[s] = request[s]
        BY <1>4, <2>2 DEF ReadOrg, NoRequest, IInv, RequestsOK, Request
      <3> QED
        BY <1>3, <1>4, <3>1, CalmDates
    <2>3. CASE SignupRead(r)
      <3>1. /\ request'[r].pc \in {"idle", "update", "insert"}
            /\ request'[r].saw \in {0, q.saw}
            /\ \A s \in Requests \ {r} : request'[s] = request[s]
        BY <1>4, <2>3 DEF SignupRead, NoRequest, IInv, RequestsOK, Request
      <3> QED
        BY <1>3, <1>4, <3>1, CalmDates
    <2>4. CASE CheckOwner(r)
      BY <1>5, <2>4 DEF CheckOwner
    <2>5. CASE CountOwners(r)
      BY <1>5, <2>5 DEF CountOwners
    <2>6. CASE ReadInvitee(r)
      <3>1. CASE Done(r)
        BY <3>1, EndedRequest
      <3>2. CASE ~Done(r)
        <4>1. /\ request'[r] = [q EXCEPT !.saw = joins, !.pc =
                     IF account[q.target] = "absent" THEN "new" ELSE "already"]
              /\ ~(account[q.target] # "absent" /\ primary[q.target] \notin {NoOrg, q.org})
              /\ \A s \in Requests \ {r} : request'[s] = request[s]
          BY <2>6, <3>2 DEF ReadInvitee, IInv, RequestsOK
        <4>2. /\ request'[r].saw = joins /\ request'[r].org = q.org
              /\ request'[r].target = q.target /\ request'[r].pc # "erase"
              /\ request'[r].pc # "new" => account[q.target] # "absent"
              /\ request'[r].pc \in {"new", "already"}
          BY <1>4, <4>1 DEF Request
        <4> QED
          BY <1>3, <1>4, <4>1, <4>2 DEF Dates
      <3> QED
        BY <3>1, <3>2
    <2>7. CASE ReadAlready(r)
      <3>1. CASE Done(r)
        BY <3>1, EndedRequest
      <3>2. CASE GoTo(r, "attach")
        <4>1. /\ request'[r] = [q EXCEPT !.pc = "attach"] /\ q.pc = "already"
              /\ \A s \in Requests \ {r} : request'[s] = request[s]
          BY <1>3, <2>7, <3>2, WentOn DEF ReadAlready, At
        <4>2. /\ request'[r].saw = q.saw /\ request'[r].org = q.org
              /\ request'[r].target = q.target /\ request'[r].pc = "attach"
          BY <1>4, <4>1 DEF Request
        <4> QED
          BY <1>3, <1>4, <4>1, <4>2 DEF Dates
      <3> QED
        BY <2>7, <3>1, <3>2 DEF ReadAlready
    <2>8. CASE ReadMembership(r)
      <3>0. q.org \in Orgs
        BY <1>4, <2>8 DEF ReadMembership, At, Placed
      <3>1. /\ request'[r].pc \in {"idle", "owners", "drop"}
            /\ request'[r].saw \in {0, member[q.org][q.target].id}
            /\ \A s \in Requests \ {r} : request'[s] = request[s]
        BY <1>4, <2>8 DEF ReadMembership, NoRequest, IInv, RequestsOK, Request
      <3>2. request'[r].saw <= joins'
        BY <1>3, <1>4, <3>0, <3>1 DEF Dated, RowsDated
      <3> QED
        BY <3>1, <3>2, CalmDates
    <2>9. CASE DeleteCount(r)
      <3>1. /\ request'[r] = [q EXCEPT !.pc = "erase", !.saw = joins,
                                        !.sole = {o \in Orgs : Members(o) = {q.actor}}]
            /\ \A s \in Requests \ {r} : request'[s] = request[s]
        BY <2>9 DEF DeleteCount, IInv, RequestsOK
      <3>2. /\ request'[r].saw = joins /\ request'[r].actor = q.actor
            /\ request'[r].pc = "erase"
            /\ request'[r].sole = {o \in Orgs : Members(o) = {q.actor}}
        BY <1>4, <3>1 DEF Request
      <3>3. \A o \in request'[r].sole, u \in Users \ {request'[r].actor} : ~IsMember(o, u)'
        BY <1>3, <3>2 DEF Members, IsMember
      <3> QED
        BY <1>3, <1>4, <3>1, <3>2, <3>3 DEF Dates
    <2> QED
      BY <2>1, <2>2, <2>3, <2>4, <2>5, <2>6, <2>7, <2>8, <2>9
  <1> QED
    BY <1>2, <1>6, OneDated

\* Rows and request of a step that writes.
LEMMA WriterDates ==
  ASSUME IInv, IInv', Dated, NEW r \in Requests,
         \/ UpsertMember(r) \/ CreateOrg(r) \/ SignupWrite(r) \/ Attach(r)
         \/ InviteNew(r) \/ RemoveMember(r) \/ CreateCandidate(r) \/ DeleteAccount(r)
  PROVE  Dated'
  <1> DEFINE q == request[r]
             u == q.actor
             v == q.target
             o == q.org
  <1>0. q \in Request /\ Placed(q) /\ u \in Users /\ v \in Users
    BY DEF IInv, RequestsOK, Request
  <1>1. "MEMBER" \in Roles /\ "OWNER" \in Roles
    BY DEF Roles
  <1>2. CASE Done(r) /\ UNCHANGED rows
    BY <1>2, RowsAge, EndedRequest, OneDated
  <1>3. CASE UpsertMember(r)
    <2>1. o \in Orgs /\ Resolved(r, o)
      BY <1>0, <1>3 DEF UpsertMember, At, Placed
    <2>2. Aged /\ RowsDated'
      <3>1. CASE member' = member
        BY <1>3, <3>1, RowsAge DEF UpsertMember, rows
      <3>2. CASE member' # member
        BY <1>0, <1>1, <1>3, <2>1, <3>2, JoinAges DEF UpsertMember
      <3> QED
        BY <3>1, <3>2
    <2> QED
      BY <2>1, <2>2, ResolvedRequest, OneDated DEF Aged
  <1>4. CASE CreateOrg(r) /\ ~(Done(r) /\ Keeps)
    <2>1. PICK p \in Orgs \ orgs :
            /\ member' = Join(p, u, "OWNER") /\ joins' = joins + 1
            /\ primary' = [primary EXCEPT ![u] = p] /\ Resolved(r, p)
            /\ account' = account /\ account[u] # "absent"
      BY <1>4 DEF CreateOrg
    <2>2. Aged /\ RowsDated'
      BY <1>0, <1>1, <2>1, JoinAges
    <2> QED
      BY <2>1, <2>2, ResolvedRequest, OneDated DEF Aged
  <1>5. CASE SignupWrite(r) /\ ~(Done(r) /\ Keeps)
    <2>1. /\ account' = [account EXCEPT ![u] = "active"] /\ GoTo(r, "org")
          /\ UNCHANGED <<primary, orgs, member, joins, candidates, ops>>
      BY <1>5 DEF SignupWrite
    <2>2. Aged /\ RowsDated'
      BY <1>0, <2>1 DEF IInv, RowsOK, Dated, RowsDated, Aged, IsMember
    <2>3. Dates(request[r])' /\ \A s \in Requests \ {r} : request'[s] = request[s]
      BY <2>1, <2>2, WentOn, "org" \notin {"already", "attach", "erase"} DEF Aged
    <2> QED
      BY <2>2, <2>3, OneDated
  <1>6. CASE (Attach(r) \/ InviteNew(r)) /\ ~UNCHANGED rows
    <2>1. /\ o \in Orgs /\ Done(r)
          /\ primary' = [primary EXCEPT ![v] = o]
          /\ member' = Join(o, v, "MEMBER") /\ joins' = joins + 1
          /\ \/ account' = account /\ account[v] # "absent"
             \/ account' = [account EXCEPT ![v] = "pending"]
      BY <1>0, <1>6 DEF Attach, InviteNew, At, Placed, Keeps
    <2>2. /\ account'[v] # "absent"
          /\ \A w \in Users : account'[w] = "absent" => account[w] = "absent"
      BY <1>0, <2>1 DEF IInv, RowsOK
    <2>3. Aged /\ RowsDated'
      BY <1>0, <1>1, <2>1, <2>2, JoinAges
    <2> QED
      BY <2>1, <2>3, EndedRequest, OneDated
  <1>7. CASE RemoveMember(r) /\ ~UNCHANGED rows
    <2>1. /\ o \in Orgs /\ Done(r)
          /\ member' = [member EXCEPT ![o][v].role = "none"]
          /\ primary' = [primary EXCEPT ![v] = IF @ = o THEN NoOrg ELSE @]
          /\ UNCHANGED <<account, joins>>
      BY <1>0, <1>7 DEF RemoveMember, At, Placed, Keeps
    <2>a. member[o][v] \in [role : Roles, id : Nat]
      BY <1>0, <2>1 DEF IInv, RowsOK
    <2>b. member'[o][v].id = member[o][v].id /\ member'[o][v].role = "none"
      BY <1>0, <2>1, <2>a DEF IInv, RowsOK
    <2>c. \A p \in Orgs, w \in Users : <<p, w>> # <<o, v>> => member'[p][w] = member[p][w]
      BY <1>0, <2>1 DEF IInv, RowsOK
    <2>2. /\ \A p \in Orgs, w \in Users : member'[p][w].id = member[p][w].id
          /\ \A p \in Orgs, w \in Users : IsMember(p, w)' => IsMember(p, w)
      BY <2>b, <2>c DEF IsMember
    <2>3. \A w \in Users : primary'[w] \in {primary[w], NoOrg}
      BY <1>0, <2>1 DEF IInv, RowsOK
    <2>d. joins \in Nat /\ joins <= joins'
      BY <2>1 DEF IInv, RowsOK
    <2>4. Aged
      BY <2>2, <2>3, <2>d DEF Aged
    <2>5. RowsDated'
      BY <2>1, <2>2, <2>3 DEF Dated, RowsDated
    <2> QED
      BY <2>1, <2>4, <2>5, EndedRequest, OneDated
  <1>8. CASE CreateCandidate(r)
    <2>1. Aged /\ RowsDated'
      BY <1>8 DEF CreateCandidate, IInv, RowsOK, Dated, RowsDated, Aged, IsMember
    <2> QED
      BY <1>8, <2>1, EndedRequest, OneDated DEF CreateCandidate
  <1>9. CASE DeleteAccount(r) /\ ~UNCHANGED rows
    <2>1. /\ Done(r) /\ joins' = joins
          /\ account' = [account EXCEPT ![u] = "absent"]
          /\ primary' = [primary EXCEPT ![u] = NoOrg]
          /\ member' = [p \in Orgs |-> [member[p] EXCEPT ![u].role = "none"]]
      BY <1>9 DEF DeleteAccount, Keeps
    <2>2. /\ \A p \in Orgs, w \in Users : member'[p][w].id = member[p][w].id
          /\ \A p \in Orgs, w \in Users : IsMember(p, w)' => IsMember(p, w)
      BY <1>0, <2>1 DEF IInv, RowsOK, IsMember
    <2>3. /\ \A w \in Users : primary'[w] \in {primary[w], NoOrg}
          /\ \A w \in Users : account'[w] = "absent" => primary'[w] = NoOrg
      BY <1>0, <2>1 DEF IInv, RowsOK, Dated, RowsDated
    <2>4. Aged /\ RowsDated'
      BY <2>1, <2>2, <2>3 DEF IInv, RowsOK, Dated, RowsDated, Aged
    <2> QED
      BY <2>1, <2>4, EndedRequest, OneDated
  <1>10. CASE CreateOrg(r) \/ SignupWrite(r)
    BY <1>2, <1>4, <1>5, <1>10 DEF Keeps
  <1>11. CASE Attach(r) \/ InviteNew(r) \/ RemoveMember(r) \/ DeleteAccount(r)
    BY <1>2, <1>6, <1>7, <1>9, <1>11 DEF Attach, InviteNew, RemoveMember, DeleteAccount
  <1> QED
    BY <1>3, <1>8, <1>10, <1>11

LEMMA DatedNext == IInv /\ Dated /\ [TeamsNext]_vars => Dated'
  <1> SUFFICES ASSUME IInv, Dated, [TeamsNext]_vars
               PROVE  Dated'
    OBVIOUS
  <1>1. IInv'
    BY NextKeeps
  <1>2. CASE UNCHANGED vars
    BY <1>2 DEF vars, Dated, RowsDated, Dates, IsMember
  <1>3. CASE TeamsNext
    BY <1>1, <1>3, ReaderDates, WriterDates DEF TeamsNext
  <1> QED
    BY <1>2, <1>3

\* However requests interleave, nobody who acts in an organization is attached to
\* another one, but by an invitation that looked at them before they joined the one
\* they leave: the refusal in inviteMemberAction and the transaction that attaches
\* are an await apart.
THEOREM NobodyIsMoved == TeamsSpec => [][NeverMoved]_vars
  <1>1. IInv /\ Dated /\ [TeamsNext]_vars => [NeverMoved]_vars
    <2> SUFFICES ASSUME IInv, Dated, NEW r \in Requests,
                        \/ Begin(r) \/ ReadOrg(r) \/ UpsertMember(r) \/ CreateOrg(r)
                        \/ SignupRead(r) \/ SignupWrite(r)
                        \/ CheckOwner(r) \/ ReadInvitee(r) \/ ReadAlready(r)
                        \/ Attach(r) \/ InviteNew(r)
                        \/ ReadMembership(r) \/ CountOwners(r) \/ RemoveMember(r)
                        \/ CreateCandidate(r) \/ DeleteCount(r) \/ DeleteAccount(r),
                        NEW u \in Users, NEW o \in Orgs \ {primary[u]},
                        primary[u] # NoOrg, primary'[u] = o, member'[o][u].role = "MEMBER"
                 PROVE  /\ At(r, "attach") /\ request'[r].pc = "idle"
                        /\ request[r].target = u /\ request[r].org = o
                        /\ request[r].saw < member[primary[u]][u].id
      BY DEF TeamsNext, NeverMoved
    <2>0. /\ RowsOK /\ RowsDated /\ request[r] \in Request /\ Placed(request[r])
          /\ Dates(request[r]) /\ o # NoOrg /\ request \in [Requests -> Request]
      BY TeamsAssumption DEF IInv, RequestsOK, Dated
    <2>1. CASE CreateOrg(r)
      <3>1. request[r].actor \in Users
        BY <2>0 DEF Request
      <3>2. \E p \in Orgs : /\ primary' = [primary EXCEPT ![request[r].actor] = p]
                            /\ member' = Join(p, request[r].actor, "OWNER")
        BY <2>1 DEF CreateOrg, Keeps, rows
      <3> QED
        BY <2>0, <3>1, <3>2, JoinType DEF RowsOK, Roles
    <2>2. CASE Attach(r)
      <3>1. /\ Done(r) /\ request[r].pc = "attach"
            /\ primary' = [primary EXCEPT ![request[r].target] = request[r].org]
        BY <2>2 DEF Attach, At, Keeps, rows
      <3>2. request[r].target = u /\ request[r].org = o /\ request'[r].pc = "idle"
        BY <2>0, <3>1 DEF RowsOK, Done, NoRequest
      <3> QED
        BY <2>0, <3>1, <3>2 DEF Dates, At
    <2>3. CASE InviteNew(r)
      <3>1. /\ account[request[r].target] = "absent"
            /\ primary' = [primary EXCEPT ![request[r].target] = request[r].org]
        BY <2>3 DEF InviteNew, Keeps, rows
      <3>2. request[r].target = u
        BY <2>0, <3>1 DEF RowsOK
      <3> QED
        BY <2>0, <3>1, <3>2 DEF RowsDated
    <2>4. CASE RemoveMember(r) \/ DeleteAccount(r)
      BY <2>0, <2>4 DEF RemoveMember, DeleteAccount, RowsOK, Keeps, rows
    <2>5. CASE UNCHANGED primary
      BY <2>5
    <2> QED
      BY <2>1, <2>2, <2>3, <2>4, <2>5
      DEF Begin, ReadOrg, UpsertMember, SignupRead, SignupWrite, CheckOwner,
          ReadInvitee, ReadAlready, ReadMembership, CountOwners, CreateCandidate,
          DeleteCount, Keeps, rows
  <1> QED
    BY <1>1, DatedInit, DatedNext, TeamsIInv, PTL DEF TeamsSpec

\* However requests interleave, the deletion of an account erases no candidate of an
\* organization a colleague acts in, but of one the colleague joined after it had
\* counted the members (deleteAccountAction).
THEOREM ErasureKeepsOthers == TeamsSpec => [][KeptForOthers]_vars
  <1>1. IInv /\ Dated /\ [TeamsNext]_vars => [KeptForOthers]_vars
    <2> SUFFICES ASSUME IInv, Dated, TeamsNext, NEW c \in candidates \ candidates',
                        NEW u \in Users \ {c.by}, primary[u] = c.org
                 PROVE  \E r \in Requests : /\ At(r, "erase") /\ request'[r].pc = "idle"
                                            /\ request[r].actor = c.by
                                            /\ request[r].saw < member[c.org][u].id
      BY DEF KeptForOthers
    <2>1. PICK r \in Requests : DeleteAccount(r) /\ ~Keeps
      BY DEF TeamsNext, Begin, ReadOrg, UpsertMember, CreateOrg, SignupRead, SignupWrite,
         CheckOwner, ReadInvitee, ReadAlready, Attach, InviteNew, ReadMembership,
         CountOwners, RemoveMember, CreateCandidate, DeleteCount, Keeps, rows
    <2>2. /\ c.by = request[r].actor /\ c.org \in request[r].sole
          /\ request[r].pc = "erase" /\ Done(r)
      BY <2>1 DEF DeleteAccount, At
    <2>3. request'[r].pc = "idle"
      BY <2>2 DEF Done, NoRequest, IInv, RequestsOK
    <2>4. c.org \in Orgs /\ IsMember(c.org, u)
      BY <2>2 DEF IInv, RequestsOK, Request, Belongs
    <2>5. request[r].saw < member[c.org][u].id
      BY <2>2, <2>4 DEF Dated, Dates
    <2> QED
      BY <2>2, <2>3, <2>5 DEF At
  <1> QED
    BY <1>1, DatedInit, DatedNext, TeamsIInv, PTL DEF TeamsSpec
=============================================================================
