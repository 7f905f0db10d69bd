------------------------------ MODULE AccessProofs -----------------------------
(***************************************************************************)
(* For any number of users, tenants and requests side by side: a refresh   *)
(* token is exchanged once and a session is of a tenant its user is in     *)
(* (AccessInv); what several statements write about members, staff and     *)
(* setup fits together once they have ended (TeamInv); a one-time code is  *)
(* accepted once (CodesInv); and everything keeps its types (AccessTypes,  *)
(* MfaTypes).                                                              *)
(***************************************************************************)
EXTENDS Access, Mfa, FiniteSetTheorems, SequenceTheorems, WellFoundedInduction, TLAPS

(* The statements that neither exchange a token nor issue a session.       *)
Ordinary == {"tenant", "known", "user", "member", "home", "staff", "look", "entity", "complete",
             "revoke"}

Issues(r)    == r.todo = <<"session">>
Exchanges(r) == r.todo = <<"exchange", "session">>

(* A request's locals: the session it read exists, and a request on its    *)
(* way to a session is of a tenant its user is in.                         *)
Sound(r) ==
    /\ r = Request(r.user, r.tenant, r.entity, r.role, r.session, r.todo)
    /\ r.session \in 0 .. Cardinality(sessions)
    /\ r.todo # <<>>
    /\ r.todo \in Seq(Ordinary) \/ ((Issues(r) \/ Exchanges(r)) /\ Member(r.tenant, r.user))

Locals ==
    /\ request = [p \in Clerks |-> request[p]]
    /\ \A p \in Clerks : Idle(p) \/ Sound(request[p])

(* Sessions are numbered in the order they are issued.                     *)
Numbered ==
    /\ IsFiniteSet(sessions)
    /\ \A s \in sessions : /\ s.id \in 1 .. Cardinality(sessions)
                           /\ s.from \in 0 .. Cardinality(sessions) /\ s.from # s.id

(* The token a request is about to issue a session for is revoked, and no  *)
(* session, nor another request, came from it.                             *)
Exchanged ==
    \A p \in Clerks : ~ Idle(p) /\ Issues(request[p]) /\ request[p].session # 0 =>
        /\ request[p].session \in revoked
        /\ \A s \in sessions : s.from # request[p].session
        /\ \A q \in Clerks \ {p} :
              ~ Idle(q) /\ Issues(request[q]) => request[q].session # request[p].session

AccessInv == Locals /\ Numbered /\ Exchanged /\ SessionsAreSound

(* A plan with a session in it is not one of ordinary statements.          *)
LEMMA PlansDiffer ==
  /\ Ordinary \cap {"session", "exchange"} = {}
  /\ <<"session">> \notin Seq(Ordinary) /\ <<"exchange", "session">> \notin Seq(Ordinary)
  /\ <<"session">> # <<"exchange", "session">>
  /\ <<>> \in Seq(Ordinary)
<1>1. Ordinary \cap {"session", "exchange"} = {}
  BY DEF Ordinary
<1>2. <<"session">>[1] = "session" /\ 1 \in 1 .. Len(<<"session">>)
  OBVIOUS
<1>3. <<"exchange", "session">>[1] = "exchange" /\ 1 \in 1 .. Len(<<"exchange", "session">>)
  OBVIOUS
<1>4. \A t \in Seq(Ordinary) : \A i \in 1 .. Len(t) : t[i] \in Ordinary
  OBVIOUS
<1>5. <<"session">> \notin Seq(Ordinary)
  BY <1>1, <1>2, <1>4
<1>6. <<"exchange", "session">> \notin Seq(Ordinary)
  BY <1>1, <1>3, <1>4
<1>7. <<"session">> # <<"exchange", "session">>
  BY <1>2, <1>3
<1> QED BY <1>1, <1>5, <1>6, <1>7

(* There is no request and no session.                                     *)
LEMMA AccessInvInit == AccessInit => AccessInv
<1> SUFFICES ASSUME AccessInit PROVE AccessInv
  OBVIOUS
<1>1. Locals /\ \A p \in Clerks : Idle(p)
  BY DEF AccessInit, Locals, Idle
<1>2. Numbered
  BY FS_EmptySet DEF AccessInit, Numbered
<1>3. Exchanged
  BY <1>1 DEF Exchanged
<1>4. SessionsAreSound
  BY DEF AccessInit, SessionsAreSound
<1> QED BY <1>1, <1>2, <1>3, <1>4 DEF AccessInv

(* A step of clerk p that issues no session and exchanges no token: it     *)
(* ends, goes on among ordinary statements, or begins on a sound plan.     *)
Calm(p) ==
    /\ sessions' = sessions /\ revoked \subseteq revoked'
    /\ \A t, u : Member(t, u) => Member(t, u)'
    /\ request' = [request EXCEPT ![p] = request'[p]]
    /\ \/ request'[p] = Resting
       \/ Sound(request[p])' /\ (Issues(request'[p]) => request'[p].session = 0)

(* Such a step keeps the invariant, whatever the others are at.            *)
LEMMA QuietKeeps ==
  ASSUME AccessInv, NEW p \in Clerks, Calm(p) PROVE AccessInv'
<1>1. \A q \in Clerks \ {p} : request'[q] = request[q]
  BY DEF Calm, AccessInv, Locals
<1>2. request' = [q \in Clerks |-> request'[q]]
  BY DEF Calm, AccessInv, Locals
<1>3. ASSUME NEW q \in Clerks \ {p}, Sound(request[q]) PROVE Sound(request[q])'
  BY <1>1, <1>3 DEF Calm, Sound, Issues, Exchanges
<1>4. Locals'
  <2>1. ASSUME NEW q \in Clerks PROVE Idle(q)' \/ Sound(request[q])'
    <3>1. CASE q = p
      BY <3>1 DEF Calm, Idle, Sound, Issues, Exchanges
    <3>2. CASE q # p
      BY <3>2, <1>1, <1>3 DEF AccessInv, Locals, Idle
    <3> QED BY <3>1, <3>2
  <2> QED BY <1>2, <2>1 DEF Locals
<1>5. Numbered'
  BY DEF Calm, AccessInv, Numbered
<1>6. Exchanged'
  <2> SUFFICES ASSUME NEW q \in Clerks, ~ Idle(q)', Issues(request[q])', request'[q].session # 0
               PROVE  /\ request'[q].session \in revoked'
                      /\ \A s \in sessions' : s.from # request'[q].session
                      /\ \A o \in Clerks \ {q} : ~ Idle(o)' /\ Issues(request[o])'
                            => request'[o].session # request'[q].session
    BY DEF Exchanged
  <2>1. q # p
    BY DEF Calm, Idle, Issues
  <2>2. request'[q] = request[q] /\ ~ Idle(q) /\ Issues(request[q])
    BY <1>1, <2>1 DEF Idle, Issues
  <2>3. /\ request[q].session \in revoked
        /\ \A s \in sessions : s.from # request[q].session
        /\ \A o \in Clerks \ {q} : ~ Idle(o) /\ Issues(request[o])
              => request[o].session # request[q].session
    BY <2>2 DEF AccessInv, Exchanged
  <2>4. ASSUME NEW o \in Clerks \ {q}, ~ Idle(o)', Issues(request[o])'
        PROVE  request'[o].session # request'[q].session
    <3>1. CASE o = p
      BY <3>1, <2>2, <2>4 DEF Calm, Idle, Issues
    <3>2. CASE o # p
      BY <3>2, <1>1, <2>2, <2>3, <2>4 DEF Idle, Issues
    <3> QED BY <3>1, <3>2
  <2> QED BY <2>2, <2>3, <2>4 DEF Calm
<1>7. SessionsAreSound'
  BY DEF Calm, AccessInv, SessionsAreSound
<1> QED BY <1>4, <1>5, <1>6, <1>7 DEF AccessInv

(* Nothing but tenants, members and the like changes.                      *)
LEMMA NobodyMoves ==
  ASSUME AccessInv, UNCHANGED <<sessions, request>>, revoked \subseteq revoked',
         \A t, u : Member(t, u) => Member(t, u)'
  PROVE  AccessInv'
<1>1. Locals'
  BY DEF AccessInv, Locals, Idle, Sound, Issues, Exchanges
<1>2. Numbered' /\ SessionsAreSound'
  BY DEF AccessInv, Numbered, SessionsAreSound
<1>3. Exchanged'
  BY DEF AccessInv, Exchanged, Idle, Issues
<1> QED BY <1>1, <1>2, <1>3 DEF AccessInv

(* A plan of ordinary statements.                                          *)
LEMMA BeginsOrdinary ==
  ASSUME AccessInv, NEW p \in Clerks, NEW u, NEW t, NEW e, NEW r, NEW s, NEW plan,
         plan \in Seq(Ordinary), plan # <<>>, s \in 0 .. Cardinality(sessions),
         Opens(p, Request(u, t, e, r, s, plan))
  PROVE  AccessInv'
<1> DEFINE new == Request(u, t, e, r, s, plan)
<1>1. /\ request' = [request EXCEPT ![p] = new] /\ sessions' = sessions /\ revoked' = revoked
      /\ members' = members
  BY DEF Opens, tokens, tenancy
<1>2. request'[p] = new
  BY <1>1 DEF AccessInv, Locals
<1>3. new.todo = plan /\ new.session = s /\ ~ Issues(new)
      /\ new = Request(new.user, new.tenant, new.entity, new.role, new.session, new.todo)
  BY PlansDiffer DEF Request, Issues
<1> HIDE DEF new
<1>4. Calm(p)
  BY <1>1, <1>2, <1>3 DEF Calm, Sound, Member
<1> QED BY <1>4, QuietKeeps

(* A plan that ends with a session of its own, of no token.                *)
LEMMA BeginsSession ==
  ASSUME AccessInv, NEW p \in Clerks, NEW u, NEW t, Member(t, u),
         Opens(p, Request(u, t, 0, "user", 0, <<"session">>))
  PROVE  AccessInv'
<1> DEFINE new == Request(u, t, 0, "user", 0, <<"session">>)
<1>1. /\ request' = [request EXCEPT ![p] = new] /\ sessions' = sessions /\ revoked' = revoked
      /\ members' = members
  BY DEF Opens, tokens, tenancy
<1>2. request'[p] = new
  BY <1>1 DEF AccessInv, Locals
<1>3. /\ Issues(new) /\ new.todo # <<>> /\ new.session = 0
      /\ new.tenant = t /\ new.user = u
      /\ new = Request(new.user, new.tenant, new.entity, new.role, new.session, new.todo)
  BY DEF Request, Issues
<1>4. Cardinality(sessions) \in Nat
  BY FS_CardinalityType DEF AccessInv, Numbered
<1> HIDE DEF new
<1>5. new.session \in 0 .. Cardinality(sessions)
  BY <1>3, <1>4
<1>6. Sound(request[p])'
  BY <1>1, <1>2, <1>3, <1>5 DEF Sound, Member, Issues
<1>7. Calm(p)
  BY <1>1, <1>2, <1>3, <1>6 DEF Calm, Member
<1> QED BY <1>7, QuietKeeps

(* handleRefresh begins with a token that is in the table.                 *)
LEMMA RefreshBegins ==
  ASSUME AccessInv, NEW p \in Clerks, NEW s \in sessions, handleRefresh(p, s) PROVE AccessInv'
<1> DEFINE new == Request(s.user, s.tenant, 0, "user", s.id, <<"exchange", "session">>)
<1>1. /\ request' = [request EXCEPT ![p] = new] /\ sessions' = sessions /\ revoked' = revoked
      /\ members' = members
  BY DEF handleRefresh, Begin, Opens, tokens, tenancy
<1>2. request'[p] = new
  BY <1>1 DEF AccessInv, Locals
<1>3. /\ Exchanges(new) /\ ~ Issues(new) /\ new.todo # <<>>
      /\ new.session = s.id /\ new.tenant = s.tenant /\ new.user = s.user
      /\ new = Request(new.user, new.tenant, new.entity, new.role, new.session, new.todo)
  BY PlansDiffer DEF Request, Issues, Exchanges
<1>4. s.id \in 0 .. Cardinality(sessions) /\ Member(s.tenant, s.user)
  BY FS_CardinalityType DEF AccessInv, Numbered, SessionsAreSound
<1> HIDE DEF new
<1>5. Calm(p)
  BY <1>1, <1>2, <1>3, <1>4 DEF Calm, Sound, Member, Issues, Exchanges
<1> QED BY <1>5, QuietKeeps

(* handleRegister writes the membership with its user.                     *)
LEMMA RegisterBegins ==
  ASSUME AccessInv, NEW p \in Clerks, NEW u \in Users, handleRegister(p, u) PROVE AccessInv'
<1> DEFINE new == Request(u, tenants + 1, 0, "user", 0, <<"session">>)
<1>1. /\ request' = [request EXCEPT ![p] = new] /\ sessions' = sessions /\ revoked' = revoked
      /\ members' = members \cup {[tenant |-> tenants + 1, user |-> u, role |-> "user"]}
  BY DEF handleRegister, tokens
<1>2. request'[p] = new
  BY <1>1 DEF AccessInv, Locals
<1>3. /\ Issues(new) /\ new.todo # <<>> /\ new.session = 0
      /\ new.tenant = tenants + 1 /\ new.user = u
      /\ new = Request(new.user, new.tenant, new.entity, new.role, new.session, new.todo)
  BY DEF Request, Issues
<1>4. Cardinality(sessions) \in Nat
  BY FS_CardinalityType DEF AccessInv, Numbered
<1>5. /\ \E m \in members' : m.tenant = tenants + 1 /\ m.user = u
      /\ members \subseteq members'
  <2> DEFINE m == [tenant |-> tenants + 1, user |-> u, role |-> "user"]
  <2>1. m \in members' /\ m.tenant = tenants + 1 /\ m.user = u
    BY <1>1
  <2> QED BY <1>1, <2>1
<1> HIDE DEF new
<1>6. new.session \in 0 .. Cardinality(sessions)
  BY <1>3, <1>4
<1>7. Sound(request[p])'
  BY <1>1, <1>2, <1>3, <1>5, <1>6 DEF Sound, Member, Issues
<1>8. Calm(p)
  BY <1>1, <1>2, <1>3, <1>5, <1>7 DEF Calm, Member
<1> QED BY <1>8, QuietKeeps

(* A request on a plan of ordinary statements.                             *)
Plain(r) ==
    /\ r = Request(r.user, r.tenant, r.entity, r.role, r.session, r.todo)
    /\ r.session \in 0 .. Cardinality(sessions)
    /\ r.todo # <<>> /\ r.todo \in Seq(Ordinary)

(* A plan of ordinary statements may run without a membership.             *)
LEMMA PlainIsSound == ASSUME NEW r, Plain(r) PROVE Sound(r) /\ ~ Issues(r)
BY PlansDiffer DEF Plain, Sound, Issues

(* Only a plan of ordinary statements begins with one.                     *)
LEMMA OrdinaryIsPlain ==
  ASSUME AccessInv, NEW p \in Clerks, ~ Idle(p), Head(request[p].todo) \in Ordinary
  PROVE  Plain(request[p])
<1>1. Sound(request[p])
  BY DEF AccessInv, Locals
<1>2. Head(<<"session">>) = "session" /\ Head(<<"exchange", "session">>) = "exchange"
  OBVIOUS
<1>3. ~ Issues(request[p]) /\ ~ Exchanges(request[p])
  BY <1>2, PlansDiffer DEF Issues, Exchanges
<1> QED BY <1>1, <1>3 DEF Sound, Plain

(* What is left of a plan once its first statement is done.                *)
LEMMA RestIsPlain == ASSUME NEW r, Plain(r) PROVE Rest(r) = Resting \/ Plain(Rest(r))
<1>1. SUFFICES ASSUME Len(r.todo) # 1 PROVE Plain(Rest(r))
  BY DEF Rest
<1>2. Rest(r) = Request(r.user, r.tenant, r.entity, r.role, r.session, Tail(r.todo))
  BY <1>1 DEF Rest, Plain, Request
<1> DEFINE todo == r.todo
<1>3. todo \in Seq(Ordinary) /\ todo # <<>> /\ Len(todo) # 1
  BY <1>1 DEF Plain
<1>4. Tail(todo) \in Seq(Ordinary) /\ Tail(todo) # <<>>
  <2> HIDE DEF todo
  <2> DEFINE t == Tail(todo)
  <2>1. t \in Seq(Ordinary) /\ Len(t) = Len(todo) - 1
    BY <1>3
  <2>2. Len(todo) \in Nat /\ Len(todo) # 0
    BY <1>3
  <2> HIDE DEF t
  <2>3. Len(t) # 0
    BY <1>3, <2>1, <2>2
  <2>4. t # <<>>
    BY <2>3
  <2> QED BY <2>1, <2>4 DEF t
<1> QED BY <1>2, <1>4 DEF Plain, Request

(* Tokens stay as they are, or more are revoked; members are not lost.     *)
Grows ==
    /\ sessions' = sessions /\ revoked \subseteq revoked'
    /\ \A t, u : Member(t, u) => Member(t, u)'

(* A request may stop anywhere: the token it revoked stays revoked.        *)
LEMMA StopKeeps ==
  ASSUME AccessInv, NEW p \in Clerks, Grows, Stop(p) PROVE AccessInv'
<1>1. request' = [request EXCEPT ![p] = Resting] /\ request'[p] = Resting
  BY DEF Stop, AccessInv, Locals
<1>2. Calm(p)
  BY <1>1 DEF Calm, Grows
<1> QED BY <1>2, QuietKeeps

(* An ordinary statement leads to the next one of its plan, or to the end. *)
LEMMA AdvanceKeeps ==
  ASSUME AccessInv, NEW p \in Clerks, Grows, ~ Idle(p), Head(request[p].todo) \in Ordinary,
         \/ Advance(p)
         \/ \E t : request' = [request EXCEPT ![p] = Rest([@ EXCEPT !.tenant = t])]
         \/ \E e : request' = [request EXCEPT ![p] = Rest([@ EXCEPT !.entity = e])]
  PROVE  AccessInv'
<1>1. PICK r : Plain(r) /\ request' = [request EXCEPT ![p] = Rest(r)]
  <2>1. Plain(request[p])
    BY OrdinaryIsPlain
  <2>2. CASE Advance(p)
    BY <2>1, <2>2 DEF Advance
  <2>3. ASSUME NEW t, request' = [request EXCEPT ![p] = Rest([@ EXCEPT !.tenant = t])]
        PROVE  \E r : Plain(r) /\ request' = [request EXCEPT ![p] = Rest(r)]
    <3> DEFINE r == [request[p] EXCEPT !.tenant = t]
    <3>1. Plain(r)
      BY <2>1 DEF Plain, Request
    <3>2. request' = [request EXCEPT ![p] = Rest(r)]
      BY <2>3
    <3> QED BY <3>1, <3>2
  <2>4. ASSUME NEW e, request' = [request EXCEPT ![p] = Rest([@ EXCEPT !.entity = e])]
        PROVE  \E r : Plain(r) /\ request' = [request EXCEPT ![p] = Rest(r)]
    <3> DEFINE r == [request[p] EXCEPT !.entity = e]
    <3>1. Plain(r)
      BY <2>1 DEF Plain, Request
    <3>2. request' = [request EXCEPT ![p] = Rest(r)]
      BY <2>4
    <3> QED BY <3>1, <3>2
  <2> QED BY <2>2, <2>3, <2>4
<1>2. request'[p] = Rest(r)
  BY <1>1 DEF AccessInv, Locals
<1>3. Rest(r) = Resting \/ Plain(Rest(r))
  BY <1>1, RestIsPlain
<1>4. CASE Rest(r) = Resting
  BY <1>1, <1>4, StopKeeps DEF Stop
<1>5. CASE Plain(Rest(r))
  <2>1. Sound(Rest(r)) /\ ~ Issues(Rest(r))
    BY <1>5, PlainIsSound
  <2> DEFINE x == Rest(r)
  <2>2. Plain(x) /\ Sound(x) /\ ~ Issues(x) /\ request'[p] = x
        /\ request' = [request EXCEPT ![p] = x]
    BY <1>1, <1>2, <1>5, <2>1
  <2> HIDE DEF x
  <2>3. Sound(request[p])'
    BY <2>2 DEF Sound, Plain, Grows
  <2>4. Calm(p)
    BY <2>2, <2>3 DEF Calm, Grows
  <2> QED BY <2>4, QuietKeeps
<1> QED BY <1>3, <1>4, <1>5

(* What leaves members and sessions alone only grows.                      *)
LEMMA GrowsUnchanged ==
  ASSUME UNCHANGED <<sessions, members>>, revoked \subseteq revoked' PROVE Grows
BY DEF Grows, Member

(* So does a new membership.                                               *)
LEMMA MembersGrow ==
  ASSUME UNCHANGED <<sessions, revoked>>, members \subseteq members' PROVE Grows
BY DEF Grows, Member

OtherStatements(p) ==
    \/ CreateTenant(p) \/ FindTenant(p) \/ CreateUser(p) \/ CreateTenantMember(p)
    \/ SetDefaultTenant(p) \/ CreateStaff(p) \/ LookUpTenantMember(p) \/ SetSetupComplete(p)
    \/ (\E template \in Templates : SetupEntity(p, template)) \/ Revoke(p)

(* Every statement but the two of a session is an ordinary one.            *)
LEMMA StatementsKeep ==
  ASSUME AccessInv, NEW p \in Clerks, StatementFails(p) \/ OtherStatements(p) PROVE AccessInv'
<1>1. CASE StatementFails(p)
  BY <1>1, GrowsUnchanged, StopKeeps DEF StatementFails, tokens, tenancy
<1>2. CASE OtherStatements(p)
  <2>1. ~ Idle(p) /\ Head(request[p].todo) \in Ordinary
    BY <1>2 DEF OtherStatements, CreateTenant, FindTenant, CreateUser, CreateTenantMember,
       SetDefaultTenant, CreateStaff, LookUpTenantMember, SetSetupComplete, SetupEntity, Revoke,
       At, Ordinary
  <2>2. Grows
    <3>1. CASE CreateTenantMember(p)
      BY <3>1, MembersGrow DEF CreateTenantMember, tokens
    <3>2. CASE ~ CreateTenantMember(p)
      BY <1>2, <3>2, GrowsUnchanged DEF OtherStatements, CreateTenant, FindTenant,
           CreateUser,
         SetDefaultTenant, CreateStaff, LookUpTenantMember, SetSetupComplete, SetupEntity, Revoke,
         tenancy, tokens
    <3> QED BY <3>1, <3>2
  <2>3. \/ Stop(p) \/ Advance(p)
        \/ \E t : request' = [request EXCEPT ![p] = Rest([@ EXCEPT !.tenant = t])]
        \/ \E e : request' = [request EXCEPT ![p] = Rest([@ EXCEPT !.entity = e])]
    <3>1. CASE CreateTenant(p)
      BY <3>1 DEF CreateTenant
    <3>2. ASSUME NEW template \in Templates, SetupEntity(p, template)
          PROVE  \/ Advance(p)
                 \/ \E e : request' = [request EXCEPT ![p] = Rest([@ EXCEPT !.entity = e])]
      BY <3>2 DEF SetupEntity
    <3>3. CASE ~ CreateTenant(p) /\ ~ \E template \in Templates : SetupEntity(p, template)
      BY <1>2, <3>3 DEF OtherStatements, FindTenant, CreateUser, CreateTenantMember,
         SetDefaultTenant, CreateStaff, LookUpTenantMember, SetSetupComplete, Revoke
    <3> QED BY <3>1, <3>2, <3>3
  <2> QED BY <2>1, <2>2, <2>3, StopKeeps, AdvanceKeeps
<1> QED BY <1>1, <1>2

(* RevokeIfActive: only the request that finds the token active goes on.   *)
LEMMA ExchangeKeeps ==
  ASSUME AccessInv, NEW p \in Clerks, RevokeIfActive(p) PROVE AccessInv'
<1>1. ~ Idle(p) /\ Head(request[p].todo) = "exchange"
      /\ revoked' = revoked \cup {request[p].session}
      /\ UNCHANGED <<sessions, members>>
  BY DEF RevokeIfActive, At, tenancy
<1>2. Grows
  BY <1>1, GrowsUnchanged
<1>3. CASE Stop(p)
  BY <1>2, <1>3, StopKeeps
<1>4. CASE request[p].session \notin revoked /\ Advance(p)
  <2> DEFINE x == [request[p] EXCEPT !.todo = <<"session">>]
  <2>1. Sound(request[p]) /\ Exchanges(request[p])
    <3>1. Sound(request[p])
      BY <1>1 DEF AccessInv, Locals
    <3>2. \A t \in Seq(Ordinary) : t # <<>> => Head(t) \in Ordinary
      OBVIOUS
    <3>3. Head(<<"session">>) = "session" /\ "session" # "exchange"
      OBVIOUS
    <3> QED BY <1>1, <3>1, <3>2, <3>3, PlansDiffer DEF Sound, Issues
  <2>2. Rest(request[p]) = x
    <3>1. Len(<<"exchange", "session">>) = 2 /\ Tail(<<"exchange", "session">>) = <<"session">>
      OBVIOUS
    <3> QED BY <2>1, <3>1 DEF Rest, Exchanges
  <2>3. request' = [request EXCEPT ![p] = x] /\ request'[p] = x
    BY <1>4, <2>2 DEF Advance, AccessInv, Locals
  <2>4. /\ x = Request(x.user, x.tenant, x.entity, x.role, x.session, x.todo)
        /\ x.todo = <<"session">> /\ x.todo # <<>>
        /\ x.session = request[p].session /\ x.user = request[p].user /\ x.tenant = request[p].tenant
    BY <2>1 DEF Sound, Request
  <2> HIDE DEF x
  <2>5. \A q \in Clerks \ {p} : request'[q] = request[q]
    BY <2>3 DEF AccessInv, Locals
  <2>6. Sound(request[p])'
    BY <1>1, <2>1, <2>3, <2>4, PlansDiffer DEF Sound, Issues, Exchanges, Member
  <2>7. Locals'
    <3>1. request' = [q \in Clerks |-> request'[q]]
      BY <2>3 DEF AccessInv, Locals
    <3>2. ASSUME NEW q \in Clerks PROVE Idle(q)' \/ Sound(request[q])'
      <4>1. CASE q = p
        BY <4>1, <2>6
      <4>2. CASE q # p
        BY <4>2, <1>1, <2>5 DEF AccessInv, Locals, Idle, Sound, Issues, Exchanges, Member
      <4> QED BY <4>1, <4>2
    <3> QED BY <3>1, <3>2 DEF Locals
  <2>8. Exchanged'
    <3>1. /\ request[p].session # 0 => \A s \in sessions : s.from # request[p].session
          /\ \A q \in Clerks : ~ Idle(q) /\ Issues(request[q]) =>
                request[q].session = 0 \/ request[q].session \in revoked
      BY <1>4 DEF AccessInv, Exchanged, SessionsAreSound
    <3> SUFFICES ASSUME NEW q \in Clerks, ~ Idle(q)', Issues(request[q])', request'[q].session # 0
                 PROVE  /\ request'[q].session \in revoked'
                        /\ \A s \in sessions' : s.from # request'[q].session
                        /\ \A o \in Clerks \ {q} : ~ Idle(o)' /\ Issues(request[o])'
                              => request'[o].session # request'[q].session
      BY DEF Exchanged
    <3>2. CASE q = p
      <4>1. request'[q].session = request[p].session
        BY <3>2, <2>3, <2>4
      <4>2. ASSUME NEW o \in Clerks \ {q}, ~ Idle(o)', Issues(request[o])'
            PROVE  request'[o].session # request'[q].session
        <5>1. request'[o] = request[o] /\ ~ Idle(o) /\ Issues(request[o])
          BY <2>5, <3>2, <4>2 DEF Idle, Issues
        <5> QED BY <1>4, <3>1, <4>1, <5>1
      <4> QED BY <1>1, <3>1, <4>1, <4>2
    <3>3. CASE q # p
      <4>1. request'[q] = request[q] /\ ~ Idle(q) /\ Issues(request[q])
        BY <2>5, <3>3 DEF Idle, Issues
      <4>2. ASSUME NEW o \in Clerks \ {q}, ~ Idle(o)', Issues(request[o])'
            PROVE  request'[o].session # request'[q].session
        <5>1. CASE o = p
          BY <5>1, <1>4, <2>3, <2>4, <3>1, <4>1
        <5>2. CASE o # p
          BY <5>2, <2>5, <4>1, <4>2 DEF AccessInv, Exchanged, Idle, Issues
        <5> QED BY <5>1, <5>2
      <4> QED BY <1>1, <4>1, <4>2 DEF AccessInv, Exchanged
    <3> QED BY <3>2, <3>3
  <2>9. Numbered' /\ SessionsAreSound'
    BY <1>1 DEF AccessInv, Numbered, SessionsAreSound, Member
  <2> QED BY <2>7, <2>8, <2>9 DEF AccessInv
<1> QED BY <1>3, <1>4 DEF RevokeIfActive

(* issueSession: the new session is the only one of its token.             *)
LEMMA IssueKeeps ==
  ASSUME AccessInv, NEW p \in Clerks, issueSession(p) PROVE AccessInv'
<1> DEFINE n == Cardinality(sessions)
           x == [id |-> NextSession, user |-> request[p].user, tenant |-> request[p].tenant,
                 from |-> request[p].session]
<1>1. ~ Idle(p) /\ Head(request[p].todo) = "session"
      /\ sessions' = sessions \cup {x} /\ UNCHANGED <<revoked, members>>
  BY DEF issueSession, At, tenancy
<1>2. Sound(request[p]) /\ Issues(request[p])
  <2>1. Sound(request[p])
    BY <1>1 DEF AccessInv, Locals
  <2>2. \A t \in Seq(Ordinary) : t # <<>> => Head(t) \in Ordinary
    OBVIOUS
  <2>3. Head(<<"exchange", "session">>) = "exchange" /\ "session" # "exchange"
    OBVIOUS
  <2> QED BY <1>1, <2>1, <2>2, <2>3, PlansDiffer DEF Sound, Exchanges
<1>3. request' = [request EXCEPT ![p] = Resting] /\ request'[p] = Resting
  <2>1. Len(<<"session">>) = 1
    OBVIOUS
  <2>2. Rest(request[p]) = Resting
    BY <1>2, <2>1 DEF Rest, Issues
  <2> QED BY <2>2 DEF issueSession, Advance, AccessInv, Locals
<1>4. \A q \in Clerks \ {p} : request'[q] = request[q]
  BY <1>3 DEF AccessInv, Locals
<1>5. /\ n \in Nat /\ x.id = n + 1 /\ x.from = request[p].session /\ x.from \in 0 .. n
      /\ Member(x.tenant, x.user)
  <2>1. n \in Nat
    BY FS_CardinalityType DEF AccessInv, Numbered
  <2>2. x.id = n + 1 /\ x.from = request[p].session
    BY DEF NextSession
  <2>3. request[p].session \in 0 .. n /\ Member(request[p].tenant, request[p].user)
    BY <1>2, PlansDiffer DEF Sound, Issues
  <2> QED BY <2>1, <2>2, <2>3
<1> HIDE DEF x
<1>6. x \notin sessions
  BY <1>5 DEF AccessInv, Numbered
<1>7. IsFiniteSet(sessions') /\ Cardinality(sessions') = n + 1
  BY <1>1, <1>6, FS_AddElement DEF AccessInv, Numbered
<1> HIDE DEF n
<1>8. Numbered'
  <2>1. \A s \in sessions : s.id \in 1 .. n /\ s.from \in 0 .. n /\ s.from # s.id
    BY DEF AccessInv, Numbered, n
  <2>2. 1 .. n \subseteq 1 .. n + 1 /\ 0 .. n \subseteq 0 .. n + 1 /\ n + 1 \in 1 .. n + 1
    BY <1>5
  <2>3. x.id \in 1 .. n + 1 /\ x.from \in 0 .. n + 1 /\ x.from # x.id
    BY <1>5, <2>2
  <2>4. \A s \in sessions' : s.id \in 1 .. n + 1 /\ s.from \in 0 .. n + 1 /\ s.from # s.id
    BY <1>1, <2>1, <2>2, <2>3
  <2> QED BY <1>7, <2>4 DEF Numbered
<1>9. Locals'
  <2>1. request' = [q \in Clerks |-> request'[q]]
    BY <1>3 DEF AccessInv, Locals
  <2>2. 0 .. n \subseteq 0 .. n + 1
    BY <1>5
  <2>3. ASSUME NEW q \in Clerks PROVE Idle(q)' \/ Sound(request[q])'
    <3>1. CASE q = p
      BY <3>1, <1>3 DEF Idle
    <3>2. CASE q # p
      <4>1. Idle(q) \/ Sound(request[q])
        BY DEF AccessInv, Locals
      <4> QED BY <3>2, <4>1, <1>1, <1>4, <1>7, <2>2 DEF n, Idle, Sound, Issues,
           Exchanges, Member
    <3> QED BY <3>1, <3>2
  <2> QED BY <2>1, <2>3 DEF Locals
<1>10. /\ x.from # 0 => /\ x.from \in revoked
                        /\ \A s \in sessions : s.from # x.from
                        /\ \A q \in Clerks \ {p} :
                              ~ Idle(q) /\ Issues(request[q]) => request[q].session # x.from
  BY <1>1, <1>2, <1>5 DEF AccessInv, Exchanged
<1>11. Exchanged'
  <2>2. ASSUME NEW q \in Clerks, ~ Idle(q)', Issues(request[q])'
        PROVE  /\ q # p /\ request'[q] = request[q] /\ ~ Idle(q) /\ Issues(request[q])
    BY <2>2, <1>3, <1>4 DEF Idle, Issues
  <2> QED BY <1>1, <1>10, <2>2 DEF AccessInv, Exchanged
<1>12. SessionsAreSound'
  <2>1. \A s \in sessions : s.from # 0 => s.from # s.id /\ s.from \in revoked
    BY DEF AccessInv, SessionsAreSound
  <2>2. x.from # 0 => x.from # x.id
    BY <1>5
  <2>3. \A s \in sessions' : Member(s.tenant, s.user)'
    BY <1>1, <1>5 DEF AccessInv, SessionsAreSound, Member
  <2>4. \A s, y \in sessions' : s.from = y.from /\ s.from # 0 => s = y
    BY <1>1, <1>10 DEF AccessInv, SessionsAreSound
  <2> QED BY <1>1, <1>10, <2>1, <2>2, <2>3, <2>4 DEF SessionsAreSound
<1> QED BY <1>8, <1>9, <1>11, <1>12 DEF AccessInv

(* Every handler begins with a sound plan, whoever else is at work.        *)
LEMMA HandlersKeep == ASSUME AccessInv, NEW p \in Clerks, Handlers(p) PROVE AccessInv'
<1> DEFINE n == Cardinality(sessions)
<1>0. 0 \in 0 .. n /\ \A s \in sessions : s.id \in 0 .. n
  BY FS_CardinalityType DEF AccessInv, Numbered
<1>1. ASSUME NEW u \in Users, handleSetup(p, u) PROVE AccessInv'
  <2> DEFINE plan == <<"tenant", "user", "member", "home", "entity", "complete">>
  <2>1. plan \in Seq(Ordinary) /\ plan # <<>>
    BY DEF Ordinary
  <2> QED BY <1>0, <1>1, <2>1, BeginsOrdinary DEF handleSetup, Begin
<1>2. ASSUME NEW u \in Users, NEW a \in Users, NEW t \in Tenants,
             NEW g \in {NoTenant} \cup Tenants, NEW r \in {"admin", "user"},
             handleCreateUser(p, a, t, u, g, r)
      PROVE  AccessInv'
  <2> DEFINE plan == <<"user">> \o (IF g = NoTenant THEN <<"tenant">> ELSE <<"known">>)
                                \o <<"member", "home">>
  <2>1. plan \in Seq(Ordinary) /\ plan # <<>>
    <3>0. /\ <<"user">> \in Seq(Ordinary) /\ <<"member", "home">> \in Seq(Ordinary)
          /\ <<"tenant">> \in Seq(Ordinary) /\ <<"known">> \in Seq(Ordinary)
      BY DEF Ordinary
    <3>1. (IF g = NoTenant THEN <<"tenant">> ELSE <<"known">>) \in Seq(Ordinary)
      BY <3>0
    <3> DEFINE mid == IF g = NoTenant THEN <<"tenant">> ELSE <<"known">>
    <3> HIDE DEF mid
    <3>2. plan \in Seq(Ordinary) /\ Len(plan) >= 1
      BY <3>0, <3>1 DEF mid
    <3> QED BY <3>2
  <2>2. Opens(p, Request(u, g, 0, r, 0, plan))
    BY <1>2 DEF handleCreateUser, Begin
  <2> HIDE DEF plan
  <2> QED BY <1>0, <2>1, <2>2, BeginsOrdinary
<1>3. ASSUME NEW u \in Users, NEW a \in Users, NEW t \in Tenants, NEW e \in Entities,
             NEW r \in Roles, handleCreateMember(p, a, t, e, u, r)
      PROVE  AccessInv'
  <2> DEFINE plan == <<"staff", "look", "member">>
  <2>1. plan \in Seq(Ordinary) /\ plan # <<>>
    BY DEF Ordinary
  <2> QED BY <1>0, <1>3, <2>1, BeginsOrdinary DEF handleCreateMember, Begin
<1>4. ASSUME NEW u \in Users, handleRegister(p, u) PROVE AccessInv'
  BY <1>4, RegisterBegins
<1>5. ASSUME NEW u \in Users, NEW t \in {NoTenant} \cup Tenants, handleLogin(p, u, t)
      PROVE  AccessInv'
  BY <1>5, BeginsSession DEF handleLogin, resolveTenantForLogin
<1>6. ASSUME NEW u \in Users, NEW t \in Tenants, NEW x \in Tenants, handleSwitchTenant(p, u, t, x)
      PROVE  AccessInv'
  BY <1>6, BeginsSession DEF handleSwitchTenant, Begin
<1>7. ASSUME NEW s \in sessions, handleRefresh(p, s) PROVE AccessInv'
  BY <1>7, RefreshBegins
<1>8. ASSUME NEW s \in sessions, handleLogout(p, s) PROVE AccessInv'
  <2>1. <<"revoke">> \in Seq(Ordinary) /\ <<"revoke">> # <<>>
    BY DEF Ordinary
  <2> QED BY <1>0, <1>8, <2>1, BeginsOrdinary DEF handleLogout, Begin
<1> QED BY <1>1, <1>2, <1>3, <1>4, <1>5, <1>6, <1>7, <1>8 DEF Handlers

(* The admin command gives a member another role; nobody loses one.        *)
LEMMA ResetKeeps ==
  ASSUME AccessInv, NEW u \in Users, resetAdminPassword(u) PROVE AccessInv'
<1>1. UNCHANGED <<sessions, revoked, request>>
  BY DEF resetAdminPassword, tokens
<1>2. PICK t : members' = {m \in members : ~ (m.tenant = t /\ m.user = u)}
                              \cup {[tenant |-> t, user |-> u, role |-> "admin"]}
  BY DEF resetAdminPassword
<1>3. ASSUME NEW v, NEW w, Member(v, w) PROVE Member(v, w)'
  <2>1. PICK m \in members : m.tenant = v /\ m.user = w
    BY <1>3 DEF Member
  <2>2. CASE v = t /\ w = u
    <3>1. [tenant |-> t, user |-> u, role |-> "admin"] \in members'
      BY <1>2
    <3> QED BY <2>2, <3>1 DEF Member
  <2>3. CASE ~ (v = t /\ w = u)
    BY <1>2, <2>1, <2>3 DEF Member
  <2> QED BY <2>2, <2>3
<1> QED BY <1>1, <1>3, NobodyMoves

(* Requests of one statement, which revoke tokens at most.                 *)
LEMMA RestOfOfficeKeeps ==
  ASSUME AccessInv, UNCHANGED <<sessions, members, request>>, revoked \subseteq revoked'
  PROVE  AccessInv'
BY NobodyMoves DEF Member

(* Every statement of every request keeps the invariant.                   *)
LEMMA AccessInvStep == AccessInv /\ [AccessNext]_accessVars => AccessInv'
<1> SUFFICES ASSUME AccessInv, [AccessNext]_accessVars PROVE AccessInv'
  OBVIOUS
<1>1. CASE \E p \in Clerks : Handlers(p)
  BY <1>1, HandlersKeep
<1>2. CASE \E p \in Clerks : Statements(p)
  BY <1>2, StatementsKeep, ExchangeKeeps, IssueKeeps DEF Statements, OtherStatements
<1>3. CASE \E u \in Users, t \in Tenants : handleLogoutAll(u, t)
  BY <1>3, RestOfOfficeKeeps DEF handleLogoutAll, tenancy
<1>4. CASE \E u \in Users, t \in Tenants : Office(u, t)
  BY <1>4, RestOfOfficeKeeps DEF Office, Chart, handleCreateEntity, handleDeleteEntity,
     handleDeleteMember, handleUpdateMember, createAccount, updateAccount,
     deleteAccount, ChangeChart, tenancy, tokens
<1>5. CASE \E u \in Users : resetAdminPassword(u)
  BY <1>5, ResetKeeps
<1>7. CASE \E s \in seeds : SeedAccount(s)
  BY <1>7, RestOfOfficeKeeps DEF SeedAccount, tenancy, tokens
<1>6. CASE UNCHANGED accessVars
  BY <1>6, RestOfOfficeKeeps DEF accessVars, tenancy, tokens
<1> QED BY <1>1, <1>2, <1>3, <1>4, <1>5, <1>6, <1>7 DEF AccessNext

(* However many logins, refreshes, switches and logouts run side by side,  *)
(* a refresh token is exchanged once (RevokeIfActive), the session it      *)
(* stood for is gone, and a session's user is in its tenant.               *)
THEOREM TokensAreExchangedOnce == AccessSpec => []SessionsAreSound
<1>1. AccessInv => SessionsAreSound
  BY DEF AccessInv
<1> QED BY AccessInvInit, AccessInvStep, <1>1, PTL DEF AccessSpec

(***************************************************************************)
(* Who is a member of what.                                                *)
(***************************************************************************)

(* The plans, by the number of statements left: setup's, those of a user   *)
(* who is created, of a member who is, and of one token.                   *)
Setup6  == <<"tenant", "user", "member", "home", "entity", "complete">>
Setup5  == <<"user", "member", "home", "entity", "complete">>
Setup4  == <<"member", "home", "entity", "complete">>
Setup3  == <<"home", "entity", "complete">>
Setup2  == <<"entity", "complete">>
Setup1  == <<"complete">>
Found4  == <<"user", "tenant", "member", "home">>
Found3  == <<"tenant", "member", "home">>
Join4   == <<"user", "known", "member", "home">>
Join3   == <<"known", "member", "home">>
Join2   == <<"member", "home">>
Join1   == <<"home">>
Staff3  == <<"staff", "look", "member">>
Staff2  == <<"look", "member">>
Staff1  == <<"member">>
Renew2  == <<"exchange", "session">>
Renew1  == <<"session">>
Logout1 == <<"revoke">>

TeamPlans == {Setup6, Setup5, Setup4, Setup3, Setup2, Setup1, Found4, Found3, Join4, Join3, Join2,
              Join1, Staff3, Staff2, Staff1, Renew2, Renew1, Logout1}

(* On these plans the administrator exists; a tenant has been found; the   *)
(* user is in it; it is the user's default.                                *)
Appointing == {Setup4, Setup3, Setup2, Setup1}
Placed     == {Setup5, Join2, Join1, Staff3, Staff2, Staff1} \cup Appointing
Enrolled   == {Setup3, Setup2, Setup1, Join1}
Housed     == {Setup2, Setup1}
Enrolling  == {Staff2, Staff1}
Tokens     == {Renew2, Renew1, Logout1}

(* What a request has built so far, other requests leave standing.         *)
Fit(r) ==
    /\ r = Request(r.user, r.tenant, r.entity, r.role, r.session, r.todo)
    /\ r.todo \in TeamPlans
    /\ r.todo \notin Tokens => r.user \in Users
    /\ r.todo \in Placed => r.tenant \in Nat \ {NoTenant}
    /\ r.todo \in {Setup6, Setup5} => r.role = "admin"
    /\ r.todo \in Appointing => r.user \in admins
    /\ r.todo \in Enrolled => Member(r.tenant, r.user)
    /\ r.todo \in Housed => r.user \in Users /\ home[r.user] # NoTenant

RequestsFit ==
    /\ request = [p \in Clerks |-> request[p]]
    /\ \A p \in Clerks : Idle(p) \/ Fit(request[p])

(* Tenants are numbered from 1; a default tenant is one the user is in.    *)
HomesHold ==
    /\ tenants \in Nat /\ users \subseteq Users
    /\ home \in [Users -> Nat]
    /\ \A m \in members : m.tenant \in Nat \ {NoTenant}
    /\ \A u \in Users : home[u] # NoTenant => Member(home[u], u)
    /\ setupComplete => \E u \in admins \cap Users : home[u] # NoTenant

(* Entities are numbered in the order they are created, and staff is of    *)
(* one that has been.                                                      *)
EstateHolds ==
    /\ entityCount \in 0 .. MaxEntities
    /\ \A e \in entities : e.id \in 1 .. entityCount
    /\ \A e, x \in entities : e.id = x.id => e = x
    /\ \A s \in staff : s.entity \in 1 .. entityCount
    /\ charts = [e \in Entities |-> charts[e]]
    /\ \A e \in entities : HasCash(e.id)

(* Who serves an entity is in its tenant, was left half-way, or a request  *)
(* is about to write the membership.                                       *)
Enrols(p, t, u) ==
    /\ ~ Idle(p) /\ request[p].todo \in Enrolling
    /\ request[p].tenant = t /\ request[p].user = u

StaffBelongs ==
    \A s \in staff, e \in entities : s.entity = e.id =>
        \/ Member(e.tenant, s.user) \/ s.user \in half
        \/ \E p \in Clerks : Enrols(p, e.tenant, s.user)

TeamInv == RequestsFit /\ HomesHold /\ EstateHolds /\ StaffBelongs

(* Before setup there is nobody and nothing.                               *)
LEMMA TeamInvInit == AccessInit => TeamInv
<1> SUFFICES ASSUME AccessInit PROVE TeamInv
  OBVIOUS
<1>1. RequestsFit
  BY DEF AccessInit, RequestsFit, Idle
<1>2. HomesHold
  BY DEF AccessInit, HomesHold, NoTenant, DefaultTenant
<1>3. EstateHolds /\ StaffBelongs
  BY AccessConstants DEF AccessInit, EstateHolds, StaffBelongs
<1> QED BY <1>1, <1>2, <1>3 DEF TeamInv

(* Every plan's first statement, its length and what is left of it.        *)
LEMMA PlanSteps ==
  /\ Head(Setup6) = "tenant" /\ Len(Setup6) = 6 /\ Tail(Setup6) = Setup5
  /\ Head(Setup5) = "user" /\ Len(Setup5) = 5 /\ Tail(Setup5) = Setup4
  /\ Head(Setup4) = "member" /\ Len(Setup4) = 4 /\ Tail(Setup4) = Setup3
  /\ Head(Setup3) = "home" /\ Len(Setup3) = 3 /\ Tail(Setup3) = Setup2
  /\ Head(Setup2) = "entity" /\ Len(Setup2) = 2 /\ Tail(Setup2) = Setup1
  /\ Head(Setup1) = "complete" /\ Len(Setup1) = 1
  /\ Head(Found4) = "user" /\ Len(Found4) = 4 /\ Tail(Found4) = Found3
  /\ Head(Found3) = "tenant" /\ Len(Found3) = 3 /\ Tail(Found3) = Join2
  /\ Head(Join4) = "user" /\ Len(Join4) = 4 /\ Tail(Join4) = Join3
  /\ Head(Join3) = "known" /\ Len(Join3) = 3 /\ Tail(Join3) = Join2
  /\ Head(Join2) = "member" /\ Len(Join2) = 2 /\ Tail(Join2) = Join1
  /\ Head(Join1) = "home" /\ Len(Join1) = 1
  /\ Head(Staff3) = "staff" /\ Len(Staff3) = 3 /\ Tail(Staff3) = Staff2
  /\ Head(Staff2) = "look" /\ Len(Staff2) = 2 /\ Tail(Staff2) = Staff1
  /\ Head(Staff1) = "member" /\ Len(Staff1) = 1
  /\ Head(Renew2) = "exchange" /\ Len(Renew2) = 2 /\ Tail(Renew2) = Renew1
  /\ Head(Renew1) = "session" /\ Len(Renew1) = 1
  /\ Head(Logout1) = "revoke" /\ Len(Logout1) = 1
<1>1. Head(Setup6) = "tenant" /\ Len(Setup6) = 6 /\ Tail(Setup6) = Setup5
  BY DEF Setup6, Setup5
<1>2. Head(Setup5) = "user" /\ Len(Setup5) = 5 /\ Tail(Setup5) = Setup4
  BY DEF Setup5, Setup4
<1>3. Head(Setup4) = "member" /\ Len(Setup4) = 4 /\ Tail(Setup4) = Setup3
  BY DEF Setup4, Setup3
<1>4. Head(Setup3) = "home" /\ Len(Setup3) = 3 /\ Tail(Setup3) = Setup2
  BY DEF Setup3, Setup2
<1>5. Head(Setup2) = "entity" /\ Len(Setup2) = 2 /\ Tail(Setup2) = Setup1
  BY DEF Setup2, Setup1
<1>6. Head(Setup1) = "complete" /\ Len(Setup1) = 1
  BY DEF Setup1
<1>7. Head(Found4) = "user" /\ Len(Found4) = 4 /\ Tail(Found4) = Found3
  BY DEF Found4, Found3
<1>8. Head(Found3) = "tenant" /\ Len(Found3) = 3 /\ Tail(Found3) = Join2
  BY DEF Found3, Join2
<1>9. Head(Join4) = "user" /\ Len(Join4) = 4 /\ Tail(Join4) = Join3
  BY DEF Join4, Join3
<1>10. Head(Join3) = "known" /\ Len(Join3) = 3 /\ Tail(Join3) = Join2
  BY DEF Join3, Join2
<1>11. Head(Join2) = "member" /\ Len(Join2) = 2 /\ Tail(Join2) = Join1
  BY DEF Join2, Join1
<1>12. Head(Join1) = "home" /\ Len(Join1) = 1
  BY DEF Join1
<1>13. Head(Staff3) = "staff" /\ Len(Staff3) = 3 /\ Tail(Staff3) = Staff2
  BY DEF Staff3, Staff2
<1>14. Head(Staff2) = "look" /\ Len(Staff2) = 2 /\ Tail(Staff2) = Staff1
  BY DEF Staff2, Staff1
<1>15. Head(Staff1) = "member" /\ Len(Staff1) = 1
  BY DEF Staff1
<1>16. Head(Renew2) = "exchange" /\ Len(Renew2) = 2 /\ Tail(Renew2) = Renew1
  BY DEF Renew2, Renew1
<1>17. Head(Renew1) = "session" /\ Len(Renew1) = 1
  BY DEF Renew1
<1>18. Head(Logout1) = "revoke" /\ Len(Logout1) = 1
  BY DEF Logout1
<1> QED BY <1>1, <1>2, <1>3, <1>4, <1>5, <1>6, <1>7, <1>8, <1>9,
           <1>10, <1>11, <1>12, <1>13, <1>14, <1>15, <1>16, <1>17, <1>18

(* A plan that goes on, and one of a single statement.                     *)
Leads(todo, plan, rest) == todo = plan /\ Len(todo) # 1 /\ Tail(todo) = rest
Ends(todo, plan)      == todo = plan /\ Len(todo) = 1

(* The plans a statement may stand first in, and what comes after it.      *)
LEMMA NextPlan ==
  ASSUME NEW todo \in TeamPlans
  PROVE /\ Head(todo) = "tenant" =>
              \/ Leads(todo, Setup6, Setup5)
              \/ Leads(todo, Found3, Join2)
        /\ Head(todo) = "known" => Leads(todo, Join3, Join2)
        /\ Head(todo) = "user" =>
              \/ Leads(todo, Setup5, Setup4)
              \/ Leads(todo, Found4, Found3)
              \/ Leads(todo, Join4, Join3)
        /\ Head(todo) = "home" =>
              \/ Leads(todo, Setup3, Setup2)
              \/ Ends(todo, Join1)
        /\ Head(todo) = "member" =>
              \/ Leads(todo, Setup4, Setup3)
              \/ Leads(todo, Join2, Join1)
              \/ Ends(todo, Staff1)
        /\ Head(todo) = "entity" => Leads(todo, Setup2, Setup1)
        /\ Head(todo) = "complete" => Ends(todo, Setup1)
        /\ Head(todo) = "staff" => Leads(todo, Staff3, Staff2)
        /\ Head(todo) = "look" => Leads(todo, Staff2, Staff1)
        /\ Head(todo) = "exchange" => Leads(todo, Renew2, Renew1)
        /\ Head(todo) = "session" => Ends(todo, Renew1)
        /\ Head(todo) = "revoke" => Ends(todo, Logout1)
<1>1. ASSUME Head(todo) = "tenant" PROVE Leads(todo, Setup6, Setup5) \/ Leads(todo, Found3, Join2)
  <2>1. todo = Setup6 \/ todo = Found3
    BY <1>1, PlanSteps DEF TeamPlans
  <2>2. CASE todo = Setup6
    BY <2>2, PlanSteps DEF Leads, Ends
  <2>3. CASE todo = Found3
    BY <2>3, PlanSteps DEF Leads, Ends
  <2> QED BY <2>1, <2>2, <2>3
<1>2. ASSUME Head(todo) = "known" PROVE Leads(todo, Join3, Join2)
  <2>1. todo = Join3
    BY <1>2, PlanSteps DEF TeamPlans
  <2> QED BY <2>1, PlanSteps DEF Leads, Ends
<1>3. ASSUME Head(todo) = "user" 
      PROVE  \/ Leads(todo, Setup5, Setup4) \/ Leads(todo, Found4, Found3)
             \/ Leads(todo, Join4, Join3)
  <2>1. todo = Setup5 \/ todo = Found4 \/ todo = Join4
    BY <1>3, PlanSteps DEF TeamPlans
  <2>2. CASE todo = Setup5
    BY <2>2, PlanSteps DEF Leads, Ends
  <2>3. CASE todo = Found4
    BY <2>3, PlanSteps DEF Leads, Ends
  <2>4. CASE todo = Join4
    BY <2>4, PlanSteps DEF Leads, Ends
  <2> QED BY <2>1, <2>2, <2>3, <2>4
<1>4. ASSUME Head(todo) = "home" PROVE Leads(todo, Setup3, Setup2) \/ Ends(todo, Join1)
  <2>1. todo = Setup3 \/ todo = Join1
    BY <1>4, PlanSteps DEF TeamPlans
  <2>2. CASE todo = Setup3
    BY <2>2, PlanSteps DEF Leads, Ends
  <2>3. CASE todo = Join1
    BY <2>3, PlanSteps DEF Leads, Ends
  <2> QED BY <2>1, <2>2, <2>3
<1>5. ASSUME Head(todo) = "member" 
      PROVE  \/ Leads(todo, Setup4, Setup3) \/ Leads(todo, Join2, Join1)
             \/ Ends(todo, Staff1)
  <2>1. todo = Setup4 \/ todo = Join2 \/ todo = Staff1
    BY <1>5, PlanSteps DEF TeamPlans
  <2>2. CASE todo = Setup4
    BY <2>2, PlanSteps DEF Leads, Ends
  <2>3. CASE todo = Join2
    BY <2>3, PlanSteps DEF Leads, Ends
  <2>4. CASE todo = Staff1
    BY <2>4, PlanSteps DEF Leads, Ends
  <2> QED BY <2>1, <2>2, <2>3, <2>4
<1>6. ASSUME Head(todo) = "entity" PROVE Leads(todo, Setup2, Setup1)
  <2>1. todo = Setup2
    BY <1>6, PlanSteps DEF TeamPlans
  <2> QED BY <2>1, PlanSteps DEF Leads, Ends
<1>7. ASSUME Head(todo) = "complete" PROVE Ends(todo, Setup1)
  <2>1. todo = Setup1
    BY <1>7, PlanSteps DEF TeamPlans
  <2> QED BY <2>1, PlanSteps DEF Leads, Ends
<1>8. ASSUME Head(todo) = "staff" PROVE Leads(todo, Staff3, Staff2)
  <2>1. todo = Staff3
    BY <1>8, PlanSteps DEF TeamPlans
  <2> QED BY <2>1, PlanSteps DEF Leads, Ends
<1>9. ASSUME Head(todo) = "look" PROVE Leads(todo, Staff2, Staff1)
  <2>1. todo = Staff2
    BY <1>9, PlanSteps DEF TeamPlans
  <2> QED BY <2>1, PlanSteps DEF Leads, Ends
<1>10. ASSUME Head(todo) = "exchange" PROVE Leads(todo, Renew2, Renew1)
  <2>1. todo = Renew2
    BY <1>10, PlanSteps DEF TeamPlans
  <2> QED BY <2>1, PlanSteps DEF Leads, Ends
<1>11. ASSUME Head(todo) = "session" PROVE Ends(todo, Renew1)
  <2>1. todo = Renew1
    BY <1>11, PlanSteps DEF TeamPlans
  <2> QED BY <2>1, PlanSteps DEF Leads, Ends
<1>12. ASSUME Head(todo) = "revoke" PROVE Ends(todo, Logout1)
  <2>1. todo = Logout1
    BY <1>12, PlanSteps DEF TeamPlans
  <2> QED BY <2>1, PlanSteps DEF Leads, Ends
<1> QED BY <1>1, <1>2, <1>3, <1>4, <1>5, <1>6, <1>7, <1>8, <1>9, <1>10, <1>11, <1>12

(* A plan is told from another by its first statement and its length.      *)
LEMMA PlansApart ==
  /\ {Setup6, Setup5, Found4, Found3, Join4, Join3, Renew2, Renew1, Logout1}
        \cap (Appointing \cup Enrolled \cup Housed \cup Enrolling) = {}
  /\ {Setup6, Found4, Found3, Join4, Join3, Renew2, Renew1, Logout1} \cap Placed = {}
  /\ {Join2, Join1, Staff3, Staff2, Staff1} \cap (Appointing \cup Housed) = {}
  /\ {Setup4, Join2, Staff3, Staff2, Staff1} \cap (Enrolled \cup Housed) = {}
  /\ {Setup3, Join1} \cap (Housed \cup Enrolling) = {}
  /\ {Setup4, Setup3, Setup2, Setup1, Join2, Join1, Staff3} \cap Enrolling = {}
  /\ (Appointing \cup Enrolling \cup {Found4, Found3, Join4, Join3, Join2, Join1, Staff3, Renew2,
        Renew1, Logout1}) \cap {Setup6, Setup5} = {}
  /\ (Appointing \cup Enrolling \cup {Setup6, Setup5, Found4, Found3, Join4, Join3, Join2, Join1,
        Staff3}) \cap Tokens = {}
BY PlanSteps DEF Appointing, Enrolled, Housed, Enrolling, Placed, Tokens

(* Members, administrators and default tenants are not lost.               *)
Kept ==
    /\ \A t, u : Member(t, u) => Member(t, u)'
    /\ admins \subseteq admins'
    /\ \A u \in Users : home[u] # NoTenant => home'[u] # NoTenant

(* Nor are they when nothing is written to them.                          *)
LEMMA KeptUnchanged == ASSUME UNCHANGED <<admins, home, members>> PROVE Kept
BY DEF Kept, Member

(* The other requests stand while p takes a step.                          *)
LEMMA RequestsStay ==
  ASSUME RequestsFit, Kept, NEW p \in Clerks,
         request' = [request EXCEPT ![p] = request'[p]],
         request'[p] = Resting \/ Fit(request[p])'
  PROVE  RequestsFit'
<1>1. \A q \in Clerks \ {p} : request'[q] = request[q]
  BY DEF RequestsFit
<1>2. request' = [q \in Clerks |-> request'[q]]
  BY DEF RequestsFit
<1>3. ASSUME NEW q \in Clerks PROVE Idle(q)' \/ Fit(request[q])'
  <2>1. CASE q = p
    BY <2>1 DEF Idle, Resting
  <2>2. CASE q # p
    <3>1. request'[q] = request[q]
      BY <1>1, <2>2
    <3>2. CASE Idle(q)
      BY <3>1, <3>2 DEF Idle, Resting
    <3>3. CASE Fit(request[q])
      <4> DEFINE r == request[q]
      <4>1. Fit(r) /\ r \in {request[q], request'[q]}
        BY <3>3
      <4> QED BY <3>1, <3>3 DEF Fit, Kept, Request
    <3> QED BY <3>2, <3>3 DEF RequestsFit
  <2> QED BY <2>1, <2>2
<1> QED BY <1>2, <1>3 DEF RequestsFit

(* With nobody's request changed they all stand.                           *)
LEMMA RequestsRest ==
  ASSUME RequestsFit, Kept, UNCHANGED request PROVE RequestsFit'
<1>1. request' = [q \in Clerks |-> request'[q]]
  BY DEF RequestsFit
<1>2. ASSUME NEW q \in Clerks, Fit(request[q]) PROVE Fit(request[q])'
  BY <1>2 DEF Fit, Kept, Request
<1> QED BY <1>1, <1>2 DEF RequestsFit, Idle, Resting

(* What is left of a request once its first statement is done.             *)
LEMMA RestOf ==
  ASSUME NEW u, NEW t, NEW e, NEW r, NEW s, NEW todo
  PROVE  Rest(Request(u, t, e, r, s, todo)) =
            IF Len(todo) = 1 THEN Resting ELSE Request(u, t, e, r, s, Tail(todo))
<1> DEFINE x == Request(u, t, e, r, s, todo)
<1>1. x.todo = todo
  BY DEF Request
<1>2. \A w : [x EXCEPT !.todo = w] = Request(u, t, e, r, s, w)
  BY DEF Request
<1> HIDE DEF x
<1>3. Rest(x) = IF Len(todo) = 1 THEN Resting ELSE Request(u, t, e, r, s, Tail(todo))
  BY <1>1, <1>2 DEF Rest
<1> QED BY <1>3 DEF x

(* The locals of a request are what they are.                              *)
LEMMA Fields ==
  ASSUME NEW u, NEW t, NEW e, NEW r, NEW s, NEW todo, NEW x, x = Request(u, t, e, r, s, todo)
  PROVE  /\ x = Request(x.user, x.tenant, x.entity, x.role, x.session, x.todo)
         /\ x.user = u /\ x.tenant = t /\ x.entity = e /\ x.role = r /\ x.session = s
         /\ x.todo = todo
BY DEF Request

(* p goes on with what is left of its plan, of tenant t.                   *)
GoesOn(p, t) ==
    /\ Len(request[p].todo) # 1
    /\ request'[p] = Request(request'[p].user, request'[p].tenant, request'[p].entity,
                             request'[p].role, request'[p].session, request'[p].todo)
    /\ request'[p].todo = Tail(request[p].todo)
    /\ request'[p].user = request[p].user /\ request'[p].role = request[p].role
    /\ request'[p].tenant = t

(* A statement that is done, a tenant created or not, leads to the next    *)
(* one of the plan, or to the end.                                         *)
LEMMA Advances ==
  ASSUME RequestsFit, NEW p \in Clerks, ~ Idle(p), NEW t,
         request' = [request EXCEPT ![p] = Rest([@ EXCEPT !.tenant = t])]
  PROVE  /\ request' = [request EXCEPT ![p] = request'[p]]
         /\ \/ Len(request[p].todo) = 1 /\ request'[p] = Resting
            \/ GoesOn(p, t)
<1> DEFINE r == request[p]
<1>1. Fit(r)
  BY DEF RequestsFit
<1>2. [r EXCEPT !.tenant = t] = Request(r.user, t, r.entity, r.role, r.session, r.todo)
  BY <1>1 DEF Fit, Request
<1>3. request'[p] = Rest([r EXCEPT !.tenant = t])
  BY DEF RequestsFit
<1> HIDE DEF r
<1>4. request'[p] = IF Len(r.todo) = 1 THEN Resting
                    ELSE Request(r.user, t, r.entity, r.role, r.session, Tail(r.todo))
  BY <1>2, <1>3, RestOf
<1>5. request' = [request EXCEPT ![p] = request'[p]]
  BY <1>3 DEF RequestsFit
<1>6. ASSUME Len(r.todo) # 1 PROVE GoesOn(p, t)
  <2>1. request'[p] = Request(r.user, t, r.entity, r.role, r.session, Tail(r.todo))
    BY <1>4, <1>6
  <2> QED BY <1>6, <2>1, Fields DEF r, GoesOn
<1> QED BY <1>4, <1>5, <1>6 DEF r

(* So it does when an entity has been created.                             *)
LEMMA AdvancesOf ==
  ASSUME RequestsFit, NEW p \in Clerks, ~ Idle(p), NEW e,
         request' = [request EXCEPT ![p] = Rest([@ EXCEPT !.entity = e])]
  PROVE  /\ request' = [request EXCEPT ![p] = request'[p]]
         /\ \/ Len(request[p].todo) = 1 /\ request'[p] = Resting
            \/ GoesOn(p, request[p].tenant)
<1> DEFINE r == request[p]
<1>1. Fit(r)
  BY DEF RequestsFit
<1>2. [r EXCEPT !.entity = e] = Request(r.user, r.tenant, e, r.role, r.session, r.todo)
  BY <1>1 DEF Fit, Request
<1>3. request'[p] = Rest([r EXCEPT !.entity = e])
  BY DEF RequestsFit
<1> HIDE DEF r
<1>4. request'[p] = IF Len(r.todo) = 1 THEN Resting
                    ELSE Request(r.user, r.tenant, e, r.role, r.session, Tail(r.todo))
  BY <1>2, <1>3, RestOf
<1>5. request' = [request EXCEPT ![p] = request'[p]]
  BY <1>3 DEF RequestsFit
<1>6. ASSUME Len(r.todo) # 1 PROVE GoesOn(p, r.tenant)
  <2>1. request'[p] = Request(r.user, r.tenant, e, r.role, r.session, Tail(r.todo))
    BY <1>4, <1>6
  <2> QED BY <1>6, <2>1, Fields DEF r, GoesOn
<1> QED BY <1>4, <1>5, <1>6 DEF r

(* So it does of the tenant it had.                                        *)
LEMMA AdvancesOn ==
  ASSUME RequestsFit, NEW p \in Clerks, ~ Idle(p), Advance(p)
  PROVE  /\ request' = [request EXCEPT ![p] = request'[p]]
         /\ \/ Len(request[p].todo) = 1 /\ request'[p] = Resting
            \/ GoesOn(p, request[p].tenant)
<1> DEFINE r == request[p]
<1>1. r = Request(r.user, r.tenant, r.entity, r.role, r.session, r.todo)
  BY DEF RequestsFit, Fit
<1>2. request'[p] = Rest(r) /\ request' = [request EXCEPT ![p] = request'[p]]
  BY DEF RequestsFit, Advance
<1> HIDE DEF r
<1>3. request'[p] = IF Len(r.todo) = 1 THEN Resting
                    ELSE Request(r.user, r.tenant, r.entity, r.role, r.session, Tail(r.todo))
  BY <1>1, <1>2, RestOf
<1>4. ASSUME Len(r.todo) # 1 PROVE GoesOn(p, r.tenant)
  <2>1. request'[p] = Request(r.user, r.tenant, r.entity, r.role, r.session, Tail(r.todo))
    BY <1>3, <1>4
  <2> QED BY <1>4, <2>1, Fields DEF r, GoesOn
<1> QED BY <1>2, <1>3, <1>4 DEF r

(* Staff stays in its tenant while members are not lost, if the request p  *)
(* that was to write a membership has written it, goes on or has failed.   *)
LEMMA StaffStays ==
  ASSUME StaffBelongs, Kept, NEW p \in Clerks, half \subseteq half', entities' \subseteq entities,
         \A s \in staff' : \E x \in staff : x.entity = s.entity /\ x.user = s.user,
         \A q \in Clerks \ {p} : request'[q] = request[q],
         \A t, u : Enrols(p, t, u) => Member(t, u)' \/ u \in half' \/ Enrols(p, t, u)'
  PROVE  StaffBelongs'
<1> SUFFICES ASSUME NEW s \in staff', NEW e \in entities', s.entity = e.id
             PROVE  \/ Member(e.tenant, s.user)' \/ s.user \in half'
                    \/ \E q \in Clerks : Enrols(q, e.tenant, s.user)'
  BY DEF StaffBelongs
<1>1. PICK x \in staff : x.entity = s.entity /\ x.user = s.user
  OBVIOUS
<1>2. \/ Member(e.tenant, s.user) \/ s.user \in half
      \/ \E q \in Clerks : Enrols(q, e.tenant, s.user)
  BY <1>1 DEF StaffBelongs
<1>3. ASSUME NEW q \in Clerks, Enrols(q, e.tenant, s.user)
      PROVE  \/ Member(e.tenant, s.user)' \/ s.user \in half'
             \/ \E o \in Clerks : Enrols(o, e.tenant, s.user)'
  <2>1. CASE q = p
    BY <1>3, <2>1
  <2>2. CASE q # p
    <3>1. request'[q] = request[q]
      BY <2>2
    <3>2. Enrols(q, e.tenant, s.user)'
      BY <1>3, <3>1 DEF Enrols, Idle, Resting
    <3> QED BY <3>2
  <2> QED BY <2>1, <2>2
<1> QED BY <1>2, <1>3 DEF Kept

(* The homes, when nothing of theirs changes.                              *)
LEMMA HomesStay ==
  ASSUME HomesHold, UNCHANGED <<people, tenancy, setupComplete>> PROVE HomesHold' /\ Kept
BY KeptUnchanged DEF HomesHold, people, tenancy, Member

(* The estate, when nothing of its changes.                                *)
LEMMA EstateStays ==
  ASSUME EstateHolds, UNCHANGED <<estate, bare>> PROVE EstateHolds'
BY DEF EstateHolds, estate, HasCash

(* The client is gone half-way: its user may be left out of its tenant.    *)
LEMMA FailureKeepsTeams ==
  ASSUME TeamInv, NEW p \in Clerks, StatementFails(p) PROVE TeamInv'
<1>1. HomesHold' /\ Kept
  BY HomesStay DEF TeamInv, StatementFails
<1>2. EstateHolds'
  BY EstateStays DEF TeamInv, StatementFails
<1>3. request' = [request EXCEPT ![p] = request'[p]] /\ request'[p] = Resting
  BY DEF TeamInv, RequestsFit, StatementFails, Stop
<1>4. RequestsFit'
  BY <1>1, <1>3, RequestsStay DEF TeamInv
<1>5. StaffBelongs'
  <2>1. \A q \in Clerks \ {p} : request'[q] = request[q]
    BY <1>3 DEF TeamInv, RequestsFit
  <2>2. \A t, u : Enrols(p, t, u) => u \in half'
    BY DEF StatementFails, Enrols
  <2>3. half \subseteq half' /\ staff' = staff /\ entities' = entities
    BY DEF StatementFails, estate
  <2> QED BY <1>1, <2>1, <2>2, <2>3, StaffStays DEF TeamInv
<1> QED BY <1>1, <1>2, <1>4, <1>5 DEF TeamInv

(* A statement of a plan that does not enrol staff leaves staff where it   *)
(* belongs.                                                                *)
LEMMA StaffUndisturbed ==
  ASSUME RequestsFit, StaffBelongs, Kept, NEW p \in Clerks, request[p].todo \notin Enrolling,
         request' = [request EXCEPT ![p] = request'[p]],
         UNCHANGED <<staff, entities>>, half \subseteq half'
  PROVE  StaffBelongs'
<1>1. \A q \in Clerks \ {p} : request'[q] = request[q]
  BY DEF RequestsFit
<1>2. \A t, u : ~ Enrols(p, t, u)
  BY DEF Enrols
<1> QED BY <1>1, <1>2, StaffStays

(* A request that stands at a statement fits a plan that goes on with it.   *)
LEMMA StandsAt ==
  ASSUME RequestsFit, NEW p \in Clerks, NEW s, At(p, s)
  PROVE  /\ ~ Idle(p) /\ Fit(request[p])
         /\ request[p].todo \in TeamPlans /\ Head(request[p].todo) = s
BY DEF RequestsFit, At, Fit

(* A tenant of its own for the request.                                    *)
LEMMA CreateTenantKeepsTeams ==
  ASSUME TeamInv, NEW p \in Clerks, CreateTenant(p) PROVE TeamInv'
<1> DEFINE r == request[p]
<1>0. At(p, "tenant")
  BY DEF CreateTenant
<1>1. /\ Fit(r) /\ ~ Idle(p)
      /\ Leads(r.todo, Setup6, Setup5) \/ Leads(r.todo, Found3, Join2)
  <2>1. ~ Idle(p) /\ Fit(r) /\ r.todo \in TeamPlans /\ Head(r.todo) = "tenant"
    BY <1>0, StandsAt DEF TeamInv
  <2> HIDE DEF r
  <2>2. Leads(r.todo, Setup6, Setup5) \/ Leads(r.todo, Found3, Join2)
    BY <2>1, NextPlan
  <2> QED BY <2>1, <2>2
<1>2. HomesHold' /\ Kept
  BY KeptUnchanged DEF TeamInv, HomesHold, CreateTenant, people, Member
<1>3. EstateHolds'
  BY EstateStays DEF TeamInv, CreateTenant, history
<1>4. request' = [request EXCEPT ![p] = request'[p]] /\ GoesOn(p, tenants + 1)
  <2>1. request' = [request EXCEPT ![p] = Rest([@ EXCEPT !.tenant = tenants + 1])]
    BY DEF CreateTenant
  <2> QED BY <1>1, <2>1, Advances DEF TeamInv, Leads
<1>5. Fit(request[p])'
  <2>1. tenants + 1 \in Nat \ {NoTenant}
    BY DEF TeamInv, HomesHold, NoTenant
  <2>2. Tail(r.todo) \in {Setup5, Join2} /\ (Tail(r.todo) = Setup5 => r.role = "admin")
    BY <1>1, PlansApart DEF Fit, Leads
  <2>3. r.user \in Users
    BY <1>1, PlansApart DEF Fit, Leads
  <2> QED BY <1>1, <1>4, <2>1, <2>2, <2>3, PlansApart DEF Fit, GoesOn, TeamPlans
<1>6. RequestsFit'
  BY <1>2, <1>4, <1>5, RequestsStay DEF TeamInv
<1>7. StaffBelongs'
  <2>1. r.todo \notin Enrolling
    BY <1>1, PlansApart DEF Leads
  <2> QED BY <1>2, <1>4, <2>1, StaffUndisturbed DEF TeamInv, CreateTenant, estate, history
<1> QED BY <1>2, <1>3, <1>6, <1>7 DEF TeamInv

(* A request that stops has written its membership, or was left half-way.  *)
LEMMA StopKeepsTeams ==
  ASSUME RequestsFit, StaffBelongs, Kept, NEW p \in Clerks, Stop(p), half \subseteq half',
         UNCHANGED <<staff, entities>>,
         \A t, u : Enrols(p, t, u) => Member(t, u)' \/ u \in half'
  PROVE  RequestsFit' /\ StaffBelongs'
<1>1. request' = [request EXCEPT ![p] = request'[p]] /\ request'[p] = Resting
  BY DEF RequestsFit, Stop
<1>2. \A q \in Clerks \ {p} : request'[q] = request[q]
  BY <1>1 DEF RequestsFit
<1> QED BY <1>1, <1>2, RequestsStay, StaffStays

(* Or it goes on with a plan that fits what it has built.                  *)
LEMMA TurnKeepsTeams ==
  ASSUME RequestsFit, StaffBelongs, Kept, NEW p \in Clerks, request[p].todo \notin Enrolling,
         request' = [request EXCEPT ![p] = request'[p]],
         request'[p] = Resting \/ Fit(request[p])',
         half \subseteq half', UNCHANGED <<staff, entities>>
  PROVE  RequestsFit' /\ StaffBelongs'
BY RequestsStay, StaffUndisturbed

(* The tenant the client named is one there is.                            *)
LEMMA FindTenantKeepsTeams ==
  ASSUME TeamInv, NEW p \in Clerks, FindTenant(p) PROVE TeamInv'
<1> DEFINE r == request[p]
<1>1. /\ Fit(r) /\ ~ Idle(p) /\ Leads(r.todo, Join3, Join2)
  <2>1. ~ Idle(p) /\ Fit(r) /\ r.todo \in TeamPlans /\ Head(r.todo) = "known"
    BY StandsAt DEF TeamInv, FindTenant
  <2> HIDE DEF r
  <2> QED BY <2>1, NextPlan
<1>2. HomesHold' /\ Kept /\ EstateHolds'
  BY HomesStay, EstateStays DEF TeamInv, FindTenant
<1>3. r.todo \notin Enrolling
  BY <1>1, PlansApart DEF Leads
<1>4. half \subseteq half' /\ UNCHANGED <<staff, entities>>
  BY DEF FindTenant, estate
<1>5. CASE Stop(p)
  <2>1. RequestsFit' /\ StaffBelongs'
    BY <1>2, <1>3, <1>4, <1>5, StopKeepsTeams DEF TeamInv, Enrols
  <2> QED BY <1>2, <2>1 DEF TeamInv
<1>6. CASE r.tenant \in 1 .. tenants /\ Advance(p)
  <2>1. request' = [request EXCEPT ![p] = request'[p]] /\ GoesOn(p, r.tenant)
    BY <1>1, <1>6, AdvancesOn DEF TeamInv, Leads
  <2>2. r.tenant \in Nat \ {NoTenant}
    BY <1>6 DEF TeamInv, HomesHold, NoTenant
  <2>3. Fit(request[p])'
    BY <1>1, <2>1, <2>2, PlansApart DEF Fit, GoesOn, TeamPlans, Leads
  <2>4. RequestsFit' /\ StaffBelongs'
    BY <1>2, <1>3, <1>4, <2>1, <2>3, TurnKeepsTeams DEF TeamInv
  <2> QED BY <1>2, <2>4 DEF TeamInv
<1> QED BY <1>5, <1>6 DEF FindTenant

(* The administrator of a setup exists once its user has been created.     *)
LEMMA CreateUserKeepsTeams ==
  ASSUME TeamInv, NEW p \in Clerks, CreateUser(p) PROVE TeamInv'
<1> DEFINE r == request[p]
<1>1. /\ Fit(r) /\ ~ Idle(p)
      /\ \/ Leads(r.todo, Setup5, Setup4) \/ Leads(r.todo, Found4, Found3)
         \/ Leads(r.todo, Join4, Join3)
  <2>1. ~ Idle(p) /\ Fit(r) /\ r.todo \in TeamPlans /\ Head(r.todo) = "user"
    BY StandsAt DEF TeamInv, CreateUser
  <2> HIDE DEF r
  <2>2. \/ Leads(r.todo, Setup5, Setup4) \/ Leads(r.todo, Found4, Found3)
        \/ Leads(r.todo, Join4, Join3)
    BY <2>1, NextPlan
  <2> QED BY <2>1, <2>2
<1>2. r.todo \notin Enrolling
  BY <1>1, PlansApart DEF Leads
<1>3. EstateHolds' /\ half' = half /\ UNCHANGED <<staff, entities>>
  BY EstateStays DEF TeamInv, CreateUser, history, estate
<1>4. CASE Stop(p) /\ UNCHANGED people
  <2>1. HomesHold' /\ Kept
    BY <1>4, HomesStay DEF TeamInv, CreateUser
  <2>2. RequestsFit' /\ StaffBelongs'
    BY <1>2, <1>3, <1>4, <2>1, StopKeepsTeams DEF TeamInv, Enrols
  <2> QED BY <1>3, <2>1, <2>2 DEF TeamInv
<1>5. CASE /\ users' = users \cup {r.user}
           /\ admins' = IF r.role = "admin" THEN admins \cup {r.user} ELSE admins
           /\ UNCHANGED home /\ Advance(p)
  <2>1. HomesHold' /\ Kept
    <3>1. Kept
      BY <1>5 DEF Kept, CreateUser, tenancy, Member
    <3>2. r.user \in Users
      BY <1>1, PlansApart DEF Fit, Leads
    <3> QED BY <1>5, <3>1, <3>2 DEF TeamInv, HomesHold, CreateUser, tenancy, Member, Kept
  <2>2. request' = [request EXCEPT ![p] = request'[p]] /\ GoesOn(p, r.tenant)
    BY <1>1, <1>5, AdvancesOn DEF TeamInv, Leads
  <2>3. Fit(request[p])'
    <3>1. CASE Leads(r.todo, Setup5, Setup4)
      <4>1. r.role = "admin" /\ r.tenant \in Nat \ {NoTenant}
        BY <1>1, <3>1 DEF Fit, Leads, Placed
      <4>2. r.user \in admins'
        BY <1>5, <4>1
      <4> QED BY <1>1, <2>2, <3>1, <4>1, <4>2, PlansApart DEF Fit, GoesOn, TeamPlans, Leads
    <3>2. CASE Leads(r.todo, Found4, Found3) \/ Leads(r.todo, Join4, Join3)
      BY <1>1, <2>2, <3>2, PlansApart DEF Fit, GoesOn, TeamPlans, Leads
    <3> QED BY <1>1, <3>1, <3>2
  <2>4. RequestsFit' /\ StaffBelongs'
    BY <1>2, <1>3, <2>1, <2>2, <2>3, TurnKeepsTeams DEF TeamInv
  <2> QED BY <1>3, <2>1, <2>4 DEF TeamInv
<1> QED BY <1>4, <1>5 DEF CreateUser

(* The membership that setup, a created user or new staff waits for.       *)
LEMMA MembershipKeepsTeams ==
  ASSUME TeamInv, NEW p \in Clerks, CreateTenantMember(p) PROVE TeamInv'
<1> DEFINE r == request[p]
<1>0. PICK t, u : t = r.tenant /\ u = r.user
  OBVIOUS
<1>1. /\ Fit(r) /\ ~ Idle(p)
      /\ Leads(r.todo, Setup4, Setup3) \/ Leads(r.todo, Join2, Join1) \/ Ends(r.todo, Staff1)
  <2>1. ~ Idle(p) /\ Fit(r) /\ r.todo \in TeamPlans /\ Head(r.todo) = "member"
    BY StandsAt DEF TeamInv, CreateTenantMember
  <2> HIDE DEF r
  <2>2. Leads(r.todo, Setup4, Setup3) \/ Leads(r.todo, Join2, Join1) \/ Ends(r.todo, Staff1)
    BY <2>1, NextPlan
  <2> QED BY <2>1, <2>2
<1>2. r.tenant \in Nat \ {NoTenant} /\ r.user \in Users
  BY <1>1, PlansApart DEF Fit, Leads, Ends, Placed, Appointing, Enrolling
<1>3. EstateHolds' /\ half' = half /\ UNCHANGED <<staff, entities>>
  BY EstateStays DEF TeamInv, CreateTenantMember, history, estate
<1>4. CASE Member(r.tenant, r.user) /\ Stop(p) /\ UNCHANGED members
  <2>1. HomesHold' /\ Kept
    BY <1>4, HomesStay DEF TeamInv, CreateTenantMember, tenancy
  <2>2. \A v, w : Enrols(p, v, w) => Member(v, w)'
    BY <1>4 DEF Enrols, Member
  <2>3. RequestsFit' /\ StaffBelongs'
    BY <1>3, <1>4, <2>1, <2>2, StopKeepsTeams DEF TeamInv
  <2> QED BY <1>3, <2>1, <2>3 DEF TeamInv
<1>5. ASSUME NEW m, m.tenant = r.tenant, m.user = r.user, members' = members \cup {m}, Advance(p)
      PROVE  TeamInv'
  <2>1. Member(t, u)'
    BY <1>0, <1>5 DEF Member
  <2>2. Kept
    BY <1>5 DEF Kept, CreateTenantMember, people, Member
  <2>3. HomesHold'
    BY <1>2, <1>5, <2>2 DEF TeamInv, HomesHold, CreateTenantMember, people, Kept
  <2>4. CASE Ends(r.todo, Staff1)
    <3>1. request'[p] = Resting /\ Stop(p)
      BY <1>1, <1>5, <2>4, AdvancesOn DEF TeamInv, Ends, GoesOn, Stop
    <3>2. \A v, w : Enrols(p, v, w) => Member(v, w)'
      BY <1>0, <2>1 DEF Enrols
    <3>3. RequestsFit' /\ StaffBelongs'
      BY <1>3, <2>2, <3>1, <3>2, StopKeepsTeams DEF TeamInv
    <3> QED BY <1>3, <2>3, <3>3 DEF TeamInv
  <2>5. CASE Leads(r.todo, Setup4, Setup3) \/ Leads(r.todo, Join2, Join1)
    <3>1. request' = [request EXCEPT ![p] = request'[p]] /\ GoesOn(p, r.tenant)
      BY <1>1, <1>5, <2>5, AdvancesOn DEF TeamInv, Leads
    <3>2. CASE Leads(r.todo, Setup4, Setup3)
      <4>1. r.user \in admins'
        BY <1>1, <2>2, <3>2 DEF Fit, Leads, Appointing, Kept
      <4>2. /\ request'[p].todo = Setup3 /\ request'[p].user = r.user /\ request'[p].tenant = r.tenant
            /\ Member(request[p].tenant, request[p].user)'
        BY <1>0, <2>1, <3>1, <3>2 DEF GoesOn, Leads, Member
      <4>3. Fit(request[p])'
        BY <1>1, <1>2, <3>1, <4>1, <4>2, PlansApart DEF Fit, GoesOn, TeamPlans, Appointing
      <4>4. r.todo \notin Enrolling
        BY <3>2, PlansApart DEF Leads
      <4> QED BY <1>3, <2>2, <2>3, <3>1, <4>3, <4>4, TurnKeepsTeams DEF TeamInv
    <3>3. CASE Leads(r.todo, Join2, Join1)
      <4>1. /\ request'[p].todo = Join1 /\ request'[p].user = r.user /\ request'[p].tenant = r.tenant
            /\ Member(request[p].tenant, request[p].user)'
        BY <1>0, <2>1, <3>1, <3>3 DEF GoesOn, Leads, Member
      <4>2. Fit(request[p])'
        BY <1>1, <1>2, <3>1, <4>1, PlansApart DEF Fit, GoesOn, TeamPlans
      <4>3. r.todo \notin Enrolling
        BY <3>3, PlansApart DEF Leads
      <4> QED BY <1>3, <2>2, <2>3, <3>1, <4>2, <4>3, TurnKeepsTeams DEF TeamInv
    <3> QED BY <2>5, <3>2, <3>3
  <2> QED BY <1>1, <2>4, <2>5
<1>6. \/ Member(r.tenant, r.user) /\ Stop(p) /\ UNCHANGED members
      \/ \E m : /\ m.tenant = r.tenant /\ m.user = r.user
                /\ members' = members \cup {m} /\ Advance(p)
  <2> DEFINE m == [tenant |-> r.tenant, user |-> r.user,
                   role |-> IF r.role = "admin" THEN "admin" ELSE "user"]
  <2>1. m.tenant = r.tenant /\ m.user = r.user
    OBVIOUS
  <2>2. \/ Member(m.tenant, m.user) /\ Stop(p) /\ UNCHANGED members
        \/ Advance(p) /\ members' = members \cup {m}
    BY DEF CreateTenantMember
  <2> HIDE DEF m
  <2> QED BY <2>1, <2>2
<1> QED BY <1>4, <1>5, <1>6

(* The default tenant is written once the user is in it.                   *)
LEMMA DefaultKeepsTeams ==
  ASSUME TeamInv, NEW p \in Clerks, SetDefaultTenant(p) PROVE TeamInv'
<1> DEFINE r == request[p]
<1>1. /\ Fit(r) /\ ~ Idle(p)
      /\ Leads(r.todo, Setup3, Setup2) \/ Ends(r.todo, Join1)
  <2>1. ~ Idle(p) /\ Fit(r) /\ r.todo \in TeamPlans /\ Head(r.todo) = "home"
    BY StandsAt DEF TeamInv, SetDefaultTenant
  <2> HIDE DEF r
  <2>2. Leads(r.todo, Setup3, Setup2) \/ Ends(r.todo, Join1)
    BY <2>1, NextPlan
  <2> QED BY <2>1, <2>2
<1>2. r.user \in Users /\ r.tenant \in Nat \ {NoTenant} /\ Member(r.tenant, r.user)
  BY <1>1, PlansApart DEF Fit, Leads, Ends, Placed, Appointing, Enrolled
<1>3. EstateHolds' /\ half' = half /\ UNCHANGED <<staff, entities>>
  BY EstateStays DEF TeamInv, SetDefaultTenant, history, estate
<1>4. home' = [home EXCEPT ![r.user] = r.tenant] /\ members' = members /\ admins' = admins
  BY DEF SetDefaultTenant, tenancy
<1> HIDE DEF r
<1>5. Kept
  BY <1>2, <1>4 DEF Kept, TeamInv, HomesHold, Member
<1>6. HomesHold'
  <2>1. home' \in [Users -> Nat]
    BY <1>2, <1>4 DEF TeamInv, HomesHold
  <2>2. \A u \in Users : home'[u] # NoTenant => Member(home[u], u)'
    BY <1>2, <1>4 DEF TeamInv, HomesHold, Member
  <2>3. UNCHANGED <<tenants, users, members, setupComplete>>
    BY DEF SetDefaultTenant, tenancy
  <2>4. setupComplete' => \E u \in admins' \cap Users : home'[u] # NoTenant
    BY <1>5, <2>3 DEF TeamInv, HomesHold, Kept
  <2> QED BY <2>1, <2>2, <2>3, <2>4 DEF TeamInv, HomesHold
<1>7. Advance(p)
  BY DEF SetDefaultTenant
<1>8. request' = [request EXCEPT ![p] = request'[p]] /\ r.todo \notin Enrolling
  BY <1>1, <1>7, AdvancesOn, PlansApart DEF TeamInv, Leads, Ends, r
<1>9. request'[p] = Resting \/ Fit(request[p])'
  <2>1. CASE Ends(r.todo, Join1)
    BY <1>1, <1>7, <2>1, AdvancesOn DEF TeamInv, Ends, GoesOn, r
  <2>2. CASE Leads(r.todo, Setup3, Setup2)
    <3>1. GoesOn(p, r.tenant)
      BY <1>1, <1>7, <2>2, AdvancesOn DEF TeamInv, Leads, r
    <3>2. /\ request'[p].todo = Setup2 /\ request'[p].user = r.user /\ request'[p].tenant = r.tenant
          /\ r.user \in admins' /\ home'[r.user] # NoTenant
      BY <1>1, <1>2, <1>4, <2>2, <3>1 DEF GoesOn, Leads, r, Fit, Appointing, TeamInv, HomesHold
    <3>3. Member(request[p].tenant, request[p].user)'
      BY <1>2, <1>4, <3>2 DEF Member
    <3> QED BY <1>2, <3>1, <3>2, <3>3, PlansApart DEF Fit, GoesOn, TeamPlans, Appointing
  <2> QED BY <1>1, <2>1, <2>2
<1>10. RequestsFit' /\ StaffBelongs'
  BY <1>3, <1>5, <1>8, <1>9, TurnKeepsTeams DEF TeamInv, r
<1> QED BY <1>3, <1>6, <1>10 DEF TeamInv

(* New staff: its membership is the next thing the request looks up.       *)
LEMMA CreateStaffKeepsTeams ==
  ASSUME TeamInv, NEW p \in Clerks, CreateStaff(p) PROVE TeamInv'
<1>0. PICK r : r = request[p]
  OBVIOUS
<1>1. /\ Fit(request[p]) /\ ~ Idle(p) /\ r.todo = Staff3 /\ Leads(request[p].todo, Staff3, Staff2)
  <2>1. ~ Idle(p) /\ Fit(r) /\ r.todo \in TeamPlans /\ Head(r.todo) = "staff"
    BY <1>0, StandsAt DEF TeamInv, CreateStaff
  <2>2. Leads(r.todo, Staff3, Staff2)
    BY <2>1, NextPlan
  <2> QED BY <1>0, <2>1, <2>2 DEF Leads
<1>2. HomesHold' /\ Kept
  BY HomesStay DEF TeamInv, CreateStaff
<1>3. entities' = entities /\ half' = half
  BY DEF CreateStaff, history
<1>4. CASE Stop(p) /\ UNCHANGED staff
  <2>1. EstateHolds'
    BY <1>4, EstateStays DEF TeamInv, CreateStaff, history, estate
  <2>2. r.todo \notin Enrolling
    BY <1>1, PlansApart
  <2>3. RequestsFit' /\ StaffBelongs'
    BY <1>0, <1>2, <1>3, <1>4, <2>2, StopKeepsTeams DEF TeamInv, Enrols
  <2> QED BY <1>2, <2>1, <2>3 DEF TeamInv
<1>5. ASSUME NEW s, s.entity = r.entity, s.user = r.user, staff' = staff \cup {s}, Advance(p),
             [id |-> r.entity, tenant |-> r.tenant] \in entities
      PROVE  TeamInv'
  <2> DEFINE own == [id |-> r.entity, tenant |-> r.tenant]
  <2>1. own \in entities /\ own.id = s.entity /\ own.tenant = r.tenant
    BY <1>5
  <2> HIDE DEF own
  <2>2. EstateHolds'
    <3>1. UNCHANGED <<entities, entityCount, charts, seeds, bare>>
      BY DEF CreateStaff, history
    <3>2. \A x \in staff' : x.entity \in 1 .. entityCount
      BY <1>5, <2>1 DEF TeamInv, EstateHolds
    <3> QED BY <3>1, <3>2 DEF TeamInv, EstateHolds, HasCash
  <2>3. request' = [request EXCEPT ![p] = request'[p]] /\ GoesOn(p, request[p].tenant)
    BY <1>1, <1>5, AdvancesOn DEF TeamInv, Leads
  <2>4. request'[p].todo = Staff2 /\ request'[p].user = r.user /\ request'[p].tenant = r.tenant
    BY <1>0, <1>1, <2>3 DEF GoesOn, Leads
  <2>5. r.tenant \in Nat \ {NoTenant} /\ r.user \in Users
    BY <1>0, <1>1, PlansApart DEF Fit, Placed
  <2>6. Fit(request[p])'
    BY <2>3, <2>4, <2>5, PlansApart DEF Fit, GoesOn, TeamPlans, Enrolling
  <2>7. RequestsFit'
    BY <1>2, <2>3, <2>6, RequestsStay DEF TeamInv
  <2>8. Enrols(p, r.tenant, r.user)'
    <3>1. request'[p] # Resting
      <4>1. request'[p].todo # <<>>
        BY <2>4 DEF Staff2
      <4>2. Resting.todo = <<>>
        BY DEF Resting
      <4> QED BY <4>1, <4>2
    <3> QED BY <2>4, <3>1 DEF Enrols, Idle, Enrolling, Resting
  <2>9. StaffBelongs'
    <3> SUFFICES ASSUME NEW x \in staff', NEW e \in entities', x.entity = e.id
                 PROVE  \/ Member(e.tenant, x.user)' \/ x.user \in half'
                        \/ \E q \in Clerks : Enrols(q, e.tenant, x.user)'
      BY DEF StaffBelongs
    <3>1. CASE x = s
      <4>1. e = own
        BY <1>3, <2>1, <3>1 DEF TeamInv, EstateHolds
      <4> QED BY <1>5, <2>1, <2>8, <3>1, <4>1
    <3>2. CASE x \in staff
      <4>1. \/ Member(e.tenant, x.user) \/ x.user \in half
            \/ \E q \in Clerks : Enrols(q, e.tenant, x.user)
        BY <1>3, <3>2 DEF TeamInv, StaffBelongs
      <4>2. ASSUME NEW q \in Clerks, Enrols(q, e.tenant, x.user)
            PROVE  Enrols(q, e.tenant, x.user)'
        <5>1. q # p
          BY <1>0, <1>1, <4>2, PlansApart DEF Enrols
        <5>2. request'[q] = request[q]
          BY <2>3, <5>1 DEF TeamInv, RequestsFit
        <5> QED BY <4>2, <5>2 DEF Enrols, Idle, Resting
      <4> QED BY <1>2, <1>3, <4>1, <4>2 DEF Kept
    <3> QED BY <1>5, <3>1, <3>2
  <2> QED BY <1>2, <2>2, <2>7, <2>9 DEF TeamInv
<1>6. \/ Stop(p) /\ UNCHANGED staff
      \/ \E s : /\ s.entity = r.entity /\ s.user = r.user /\ staff' = staff \cup {s} /\ Advance(p)
                /\ [id |-> r.entity, tenant |-> r.tenant] \in entities
  <2> DEFINE s == [entity |-> r.entity, user |-> r.user, role |-> r.role]
  <2>1. s.entity = r.entity /\ s.user = r.user
    OBVIOUS
  <2>2. \/ Stop(p) /\ UNCHANGED staff
        \/ /\ staff' = staff \cup {s} /\ Advance(p)
           /\ [id |-> r.entity, tenant |-> r.tenant] \in entities
    BY <1>0 DEF CreateStaff
  <2> HIDE DEF s
  <2> QED BY <2>1, <2>2
<1> QED BY <1>4, <1>5, <1>6

(* GetRole: a member needs no row, anyone else gets one next.              *)
LEMMA LookUpKeepsTeams ==
  ASSUME TeamInv, NEW p \in Clerks, LookUpTenantMember(p) PROVE TeamInv'
<1>0. PICK r : r = request[p]
  OBVIOUS
<1>1. /\ Fit(request[p]) /\ ~ Idle(p) /\ Leads(request[p].todo, Staff2, Staff1)
  <2>1. ~ Idle(p) /\ Fit(r) /\ r.todo \in TeamPlans /\ Head(r.todo) = "look"
    BY <1>0, StandsAt DEF TeamInv, LookUpTenantMember
  <2>2. Leads(r.todo, Staff2, Staff1)
    BY <2>1, NextPlan
  <2> QED BY <1>0, <2>1, <2>2 DEF Leads
<1>2. HomesHold' /\ Kept /\ EstateHolds'
  BY HomesStay, EstateStays DEF TeamInv, LookUpTenantMember, history
<1>3. UNCHANGED <<staff, entities, half, members>>
  BY DEF LookUpTenantMember, history, estate, tenancy
<1>4. CASE Member(request[p].tenant, request[p].user) /\ Stop(p)
  <2>1. \A v, w : Enrols(p, v, w) => Member(v, w)'
    BY <1>3, <1>4 DEF Enrols, Member
  <2>2. RequestsFit' /\ StaffBelongs'
    BY <1>2, <1>3, <1>4, <2>1, StopKeepsTeams DEF TeamInv
  <2> QED BY <1>2, <2>2 DEF TeamInv
<1>5. CASE Advance(p)
  <2>1. request' = [request EXCEPT ![p] = request'[p]] /\ GoesOn(p, request[p].tenant)
    BY <1>1, <1>5, AdvancesOn DEF TeamInv, Leads
  <2>2. request'[p].todo = Staff1 /\ request'[p].user = r.user /\ request'[p].tenant = r.tenant
    BY <1>0, <1>1, <2>1 DEF GoesOn, Leads
  <2>3. r.tenant \in Nat \ {NoTenant} /\ r.user \in Users
    BY <1>0, <1>1, PlansApart DEF Fit, Leads, Placed, Enrolling
  <2>4. Fit(request[p])'
    BY <2>1, <2>2, <2>3, PlansApart DEF Fit, GoesOn, TeamPlans, Enrolling
  <2>5. RequestsFit'
    BY <1>2, <2>1, <2>4, RequestsStay DEF TeamInv
  <2>6. request'[p] # Resting
    <3>1. request'[p].todo # <<>>
      BY <2>2 DEF Staff1
    <3>2. Resting.todo = <<>>
      BY DEF Resting
    <3> QED BY <3>1, <3>2
  <2>7. \A v, w : Enrols(p, v, w) => Enrols(p, v, w)'
    BY <1>0, <2>2, <2>6 DEF Enrols, Idle, Enrolling, Resting
  <2>8. \A q \in Clerks \ {p} : request'[q] = request[q]
    BY <2>1 DEF TeamInv, RequestsFit
  <2>9. StaffBelongs'
    BY <1>2, <1>3, <2>7, <2>8, StaffStays DEF TeamInv
  <2> QED BY <1>2, <2>5, <2>9 DEF TeamInv
<1> QED BY <1>4, <1>5 DEF LookUpTenantMember

(* CreateWithOwner: the owner is in the tenant; the Cash account is one of *)
(* those to be inserted.                                                   *)
LEMMA OwnerKeepsTeams ==
  ASSUME EstateHolds, StaffBelongs, Kept, NEW u, NEW t, NEW template \in Templates, Member(t, u),
         CreateWithOwner(u, t, template), UNCHANGED history,
         \A q \in Clerks : \A v, w : Enrols(q, v, w) => Enrols(q, v, w)'
  PROVE  EstateHolds' /\ StaffBelongs'
<1>0. PICK n : n = entityCount + 1
  OBVIOUS
<1> DEFINE own == [id |-> n, tenant |-> t]
           s == [entity |-> n, user |-> u, role |-> "admin"]
           seed == [entity |-> n, name |-> Cash]
<1>1. /\ entityCount \in Nat /\ n \in 0 .. MaxEntities /\ n \in 1 .. n
      /\ 1 .. entityCount \subseteq 1 .. n /\ n \notin 1 .. entityCount
  BY <1>0, AccessConstants DEF EstateHolds, CreateWithOwner
<1>2. entityCount' = n /\ entities' = entities \cup {own} /\ staff' = staff \cup {s}
  BY <1>0 DEF CreateWithOwner
<1>3. own.id = n /\ own.tenant = t /\ s.entity = n /\ s.user = u
  OBVIOUS
<1>4. charts' = charts /\ bare' = bare /\ seeds \subseteq seeds' /\ seed \in seeds'
  BY <1>0 DEF CreateWithOwner, SeedNames, history
<1>10. HasCash(n)'
  BY <1>4 DEF HasCash
<1> HIDE DEF own, s, seed
<1>5. \A e \in entities : e.id \in 1 .. entityCount /\ e.id # n
  BY <1>1 DEF EstateHolds
<1>6. EstateHolds'
  <2>1. \A e \in entities' : e.id \in 1 .. n
    BY <1>1, <1>2, <1>3, <1>5
  <2>2. \A e, x \in entities' : e.id = x.id => e = x
    BY <1>2, <1>3, <1>5 DEF EstateHolds
  <2>3. \A x \in staff' : x.entity \in 1 .. n
    BY <1>1, <1>2, <1>3 DEF EstateHolds
  <2>4. charts' = [e \in Entities |-> charts'[e]]
    BY <1>4 DEF EstateHolds
  <2>5. \A e \in entities' : HasCash(e.id)'
    <3>1. \A e \in entities : HasCash(e.id)'
      BY <1>4 DEF EstateHolds, HasCash
    <3> QED BY <1>2, <1>3, <1>10, <3>1
  <2>6. entityCount' \in 0 .. MaxEntities
    BY <1>1, <1>2
  <2> QED BY <1>2, <2>1, <2>2, <2>3, <2>4, <2>5, <2>6 DEF EstateHolds
<1>7. StaffBelongs'
  <2> SUFFICES ASSUME NEW x \in staff', NEW e \in entities', x.entity = e.id
               PROVE  \/ Member(e.tenant, x.user)' \/ x.user \in half'
                      \/ \E q \in Clerks : Enrols(q, e.tenant, x.user)'
    BY DEF StaffBelongs
  <2>1. CASE x = s
    <3>1. e = own
      BY <1>2, <1>3, <1>5, <2>1
    <3>2. Member(e.tenant, x.user)
      BY <1>3, <2>1, <3>1
    <3> QED BY <3>2 DEF Kept
  <2>2. CASE x \in staff
    <3>1. e \in entities
      BY <1>1, <1>2, <1>3, <2>2 DEF EstateHolds
    <3>2. \/ Member(e.tenant, x.user) \/ x.user \in half
          \/ \E q \in Clerks : Enrols(q, e.tenant, x.user)
      BY <2>2, <3>1 DEF StaffBelongs
    <3> QED BY <3>2 DEF Kept, history
  <2> QED BY <1>2, <2>1, <2>2
<1> QED BY <1>6, <1>7

(* The entity of setup, or none.                                           *)
LEMMA SetupEntityKeepsTeams ==
  ASSUME TeamInv, NEW p \in Clerks, NEW template \in Templates, SetupEntity(p, template)
  PROVE  TeamInv'
<1>0. PICK r : r = request[p]
  OBVIOUS
<1>1. /\ Fit(request[p]) /\ ~ Idle(p) /\ Leads(request[p].todo, Setup2, Setup1)
  <2>1. ~ Idle(p) /\ Fit(r) /\ r.todo \in TeamPlans /\ Head(r.todo) = "entity"
    BY <1>0, StandsAt DEF TeamInv, SetupEntity
  <2>2. Leads(r.todo, Setup2, Setup1)
    BY <2>1, NextPlan
  <2> QED BY <1>0, <2>1, <2>2 DEF Leads
<1>2. HomesHold' /\ Kept
  BY HomesStay DEF TeamInv, SetupEntity
<1>3. UNCHANGED history
  BY DEF SetupEntity
<1>4. request' = [request EXCEPT ![p] = request'[p]] /\ GoesOn(p, request[p].tenant)
  BY <1>1, AdvancesOn, AdvancesOf DEF TeamInv, Leads, SetupEntity
<1>5. request'[p].todo = Setup1 /\ request'[p].user = r.user /\ request'[p].tenant = r.tenant
  BY <1>0, <1>1, <1>4 DEF GoesOn, Leads
<1>6. /\ r.tenant \in Nat \ {NoTenant} /\ r.user \in Users /\ r.user \in admins
      /\ Member(r.tenant, r.user) /\ home[r.user] # NoTenant
  BY <1>0, <1>1, PlansApart DEF Fit, Leads, Placed, Appointing, Enrolled, Housed
<1>7. /\ r.user \in admins' /\ Member(r.tenant, r.user)' /\ home'[r.user] # NoTenant
  BY <1>2, <1>6 DEF Kept
<1>8. Member(request[p].tenant, request[p].user)'
  BY <1>5, <1>7 DEF Member
<1>9. Fit(request[p])'
  BY <1>4, <1>5, <1>6, <1>7, <1>8, PlansApart DEF Fit, GoesOn, TeamPlans, Appointing
<1>10. r.todo \notin Enrolling
  BY <1>0, <1>1, PlansApart DEF Leads, Appointing
<1>11. CASE UNCHANGED estate
  <2>1. RequestsFit' /\ StaffBelongs'
    BY <1>0, <1>2, <1>3, <1>4, <1>9, <1>10, <1>11, TurnKeepsTeams DEF TeamInv, estate, history
  <2>2. EstateHolds'
    BY <1>3, <1>11, EstateStays DEF TeamInv, history
  <2> QED BY <1>2, <2>1, <2>2 DEF TeamInv
<1>12. CASE CreateWithOwner(request[p].user, request[p].tenant, template)
  <2>1. RequestsFit'
    BY <1>2, <1>4, <1>9, RequestsStay DEF TeamInv
  <2>2. \A q \in Clerks : \A v, w : Enrols(q, v, w) => Enrols(q, v, w)'
    <3> SUFFICES ASSUME NEW q \in Clerks, NEW v, NEW w, Enrols(q, v, w) PROVE Enrols(q, v, w)'
      OBVIOUS
    <3>1. q # p
      BY <1>0, <1>10 DEF Enrols
    <3>2. request'[q] = request[q]
      BY <1>4, <3>1 DEF TeamInv, RequestsFit
    <3> QED BY <3>2 DEF Enrols, Idle, Resting
  <2>3. Member(r.tenant, r.user) /\ CreateWithOwner(r.user, r.tenant, template)
    BY <1>0, <1>6, <1>12
  <2>4. EstateHolds' /\ StaffBelongs'
    BY <1>2, <1>3, <2>2, <2>3, OwnerKeepsTeams DEF TeamInv
  <2> QED BY <1>2, <2>1, <2>4 DEF TeamInv
<1> QED BY <1>11, <1>12 DEF SetupEntity

(* Setup is complete: its administrator can log in.                        *)
LEMMA CompleteKeepsTeams ==
  ASSUME TeamInv, NEW p \in Clerks, SetSetupComplete(p) PROVE TeamInv'
<1>0. PICK r : r = request[p]
  OBVIOUS
<1>1. /\ Fit(request[p]) /\ ~ Idle(p) /\ Ends(request[p].todo, Setup1)
  <2>1. ~ Idle(p) /\ Fit(r) /\ r.todo \in TeamPlans /\ Head(r.todo) = "complete"
    BY <1>0, StandsAt DEF TeamInv, SetSetupComplete
  <2>2. Ends(r.todo, Setup1)
    BY <2>1, NextPlan
  <2> QED BY <1>0, <2>1, <2>2 DEF Ends
<1>2. r.user \in Users /\ r.user \in admins /\ home[r.user] # NoTenant
  BY <1>0, <1>1 DEF Fit, Ends, Appointing, Housed
<1>3. UNCHANGED <<people, tenancy, estate, history>> /\ Advance(p)
  BY DEF SetSetupComplete
<1>4. HomesHold' /\ Kept
  <2>1. Kept
    BY <1>3, KeptUnchanged DEF people, tenancy
  <2>2. UNCHANGED <<tenants, users, home, members, admins>>
    BY <1>3 DEF people, tenancy
  <2>3. \E u \in admins' \cap Users : home'[u] # NoTenant
    BY <1>2, <2>2
  <2> QED BY <2>1, <2>2, <2>3 DEF TeamInv, HomesHold, Member
<1>5. EstateHolds'
  BY <1>3, EstateStays DEF TeamInv, history
<1>6. request' = [request EXCEPT ![p] = request'[p]] /\ request'[p] = Resting
  BY <1>1, <1>3, AdvancesOn DEF TeamInv, Ends, GoesOn
<1>7. request[p].todo \notin Enrolling
  BY <1>1, PlansApart DEF Ends
<1>8. RequestsFit' /\ StaffBelongs'
  BY <1>3, <1>4, <1>6, <1>7, TurnKeepsTeams DEF TeamInv, history, estate
<1> QED BY <1>4, <1>5, <1>8 DEF TeamInv

(* The statements of sessions are about tokens alone.                      *)
LEMMA TokensKeepTeams ==
  ASSUME TeamInv, NEW p \in Clerks, RevokeIfActive(p) \/ Revoke(p) \/ issueSession(p)
  PROVE  TeamInv'
<1>0. PICK r : r = request[p]
  OBVIOUS
<1>1. /\ Fit(request[p]) /\ ~ Idle(p)
      /\ \/ Leads(request[p].todo, Renew2, Renew1)
         \/ Ends(request[p].todo, Renew1) \/ Ends(request[p].todo, Logout1)
  <2>1. At(p, "exchange") \/ At(p, "session") \/ At(p, "revoke")
    BY DEF RevokeIfActive, Revoke, issueSession
  <2>2. /\ ~ Idle(p) /\ Fit(r) /\ r.todo \in TeamPlans
        /\ Head(r.todo) = "exchange" \/ Head(r.todo) = "session" \/ Head(r.todo) = "revoke"
    BY <1>0, <2>1, StandsAt DEF TeamInv
  <2>3. Leads(r.todo, Renew2, Renew1) \/ Ends(r.todo, Renew1) \/ Ends(r.todo, Logout1)
    BY <2>2, NextPlan
  <2> QED BY <1>0, <2>2, <2>3
<1>2. /\ UNCHANGED <<people, tenancy, estate, setupComplete, history>>
      /\ Stop(p) \/ Advance(p)
  BY DEF RevokeIfActive, Revoke, issueSession
<1>3. HomesHold' /\ Kept /\ EstateHolds'
  BY <1>2, HomesStay, EstateStays DEF TeamInv, history
<1>4. request[p].todo \notin Enrolling
  BY <1>1, PlansApart DEF Leads, Ends
<1>5. half \subseteq half' /\ UNCHANGED <<staff, entities>>
  BY <1>2 DEF history, estate
<1>6. CASE Stop(p)
  BY <1>3, <1>4, <1>5, <1>6, StopKeepsTeams DEF TeamInv, Enrols
<1>7. CASE Advance(p)
  <2>1. request' = [request EXCEPT ![p] = request'[p]]
    BY <1>1, <1>7, AdvancesOn DEF TeamInv
  <2>2. request'[p] = Resting \/ Fit(request[p])'
    <3>1. CASE Leads(request[p].todo, Renew2, Renew1)
      <4>1. GoesOn(p, request[p].tenant)
        BY <1>1, <1>7, <3>1, AdvancesOn DEF TeamInv, Leads
      <4> QED BY <3>1, <4>1, PlansApart DEF Fit, GoesOn, TeamPlans, Leads, Tokens
    <3>2. CASE Len(request[p].todo) = 1
      BY <1>1, <1>7, <3>2, AdvancesOn DEF TeamInv, GoesOn
    <3> QED BY <1>1, <3>1, <3>2 DEF Ends
  <2> QED BY <1>3, <1>4, <1>5, <2>1, <2>2, TurnKeepsTeams DEF TeamInv
<1> QED BY <1>2, <1>6, <1>7

(* A handler begins with nothing built.                                    *)
LEMMA BeginKeepsTeams ==
  ASSUME TeamInv, NEW p \in Clerks, NEW u, NEW t, NEW e, NEW r, NEW s, NEW plan,
         plan \in {Setup6, Found4, Join4, Staff3} \cup Tokens,
         plan \notin Tokens => u \in Users,
         plan = Setup6 => r = "admin", plan = Staff3 => t \in Nat \ {NoTenant},
         Opens(p, Request(u, t, e, r, s, plan))
  PROVE  TeamInv'
<1>1. HomesHold' /\ Kept /\ EstateHolds'
  BY HomesStay, EstateStays DEF TeamInv, Opens, history
<1>2. /\ request' = [request EXCEPT ![p] = request'[p]]
      /\ request'[p] = Request(u, t, e, r, s, plan)
  BY DEF TeamInv, RequestsFit, Opens
<1>3. /\ request'[p] = Request(request'[p].user, request'[p].tenant, request'[p].entity,
                               request'[p].role, request'[p].session, request'[p].todo)
      /\ request'[p].user = u /\ request'[p].tenant = t /\ request'[p].role = r
      /\ request'[p].todo = plan
  BY <1>2, Fields
<1>4. Fit(request[p])'
  BY <1>3, PlansApart DEF Fit, TeamPlans, Tokens
<1>5. RequestsFit'
  BY <1>1, <1>2, <1>4, RequestsStay DEF TeamInv
<1>6. \A q \in Clerks \ {p} : request'[q] = request[q]
  BY <1>2 DEF TeamInv, RequestsFit
<1>7. \A v, w : ~ Enrols(p, v, w)
  BY DEF Opens, Enrols
<1>8. UNCHANGED <<staff, entities, half>>
  BY DEF Opens, estate, history
<1>9. StaffBelongs'
  BY <1>1, <1>6, <1>7, <1>8, StaffStays DEF TeamInv
<1> QED BY <1>1, <1>5, <1>9 DEF TeamInv

(* handleRegister: user, tenant, membership and default tenant at once.    *)
LEMMA RegisterKeepsTeams ==
  ASSUME TeamInv, NEW p \in Clerks, NEW u \in Users, handleRegister(p, u) PROVE TeamInv'
<1>0. PICK n : n = tenants + 1
  OBVIOUS
<1> DEFINE m == [tenant |-> n, user |-> u, role |-> "user"]
<1>1. /\ m.tenant = n /\ m.user = u /\ members' = members \cup {m}
      /\ home' = [home EXCEPT ![u] = n] /\ users' = users \cup {u} /\ tenants' = n
      /\ UNCHANGED <<admins, estate, setupComplete, history>>
      /\ request' = [request EXCEPT ![p] = Request(u, n, 0, "user", 0, Renew1)]
  BY <1>0 DEF handleRegister, Renew1
<1>2. n \in Nat \ {NoTenant}
  BY <1>0 DEF TeamInv, HomesHold, NoTenant
<1> HIDE DEF m
<1>3. Kept
  BY <1>1, <1>2 DEF Kept, TeamInv, HomesHold, Member
<1>4. HomesHold'
  <2>1. home' \in [Users -> Nat]
    BY <1>1, <1>2 DEF TeamInv, HomesHold
  <2>2. \A v \in Users : home'[v] # NoTenant => Member(home[v], v)'
    BY <1>1, <1>2 DEF TeamInv, HomesHold, Member
  <2>3. setupComplete' => \E v \in admins' \cap Users : home'[v] # NoTenant
    BY <1>1, <1>3 DEF TeamInv, HomesHold, Kept
  <2> QED BY <1>1, <1>2, <2>1, <2>2, <2>3 DEF TeamInv, HomesHold
<1>5. EstateHolds'
  BY <1>1, EstateStays DEF TeamInv, history
<1>6. /\ request' = [request EXCEPT ![p] = request'[p]]
      /\ request'[p] = Request(u, n, 0, "user", 0, Renew1)
  BY <1>1 DEF TeamInv, RequestsFit
<1>7. /\ request'[p] = Request(request'[p].user, request'[p].tenant, request'[p].entity,
                               request'[p].role, request'[p].session, request'[p].todo)
      /\ request'[p].todo = Renew1
  BY <1>6, Fields
<1>8. RequestsFit'
  <2>1. Fit(request[p])'
    BY <1>7, PlansApart DEF Fit, TeamPlans, Tokens
  <2> QED BY <1>3, <1>6, <2>1, RequestsStay DEF TeamInv
<1>9. StaffBelongs'
  <2>1. \A q \in Clerks \ {p} : request'[q] = request[q]
    BY <1>6 DEF TeamInv, RequestsFit
  <2>2. \A v, w : ~ Enrols(p, v, w)
    BY DEF handleRegister, Enrols
  <2> QED BY <1>1, <1>3, <2>1, <2>2, StaffStays DEF TeamInv, estate, history
<1> QED BY <1>4, <1>5, <1>8, <1>9 DEF TeamInv

(* A plan put together from three.                                         *)
LEMMA FourPlans ==
  ASSUME NEW a, NEW b, NEW c, NEW d PROVE <<a>> \o <<b>> \o <<c, d>> = <<a, b, c, d>>
<1> DEFINE S == {a, b, c, d}
           y == <<a>> \o <<b>> \o <<c, d>>
           z == <<a, b, c, d>>
<1>1. y \in Seq(S) /\ Len(y) = 4 /\ z \in Seq(S) /\ Len(z) = 4
  OBVIOUS
<1>2. /\ y[1] = a /\ y[2] = b /\ y[3] = c /\ y[4] = d
      /\ z[1] = a /\ z[2] = b /\ z[3] = c /\ z[4] = d
  OBVIOUS
<1> HIDE DEF S, y, z
<1>3. \A i \in 1 .. Len(y) : y[i] = z[i]
  BY <1>1, <1>2
<1>4. y = z
  BY <1>1, <1>3, SeqEqual
<1> QED BY <1>4 DEF y, z

(* Every handler begins with nothing built, or with all of it.             *)
LEMMA HandlersKeepTeams == ASSUME TeamInv, NEW p \in Clerks, Handlers(p) PROVE TeamInv'
<1>1. ASSUME NEW u \in Users, handleSetup(p, u) PROVE TeamInv'
  <2>1. Opens(p, Request(u, NoTenant, 0, "admin", 0, Setup6))
    BY <1>1 DEF Begin, handleSetup, Setup6
  <2> QED BY <2>1, PlansApart, BeginKeepsTeams
<1>2. ASSUME NEW u \in Users, NEW a \in Users, NEW t \in Tenants,
             NEW g \in {NoTenant} \cup Tenants, NEW r \in {"admin", "user"},
             handleCreateUser(p, a, t, u, g, r)
      PROVE  TeamInv'
  <2>1. /\ <<"user">> \o <<"tenant">> \o <<"member", "home">> = Found4
        /\ <<"user">> \o <<"known">> \o <<"member", "home">> = Join4
    BY FourPlans DEF Found4, Join4
  <2>2. Opens(p, Request(u, g, 0, r, 0, Found4)) \/ Opens(p, Request(u, g, 0, r, 0, Join4))
    <3>1. CASE g = NoTenant
      BY <1>2, <2>1, <3>1 DEF handleCreateUser, Begin
    <3>2. CASE g # NoTenant
      BY <1>2, <2>1, <3>2 DEF handleCreateUser, Begin
    <3> QED BY <3>1, <3>2
  <2> QED BY <2>2, PlansApart, BeginKeepsTeams DEF Placed
<1>3. ASSUME NEW u \in Users, NEW a \in Users, NEW t \in Tenants, NEW e \in Entities,
             NEW r \in Roles, handleCreateMember(p, a, t, e, u, r)
      PROVE  TeamInv'
  <2>1. Opens(p, Request(u, t, e, r, 0, Staff3))
    BY <1>3 DEF Begin, handleCreateMember, Staff3
  <2>2. t \in Nat \ {NoTenant}
    BY AccessConstants DEF Tenants, NoTenant
  <2> QED BY <2>1, <2>2, PlansApart, BeginKeepsTeams
<1>4. ASSUME NEW u \in Users, handleRegister(p, u) PROVE TeamInv'
  BY <1>4, RegisterKeepsTeams
<1>5. ASSUME NEW u, NEW t, Opens(p, Request(u, t, 0, "user", 0, <<"session">>)) PROVE TeamInv'
  <2>1. Opens(p, Request(u, t, 0, "user", 0, Renew1)) /\ Renew1 \in Tokens
    BY <1>5 DEF Renew1, Tokens
  <2> QED BY <2>1, PlansApart, BeginKeepsTeams
<1>6. ASSUME NEW s \in sessions, handleRefresh(p, s) \/ handleLogout(p, s) PROVE TeamInv'
  <2>1. /\ Renew2 \in Tokens /\ Logout1 \in Tokens
        /\ \/ Opens(p, Request(s.user, s.tenant, 0, "user", s.id, Renew2))
           \/ Opens(p, Request(s.user, s.tenant, 0, "user", s.id, Logout1))
    BY <1>6 DEF Begin, handleRefresh, handleLogout, Renew2, Logout1, Tokens
  <2> QED BY <2>1, PlansApart, BeginKeepsTeams
<1> QED BY <1>1, <1>2, <1>3, <1>4, <1>5, <1>6 DEF Handlers, handleLogin, handleSwitchTenant, Begin

(* A request of one statement that leaves people and tenants alone.        *)
LEMMA EstateKeepsTeams ==
  ASSUME TeamInv, UNCHANGED <<people, tenancy, setupComplete, request, half>>,
         EstateHolds', StaffBelongs'
  PROVE  TeamInv'
<1>1. HomesHold' /\ Kept
  BY HomesStay DEF TeamInv
<1>2. RequestsFit'
  BY <1>1, RequestsRest DEF TeamInv
<1> QED BY <1>1, <1>2 DEF TeamInv

(* Nothing but tokens changes.                                             *)
LEMMA NothingOfTeams ==
  ASSUME TeamInv, UNCHANGED <<people, tenancy, estate, setupComplete, request, history>>
  PROVE  TeamInv'
<1>1. EstateHolds'
  BY EstateStays DEF TeamInv, history
<1>2. UNCHANGED <<members, staff, entities, half, request>>
  BY DEF tenancy, estate, history
<1>3. StaffBelongs'
  BY <1>2 DEF TeamInv, StaffBelongs, Member, Enrols, Idle, Resting
<1> QED BY <1>1, <1>2, <1>3, EstateKeepsTeams

(* An entity is created by a member of its tenant.                         *)
LEMMA CreateEntityKeepsTeams ==
  ASSUME TeamInv, NEW u \in Users, NEW t \in Tenants, NEW template \in Templates,
         handleCreateEntity(u, t, template)
  PROVE  TeamInv'
<1>1. /\ Member(t, u) /\ CreateWithOwner(u, t, template)
      /\ UNCHANGED <<people, tenancy, setupComplete, request, history, half>>
  BY DEF handleCreateEntity, AuthRequired, history
<1>2. Kept
  BY <1>1, KeptUnchanged DEF people, tenancy
<1>3. \A q \in Clerks : \A v, w : Enrols(q, v, w) => Enrols(q, v, w)'
  BY <1>1 DEF Enrols, Idle, Resting
<1>4. EstateHolds' /\ StaffBelongs'
  BY <1>1, <1>2, <1>3, OwnerKeepsTeams DEF TeamInv
<1> QED BY <1>1, <1>4, EstateKeepsTeams

(* Staff that serves the same entities, which are no more, still belongs.  *)
LEMMA FewerBelong ==
  ASSUME TeamInv,
         UNCHANGED <<people, tenancy, setupComplete, request, history, entityCount, seeds>>,
         entities' \subseteq entities,
         \A s \in staff' : \E x \in staff : x.entity = s.entity /\ x.user = s.user,
         charts' = [e \in Entities |-> charts'[e]],
         \A e \in entities' : charts'[e.id] = charts[e.id]
  PROVE  TeamInv'
<1>1. EstateHolds'
  BY DEF TeamInv, EstateHolds, HasCash, history
<1>2. UNCHANGED <<members, half, request>>
  BY DEF tenancy, history
<1>3. StaffBelongs'
  <2> SUFFICES ASSUME NEW s \in staff', NEW e \in entities', s.entity = e.id
               PROVE  \/ Member(e.tenant, s.user)' \/ s.user \in half'
                      \/ \E q \in Clerks : Enrols(q, e.tenant, s.user)'
    BY DEF StaffBelongs
  <2>1. \/ Member(e.tenant, s.user) \/ s.user \in half
        \/ \E q \in Clerks : Enrols(q, e.tenant, s.user)
    BY DEF TeamInv, StaffBelongs
  <2> QED BY <1>2, <2>1 DEF Member, Enrols, Idle, Resting
<1> QED BY <1>1, <1>2, <1>3, EstateKeepsTeams

(* An entity goes with its staff and its accounts.                         *)
LEMMA DeleteEntityKeepsTeams ==
  ASSUME TeamInv, NEW u \in Users, NEW t \in Tenants, NEW e \in Entities,
         handleDeleteEntity(u, t, e)
  PROVE  TeamInv'
<1> DEFINE own == [id |-> e, tenant |-> t]
<1>1. /\ own \in entities /\ own.id = e /\ entities' = entities \ {own}
      /\ staff' \subseteq staff /\ charts' = [charts EXCEPT ![e] = {}]
      /\ UNCHANGED <<people, tenancy, setupComplete, request, history, entityCount, seeds>>
  BY DEF handleDeleteEntity, requireEntityAdmin
<1> HIDE DEF own
<1>2. \A x \in entities' : x.id # e
  BY <1>1 DEF TeamInv, EstateHolds
<1>3. charts' = [x \in Entities |-> charts'[x]]
  BY <1>1 DEF TeamInv, EstateHolds
<1>4. \A x \in entities' : charts'[x.id] = charts[x.id]
  <2>1. charts = [x \in Entities |-> charts[x]]
    BY DEF TeamInv, EstateHolds
  <2>2. ASSUME NEW x \in entities' PROVE charts'[x.id] = charts[x.id]
    <3>1. x.id \in 1 .. entityCount /\ x.id # e
      BY <1>1, <1>2 DEF TeamInv, EstateHolds
    <3>2. CASE x.id \in Entities
      BY <1>1, <2>1, <3>1, <3>2
    <3>3. CASE x.id \notin Entities
      BY <1>1, <2>1, <3>1, <3>3
    <3> QED BY <3>2, <3>3
  <2> QED BY <2>2
<1> QED BY <1>1, <1>3, <1>4, FewerBelong

(* A member's role is changed, or the member leaves its entity.            *)
LEMMA StaffKeepsTeams ==
  ASSUME TeamInv, NEW a \in Users, NEW t \in Tenants, NEW e \in Entities, NEW m \in staff,
         \/ handleDeleteMember(a, t, e, m)
         \/ \E r \in Roles : handleUpdateMember(a, t, e, m, r)
  PROVE  TeamInv'
<1>1. UNCHANGED <<people, tenancy, setupComplete, request, history, entities, entityCount,
                  charts, seeds>>
  BY DEF handleDeleteMember, handleUpdateMember
<1>2. \A s \in staff' : \E x \in staff : x.entity = s.entity /\ x.user = s.user
  <2>1. CASE handleDeleteMember(a, t, e, m)
    BY <2>1 DEF handleDeleteMember
  <2>2. ASSUME NEW r \in Roles, handleUpdateMember(a, t, e, m, r)
        PROVE  \A s \in staff' : \E x \in staff : x.entity = s.entity /\ x.user = s.user
    <3> DEFINE n == [entity |-> m.entity, user |-> m.user, role |-> r]
    <3>1. n.entity = m.entity /\ n.user = m.user /\ staff' \subseteq staff \cup {n}
      BY <2>2 DEF handleUpdateMember
    <3> HIDE DEF n
    <3> QED BY <3>1
  <2> QED BY <2>1, <2>2
<1>3. charts' = [x \in Entities |-> charts'[x]]
  BY <1>1 DEF TeamInv, EstateHolds
<1> QED BY <1>1, <1>2, <1>3, FewerBelong

(* Accounts come and go; an entity whose Cash account goes is noted.       *)
LEMMA AccountsKeepTeams ==
  ASSUME TeamInv,
         UNCHANGED <<people, tenancy, entities, entityCount, staff, setupComplete, request, half>>,
         charts' = [x \in Entities |-> charts'[x]],
         \A x \in entities : HasCash(x.id) => HasCash(x.id)'
  PROVE  TeamInv'
<1>1. EstateHolds'
  BY DEF TeamInv, EstateHolds
<1>2. UNCHANGED members
  BY DEF tenancy
<1>3. StaffBelongs'
  BY <1>2 DEF TeamInv, StaffBelongs, Member, Enrols, Idle, Resting
<1> QED BY <1>1, <1>3, EstateKeepsTeams

(* An administrator changes the chart of an entity.                        *)
LEMMA ChartKeepsTeams ==
  ASSUME TeamInv, NEW a, NEW t, NEW e \in Entities, NEW gone, NEW new, ChangeChart(a, t, e, gone, new)
  PROVE  TeamInv'
<1>1. /\ UNCHANGED <<people, tenancy, entities, entityCount, seeds, staff, setupComplete, request,
                      half>>
      /\ charts' = [charts EXCEPT ![e] = (@ \ gone) \cup new]
      /\ bare' = IF Cash \in gone THEN bare \cup {e} ELSE bare
  BY DEF ChangeChart
<1>2. charts = [x \in Entities |-> charts[x]]
  BY DEF TeamInv, EstateHolds
<1>3. charts' = [x \in Entities |-> charts'[x]]
  BY <1>1, <1>2
<1>4. ASSUME NEW x \in entities, HasCash(x.id) PROVE HasCash(x.id)'
  <2>1. CASE x.id = e
    <3>1. charts'[e] = (charts[e] \ gone) \cup new
      BY <1>1, <1>2
    <3> QED BY <1>1, <1>4, <2>1, <3>1 DEF HasCash
  <2>2. CASE x.id # e
    <3>1. charts'[x.id] = charts[x.id]
      BY <1>1, <1>2, <2>2
    <3> QED BY <1>1, <1>4, <3>1 DEF HasCash
  <2> QED BY <2>1, <2>2
<1> QED BY <1>1, <1>3, <1>4, AccountsKeepTeams

(* seedEntityAccounts: the account is there, or its insert was lost.       *)
LEMMA SeedKeepsTeams ==
  ASSUME TeamInv, NEW s \in seeds, SeedAccount(s) PROVE TeamInv'
<1>0. PICK e : e = s.entity
  OBVIOUS
<1>1. /\ UNCHANGED <<people, tenancy, entities, entityCount, staff, setupComplete, request, half>>
      /\ seeds' = seeds \ {s}
      /\ \/ /\ charts' = IF \E x \in entities : x.id = e
                          THEN [charts EXCEPT ![e] = @ \cup {s.name}] ELSE charts
            /\ bare' = bare
         \/ /\ bare' = IF s.name = Cash THEN bare \cup {e} ELSE bare
            /\ charts' = charts
  BY <1>0 DEF SeedAccount
<1>2. charts = [x \in Entities |-> charts[x]]
  BY DEF TeamInv, EstateHolds
<1>3. charts' = [x \in Entities |-> charts'[x]]
  BY <1>1, <1>2
<1>4. ASSUME NEW x \in entities, HasCash(x.id) PROVE HasCash(x.id)'
  <2> DEFINE own == [entity |-> x.id, name |-> Cash]
  <2>1. own.entity = x.id /\ own.name = Cash
    OBVIOUS
  <2>2. x.id \in Entities
    BY AccessConstants DEF TeamInv, EstateHolds, Entities
  <2>3. HasCash(x.id)' <=> Cash \in charts'[x.id] \/ x.id \in bare' \/ own \in seeds'
    BY DEF HasCash
  <2>4. Cash \in charts[x.id] \/ x.id \in bare \/ own \in seeds
    BY <1>4 DEF HasCash
  <2> HIDE DEF own
  <2>5. CASE own = s
    <3>1. e = x.id /\ s.name = Cash
      BY <1>0, <2>1, <2>5
    <3> QED BY <1>1, <1>2, <2>2, <2>3, <3>1
  <2>6. CASE own # s
    <3>1. charts[x.id] \subseteq charts'[x.id] /\ bare \subseteq bare'
      BY <1>1, <1>2, <2>2
    <3> QED BY <1>1, <2>3, <2>4, <2>6, <3>1
  <2> QED BY <2>5, <2>6
<1> QED BY <1>1, <1>3, <1>4, AccountsKeepTeams

(* upsertAdminUser: the administrator's default tenant is one it is in.    *)
LEMMA ResetKeepsTeams ==
  ASSUME TeamInv, NEW u \in Users, resetAdminPassword(u) PROVE TeamInv'
<1>1. PICK t : /\ t \in IF home[u] # NoTenant THEN {home[u]}
                        ELSE IF \E x \in Tenants : Member(x, u) THEN {x \in Tenants : Member(x, u)}
                        ELSE {1}
               /\ members' = {m \in members : ~ (m.tenant = t /\ m.user = u)}
                                \cup {[tenant |-> t, user |-> u, role |-> "admin"]}
               /\ home' = [home EXCEPT ![u] = t]
  BY DEF resetAdminPassword
<1>2. /\ tenants' = IF tenants = 0 THEN 1 ELSE tenants
      /\ users' = users \cup {u} /\ admins' = admins \cup {u} /\ setupComplete' = TRUE
      /\ UNCHANGED <<estate, request, history>>
  BY DEF resetAdminPassword
<1>3. t \in Nat \ {NoTenant}
  <2>1. CASE home[u] # NoTenant
    BY <1>1, <2>1 DEF TeamInv, HomesHold
  <2>2. CASE home[u] = NoTenant /\ \E x \in Tenants : Member(x, u)
    BY <1>1, <2>2, AccessConstants DEF Tenants, NoTenant
  <2>3. CASE home[u] = NoTenant /\ ~ \E x \in Tenants : Member(x, u)
    BY <1>1, <2>3 DEF NoTenant
  <2> QED BY <2>1, <2>2, <2>3
<1> DEFINE n == [tenant |-> t, user |-> u, role |-> "admin"]
<1>4. /\ n.tenant = t /\ n.user = u /\ n \in members'
      /\ \A m \in members : m \in members' \/ (m.tenant = t /\ m.user = u)
      /\ members' \subseteq members \cup {n}
  BY <1>1
<1> HIDE DEF n
<1>5. \A v, w : Member(v, w) => Member(v, w)'
  BY <1>4 DEF Member
<1>6. Member(t, u)'
  BY <1>4 DEF Member
<1>7. Kept
  BY <1>1, <1>2, <1>3, <1>5 DEF Kept, TeamInv, HomesHold
<1>8. HomesHold'
  <2>1. home' \in [Users -> Nat] /\ home'[u] = t
    BY <1>1, <1>3 DEF TeamInv, HomesHold
  <2>2. ASSUME NEW v \in Users, home'[v] # NoTenant PROVE Member(home[v], v)'
    <3>1. CASE v = u
      BY <1>6, <2>1, <3>1 DEF Member
    <3>2. CASE v # u
      <4>1. home'[v] = home[v] /\ Member(home[v], v)
        BY <1>1, <2>2, <3>2 DEF TeamInv, HomesHold
      <4> QED BY <1>4, <4>1 DEF Member
    <3> QED BY <3>1, <3>2
  <2>3. \A m \in members' : m.tenant \in Nat \ {NoTenant}
    BY <1>3, <1>4 DEF TeamInv, HomesHold
  <2>4. tenants' \in Nat /\ users' \subseteq Users
    BY <1>2 DEF TeamInv, HomesHold
  <2>5. \E v \in admins' \cap Users : home'[v] # NoTenant
    BY <1>2, <1>3, <2>1
  <2> QED BY <2>1, <2>2, <2>3, <2>4, <2>5 DEF HomesHold
<1>9. RequestsFit'
  BY <1>2, <1>7, RequestsRest DEF TeamInv
<1>10. EstateHolds'
  BY <1>2, EstateStays DEF TeamInv, history
<1>11. StaffBelongs'
  <2>1. UNCHANGED <<staff, entities, half, request>>
    BY <1>2 DEF estate, history
  <2> QED BY <1>5, <2>1 DEF TeamInv, StaffBelongs, Enrols, Idle, Resting
<1> QED BY <1>8, <1>9, <1>10, <1>11 DEF TeamInv

(* Every statement of every request keeps the teams.                       *)
LEMMA TeamInvStep == TeamInv /\ [AccessNext]_accessVars => TeamInv'
<1> SUFFICES ASSUME TeamInv, [AccessNext]_accessVars PROVE TeamInv'
  OBVIOUS
<1>1. CASE \E p \in Clerks : Handlers(p)
  BY <1>1, HandlersKeepTeams
<1>2. CASE \E p \in Clerks : Statements(p)
  BY <1>2, FailureKeepsTeams, CreateTenantKeepsTeams, FindTenantKeepsTeams, CreateUserKeepsTeams,
     MembershipKeepsTeams, DefaultKeepsTeams, CreateStaffKeepsTeams, LookUpKeepsTeams,
     SetupEntityKeepsTeams, CompleteKeepsTeams, TokensKeepTeams DEF Statements
<1>3. CASE \E u \in Users, t \in Tenants : handleLogoutAll(u, t)
  BY <1>3, NothingOfTeams DEF handleLogoutAll
<1>4. ASSUME NEW u \in Users, NEW t \in Tenants, Office(u, t) PROVE TeamInv'
  <2>1. ASSUME NEW e \in Entities, Chart(u, t, e) PROVE TeamInv'
    BY <2>1, ChartKeepsTeams DEF Chart, createAccount, updateAccount,
       deleteAccount
  <2> QED BY <1>4, <2>1, CreateEntityKeepsTeams, DeleteEntityKeepsTeams, StaffKeepsTeams DEF Office
<1>5. CASE \E s \in seeds : SeedAccount(s)
  BY <1>5, SeedKeepsTeams
<1>7. CASE \E u \in Users : resetAdminPassword(u)
  BY <1>7, ResetKeepsTeams
<1>8. CASE UNCHANGED accessVars
  BY <1>8, NothingOfTeams DEF accessVars
<1> QED BY <1>1, <1>2, <1>3, <1>4, <1>5, <1>7, <1>8 DEF AccessNext

(* Whatever requests run side by side and whichever stop half-way: who     *)
(* serves an entity is in its tenant (CreateMember), a default tenant is   *)
(* one its user is in (SetDefaultTenant), a completed setup has left an    *)
(* administrator who can log in, and an entity has its Cash account, once  *)
(* nothing that is still to be written is missing.                         *)
THEOREM TeamsAreSettled == AccessSpec => []MembershipsHold
<1>1. TeamInv => MembershipsHold
  <2> SUFFICES ASSUME TeamInv PROVE MembershipsHold
    OBVIOUS
  <2>1. ASSUME NEW s \in staff, NEW e \in entities, s.entity = e.id
        PROVE  Member(e.tenant, s.user) \/ Unsettled(s.user)
    BY <2>1 DEF TeamInv, StaffBelongs, Enrols, Unsettled
  <2>2. \A u \in users : home[u] # NoTenant => Member(home[u], u)
    BY DEF TeamInv, HomesHold
  <2>3. setupComplete => \E u \in admins : home[u] # NoTenant
    BY DEF TeamInv, HomesHold
  <2>4. \A e \in entities : HasCash(e.id)
    BY DEF TeamInv, EstateHolds
  <2> QED BY <2>1, <2>2, <2>3, <2>4 DEF MembershipsHold
<1> QED BY TeamInvInit, TeamInvStep, <1>1, PTL DEF AccessSpec

(***************************************************************************)
(* Types of users, tenants, members and sessions.                          *)
(***************************************************************************)

(* A request's locals are of their types; a token's request has a token.   *)
LocalsTyped(r) ==
    /\ r.user \in Users /\ r.tenant \in 0 .. MaxTenants /\ r.entity \in 0 .. MaxEntities
    /\ r.role \in Roles /\ r.session \in 0 .. MaxSessions
    /\ Head(r.todo) \in {"exchange", "revoke"} => r.session # 0

RequestsTyped == \A p \in Clerks : Idle(p) \/ LocalsTyped(request[p])

AccessTypes == AccessTypeOK /\ RequestsTyped

(* No plan comes to a token after its first statement.                     *)
LEMMA TokensComeFirst ==
  ASSUME NEW todo \in TeamPlans, Len(todo) # 1
  PROVE  Head(Tail(todo)) \notin {"exchange", "revoke"}
BY PlanSteps DEF TeamPlans

(* A request's later statements find their locals.                         *)
LEMMA RestTyped ==
  ASSUME NEW r, r = Request(r.user, r.tenant, r.entity, r.role, r.session, r.todo),
         r.todo \in TeamPlans, LocalsTyped(r), NEW t \in 0 .. MaxTenants,
         NEW e \in 0 .. MaxEntities
  PROVE  /\ Rest(r) = Resting \/ LocalsTyped(Rest(r))
         /\ Rest([r EXCEPT !.tenant = t]) = Resting \/ LocalsTyped(Rest([r EXCEPT !.tenant = t]))
         /\ Rest([r EXCEPT !.entity = e]) = Resting \/ LocalsTyped(Rest([r EXCEPT !.entity = e]))
<1>1. \A x \in 0 .. MaxTenants, o \in 0 .. MaxEntities :
         LET y == Rest(Request(r.user, x, o, r.role, r.session, r.todo)) IN
         y = Resting \/ LocalsTyped(y)
  <2> TAKE x \in 0 .. MaxTenants, o \in 0 .. MaxEntities
  <2>1. CASE Len(r.todo) = 1
    BY <2>1, RestOf
  <2>2. CASE Len(r.todo) # 1
    <3> DEFINE y == Request(r.user, x, o, r.role, r.session, Tail(r.todo))
    <3>1. Rest(Request(r.user, x, o, r.role, r.session, r.todo)) = y
      BY <2>2, RestOf
    <3>2. y.user = r.user /\ y.tenant = x /\ y.entity = o /\ y.role = r.role
          /\ y.session = r.session /\ y.todo = Tail(r.todo)
      BY DEF Request
    <3>3. Head(Tail(r.todo)) \notin {"exchange", "revoke"}
      BY <2>2, TokensComeFirst
    <3> HIDE DEF y
    <3>4. LocalsTyped(y)
      BY <3>2, <3>3 DEF LocalsTyped
    <3> QED BY <3>1, <3>4
  <2> QED BY <2>1, <2>2
<1>2. [r EXCEPT !.tenant = t] = Request(r.user, t, r.entity, r.role, r.session, r.todo)
  BY DEF Request
<1>4. [r EXCEPT !.entity = e] = Request(r.user, r.tenant, e, r.role, r.session, r.todo)
  BY DEF Request
<1>3. r.tenant \in 0 .. MaxTenants /\ r.entity \in 0 .. MaxEntities
  BY DEF LocalsTyped
<1> QED BY <1>1, <1>2, <1>3, <1>4

(* One request moves and is of its type.                                   *)
LEMMA OneTyped ==
  ASSUME RequestsTyped, RequestsFit, NEW p \in Clerks, NEW r,
         request' = [request EXCEPT ![p] = r], r = Resting \/ LocalsTyped(r)
  PROVE  RequestsTyped'
<1> SUFFICES ASSUME NEW q \in Clerks PROVE Idle(q)' \/ LocalsTyped(request'[q])
  BY DEF RequestsTyped
<1>1. request'[p] = r /\ (q # p => request'[q] = request[q])
  BY DEF RequestsFit
<1>2. CASE q = p
  BY <1>1, <1>2 DEF Idle
<1>3. CASE q # p
  BY <1>1, <1>3 DEF Idle, RequestsTyped
<1> QED BY <1>2, <1>3

(* A request stops, goes on, or goes on with what it has created.          *)
LEMMA MovesTyped ==
  ASSUME RequestsTyped, RequestsFit, NEW p \in Clerks, ~ Idle(p), NEW t \in 0 .. MaxTenants,
         NEW e \in 0 .. MaxEntities,
         \/ Stop(p) \/ Advance(p)
         \/ request' = [request EXCEPT ![p] = Rest([@ EXCEPT !.tenant = t])]
         \/ request' = [request EXCEPT ![p] = Rest([@ EXCEPT !.entity = e])]
  PROVE  RequestsTyped'
<1> DEFINE r == request[p]
<1>1. /\ r = Request(r.user, r.tenant, r.entity, r.role, r.session, r.todo) /\ r.todo \in TeamPlans
      /\ LocalsTyped(r)
  BY DEF RequestsTyped, RequestsFit, Fit
<1>2. /\ Rest(r) = Resting \/ LocalsTyped(Rest(r))
      /\ Rest([r EXCEPT !.tenant = t]) = Resting \/ LocalsTyped(Rest([r EXCEPT !.tenant = t]))
      /\ Rest([r EXCEPT !.entity = e]) = Resting \/ LocalsTyped(Rest([r EXCEPT !.entity = e]))
  <2> HIDE DEF r
  <2> QED BY <1>1, RestTyped
<1>3. CASE Stop(p)
  BY <1>3, OneTyped DEF Stop
<1>4. CASE Advance(p)
  <2>1. request' = [request EXCEPT ![p] = Rest(r)]
    BY <1>4 DEF Advance
  <2> QED BY <1>2, <2>1, OneTyped
<1>5. CASE request' = [request EXCEPT ![p] = Rest([@ EXCEPT !.tenant = t])]
  <2>1. request' = [request EXCEPT ![p] = Rest([r EXCEPT !.tenant = t])]
    BY <1>5
  <2> QED BY <1>2, <2>1, OneTyped
<1>6. CASE request' = [request EXCEPT ![p] = Rest([@ EXCEPT !.entity = e])]
  <2>1. request' = [request EXCEPT ![p] = Rest([r EXCEPT !.entity = e])]
    BY <1>6
  <2> QED BY <1>2, <2>1, OneTyped
<1> QED BY <1>3, <1>4, <1>5, <1>6

(* Nobody's request changes.                                               *)
LEMMA RequestsRestTyped == ASSUME RequestsTyped, UNCHANGED request PROVE RequestsTyped'
BY DEF RequestsTyped, Idle

(* A request begins with locals of their types.                            *)
LEMMA BeginsTyped ==
  ASSUME AccessTypes, RequestsFit, NEW p \in Clerks,
         NEW u \in Users, NEW t \in 0 .. MaxTenants, NEW e \in 0 .. MaxEntities, NEW r \in Roles,
         NEW s \in 0 .. MaxSessions, NEW plan, Head(plan) \in {"exchange", "revoke"} => s # 0,
         Opens(p, Request(u, t, e, r, s, plan)), accessFaults' \in 0 .. MaxAccessFaults
  PROVE  AccessTypes'
<1> DEFINE new == Request(u, t, e, r, s, plan)
<1>1. LocalsTyped(new)
  BY DEF LocalsTyped, Request
<1>2. RequestsTyped'
  <2>1. request' = [request EXCEPT ![p] = new]
    BY DEF Opens
  <2> HIDE DEF new
  <2> QED BY <1>1, <2>1, OneTyped DEF AccessTypes
<1>3. AccessTypeOK'
  <2>1. requests' \in 0 .. MaxRequests
    BY AccessConstants DEF Opens, Counted, AccessTypes, AccessTypeOK
  <2> QED BY <2>1 DEF Opens, AccessTypes, AccessTypeOK, people, tenancy, estate, tokens, history
<1> QED BY <1>2, <1>3 DEF AccessTypes

(* Every handler begins, answers or refuses.                               *)
LEMMA HandlersTyped ==
  ASSUME AccessTypes, RequestsFit, NEW p \in Clerks, Handlers(p) PROVE AccessTypes'
<1>0. 0 \in 0 .. MaxTenants /\ 0 \in 0 .. MaxEntities /\ 0 \in 0 .. MaxSessions
      /\ Tenants \subseteq 0 .. MaxTenants /\ Entities \subseteq 0 .. MaxEntities
      /\ NoTenant \in 0 .. MaxTenants /\ "admin" \in Roles /\ "user" \in Roles
  BY AccessConstants DEF Tenants, Entities, NoTenant, Roles
<1>k. UNCHANGED accessFaults => accessFaults' \in 0 .. MaxAccessFaults
  BY DEF AccessTypes, AccessTypeOK
<1>1. ASSUME NEW u \in Users, handleSetup(p, u) PROVE AccessTypes'
  <2> DEFINE plan == <<"tenant", "user", "member", "home", "entity", "complete">>
  <2>1. /\ Head(plan) = "tenant" /\ Opens(p, Request(u, NoTenant, 0, "admin", 0, plan))
        /\ UNCHANGED accessFaults
    BY <1>1 DEF handleSetup, Begin
  <2> HIDE DEF plan
  <2> QED BY <1>0, <1>k, <2>1, BeginsTyped
<1>2. ASSUME NEW u \in Users, handleRegister(p, u) PROVE AccessTypes'
  <2> DEFINE new == Request(u, tenants + 1, 0, "user", 0, <<"session">>)
             m == [tenant |-> tenants + 1, user |-> u, role |-> "user"]
  <2>1. tenants + 1 \in 1 .. MaxTenants /\ requests' \in 0 .. MaxRequests
    BY <1>2, AccessConstants DEF handleRegister, Counted, AccessTypes, AccessTypeOK
  <2>2. LocalsTyped(new)
    BY <1>0, <2>1 DEF LocalsTyped, Request
  <2>3. RequestsTyped'
    <3>1. request' = [request EXCEPT ![p] = new]
      BY <1>2 DEF handleRegister
    <3> HIDE DEF new
    <3> QED BY <2>2, <3>1, OneTyped DEF AccessTypes
  <2>4. users' \subseteq Users /\ admins' \subseteq users'
    BY <1>2 DEF handleRegister, AccessTypes, AccessTypeOK
  <2>5. home' \in [Users -> 0 .. MaxTenants] /\ tenants' \in 0 .. MaxTenants
    BY <1>2, <2>1 DEF handleRegister, AccessTypes, AccessTypeOK
  <2>6. members' \subseteq [tenant : Tenants, user : Users, role : Roles]
    BY <1>0, <1>2, <2>1 DEF handleRegister, AccessTypes, AccessTypeOK, Tenants
  <2>7. AccessTypeOK'
    BY <1>2, <2>1, <2>4, <2>5, <2>6 DEF handleRegister, AccessTypes, AccessTypeOK, estate, tokens, history
  <2> QED BY <2>3, <2>7 DEF AccessTypes
<1>3. ASSUME NEW u \in Users, NEW t \in {NoTenant} \cup Tenants, handleLogin(p, u, t) PROVE AccessTypes'
  <2>1. PICK x \in resolveTenantForLogin(u, t) :
           Opens(p, Request(u, x, 0, "user", 0, <<"session">>))
    BY <1>3 DEF handleLogin
  <2>4. accessFaults' \in 0 .. MaxAccessFaults
    BY <1>3, AccessConstants DEF handleLogin, AccessFault, AccessTypes, AccessTypeOK
  <2>2. x \in 0 .. MaxTenants
    BY <1>0, <1>3 DEF resolveTenantForLogin, AccessTypes, AccessTypeOK
  <2> DEFINE plan == <<"session">>
  <2>3. Head(plan) = "session" /\ Opens(p, Request(u, x, 0, "user", 0, plan))
    BY <2>1
  <2> HIDE DEF plan
  <2> QED BY <1>0, <2>2, <2>3, <2>4, BeginsTyped
<1>4. ASSUME NEW u \in Users, NEW t \in Tenants, NEW x \in Tenants, handleSwitchTenant(p, u, t, x)
      PROVE  AccessTypes'
  <2> DEFINE plan == <<"session">>
  <2>1. /\ Head(plan) = "session" /\ Opens(p, Request(u, x, 0, "user", 0, plan))
        /\ UNCHANGED accessFaults
    BY <1>4 DEF handleSwitchTenant, Begin
  <2> HIDE DEF plan
  <2> QED BY <1>0, <1>k, <2>1, BeginsTyped
<1>5. ASSUME NEW a \in Users, NEW t \in Tenants, NEW u \in Users, NEW g \in {NoTenant} \cup Tenants,
             NEW r \in {"admin", "user"}, handleCreateUser(p, a, t, u, g, r)
      PROVE  AccessTypes'
  <2> DEFINE plan == <<"user">> \o (IF g = NoTenant THEN <<"tenant">> ELSE <<"known">>)
                        \o <<"member", "home">>
  <2>1. Opens(p, Request(u, g, 0, r, 0, plan)) /\ UNCHANGED accessFaults
    BY <1>5 DEF handleCreateUser, Begin
  <2>2. Head(plan) = "user"
    <3>1. CASE g = NoTenant
      BY <3>1
    <3>2. CASE g # NoTenant
      BY <3>2
    <3> QED BY <3>1, <3>2
  <2> HIDE DEF plan
  <2> QED BY <1>0, <1>k, <2>1, <2>2, BeginsTyped
<1>6. ASSUME NEW a \in Users, NEW t \in Tenants, NEW e \in Entities, NEW u \in Users, NEW r \in Roles,
             handleCreateMember(p, a, t, e, u, r)
      PROVE  AccessTypes'
  <2> DEFINE plan == <<"staff", "look", "member">>
  <2>1. /\ Head(plan) = "staff" /\ Opens(p, Request(u, t, e, r, 0, plan))
        /\ UNCHANGED accessFaults
    BY <1>6 DEF handleCreateMember, Begin
  <2> HIDE DEF plan
  <2> QED BY <1>0, <1>k, <2>1, BeginsTyped
<1>7. ASSUME NEW s \in sessions, handleRefresh(p, s) \/ handleLogout(p, s) PROVE AccessTypes'
  <2>1. s.user \in Users /\ s.tenant \in Tenants /\ s.id \in 1 .. MaxSessions
    BY DEF AccessTypes, AccessTypeOK
  <2>2. s.id \in 0 .. MaxSessions /\ s.id # 0
    BY <2>1, AccessConstants
  <2>3. PICK plan : /\ Opens(p, Request(s.user, s.tenant, 0, "user", s.id, plan))
                    /\ UNCHANGED accessFaults
    BY <1>7 DEF handleRefresh, handleLogout, Begin
  <2> QED BY <1>0, <1>k, <2>1, <2>2, <2>3, BeginsTyped
<1> QED BY <1>1, <1>2, <1>3, <1>4, <1>5, <1>6, <1>7 DEF Handlers, Roles

(* A request's plan says what it has, so that what it writes is typed.     *)
LEMMA WritesTyped ==
  ASSUME AccessTypes, AccessInv, TeamInv, NEW p \in Clerks, ~ Idle(p)
  PROVE  /\ LocalsTyped(request[p]) /\ request[p].tenant \in 0 .. MaxTenants
         /\ request[p].user \in Users /\ request[p].role \in Roles
         /\ request[p].session \in 0 .. MaxSessions
         /\ Head(request[p].todo) \in {"member", "entity", "session"} => request[p].tenant \in Tenants
         /\ Head(request[p].todo) \in {"exchange", "revoke"} => request[p].session \in 1 .. MaxSessions
<1> DEFINE r == request[p]
<1>1. LocalsTyped(r) /\ Fit(r) /\ Sound(r)
  BY DEF AccessTypes, RequestsTyped, AccessInv, Locals, TeamInv, RequestsFit
<1>2. r.todo \in TeamPlans /\ (r.todo \in Placed => r.tenant \in Nat \ {NoTenant})
  BY <1>1 DEF Fit
<1>3. Head(r.todo) \in {"member", "entity"} => r.tenant \in Tenants
  <2>1. Head(r.todo) \in {"member", "entity"} => r.todo \in Placed
    BY <1>2, NextPlan DEF Leads, Ends, Placed, Appointing
  <2> QED BY <1>1, <1>2, <2>1 DEF LocalsTyped, Tenants, NoTenant
<1>4. Head(r.todo) = "session" => r.tenant \in Tenants
  <2>1. Head(r.todo) = "session" => Issues(r)
    BY <1>2, NextPlan DEF Ends, Renew1, Issues
  <2>2. Issues(r) => Member(r.tenant, r.user)
    <3>1. Issues(r) => r.todo \notin Seq(Ordinary)
      BY PlansDiffer DEF Issues
    <3> QED BY <1>1, <3>1 DEF Sound
  <2>3. Member(r.tenant, r.user) => r.tenant \in Tenants
    BY DEF Member, AccessTypes, AccessTypeOK
  <2> QED BY <2>1, <2>2, <2>3
<1>5. Head(r.todo) \in {"exchange", "revoke"} => r.session \in 1 .. MaxSessions
  BY <1>1, AccessConstants DEF LocalsTyped
<1> QED BY <1>1, <1>3, <1>4, <1>5 DEF LocalsTyped

(* What a new entity leaves typed (CreateWithOwner).                       *)
LEMMA OwnerTyped ==
  ASSUME AccessTypes, NEW u \in Users, NEW t \in Tenants, NEW template \in Templates,
         CreateWithOwner(u, t, template)
  PROVE  /\ entities' \subseteq [id : Entities, tenant : Tenants]
         /\ entityCount' \in 0 .. MaxEntities /\ charts' = charts
         /\ seeds' \subseteq [entity : Entities, name : {Cash, Fees}]
         /\ staff' \subseteq [entity : Entities, user : Users, role : Roles]
<1> DEFINE n == entityCount + 1
<1>1. n \in Entities /\ n \in 0 .. MaxEntities
  BY AccessConstants DEF CreateWithOwner, Entities, AccessTypes, AccessTypeOK
<1>2. SeedNames(template) \subseteq {Cash, Fees}
  BY DEF SeedNames, Templates
<1>3. entities' \subseteq [id : Entities, tenant : Tenants] /\ entityCount' \in 0 .. MaxEntities
  BY <1>1 DEF CreateWithOwner, AccessTypes, AccessTypeOK
<1>4. staff' \subseteq [entity : Entities, user : Users, role : Roles]
  BY <1>1 DEF CreateWithOwner, AccessTypes, AccessTypeOK, Roles
<1>5. seeds' \subseteq [entity : Entities, name : {Cash, Fees}] /\ charts' = charts
  BY <1>1, <1>2 DEF CreateWithOwner, AccessTypes, AccessTypeOK
<1> QED BY <1>3, <1>4, <1>5

(* Every statement of a request writes what is of its type.                *)
LEMMA StatementsTyped ==
  ASSUME AccessTypes, AccessInv, TeamInv, NEW p \in Clerks, Statements(p) PROVE AccessTypes'
<1> USE DEF AccessTypes
<1>a. RequestsFit
  BY DEF TeamInv
<1>f. ~ Idle(p)
  BY DEF Statements, StatementFails, CreateTenant, FindTenant, CreateUser, CreateTenantMember,
         SetDefaultTenant, CreateStaff, LookUpTenantMember, SetSetupComplete, SetupEntity,
         RevokeIfActive, Revoke, issueSession, At
<1>b. /\ LocalsTyped(request[p]) /\ request[p].tenant \in 0 .. MaxTenants
      /\ request[p].user \in Users /\ request[p].role \in Roles
      /\ request[p].session \in 0 .. MaxSessions
      /\ Head(request[p].todo) \in {"member", "entity", "session"} => request[p].tenant \in Tenants
      /\ Head(request[p].todo) \in {"exchange", "revoke"} => request[p].session \in 1 .. MaxSessions
  BY <1>f, WritesTyped
<1>e. 0 \in 0 .. MaxEntities
  BY AccessConstants
<1>m. (Stop(p) \/ Advance(p)) => RequestsTyped'
  BY <1>a, <1>b, <1>e, <1>f, MovesTyped
<1>1. CASE StatementFails(p)
  <2>1. AccessTypeOK'
    BY <1>1, <1>b, AccessConstants DEF StatementFails, AccessFault, AccessTypeOK, people, tenancy, estate, tokens
  <2> QED BY <1>1, <1>m, <2>1 DEF StatementFails
<1>2. CASE CreateTenant(p)
  <2>1. tenants + 1 \in 0 .. MaxTenants
    BY <1>2, AccessConstants DEF CreateTenant, AccessTypeOK
  <2>2. RequestsTyped'
    BY <1>2, <1>a, <1>e, <1>f, <2>1, MovesTyped DEF CreateTenant
  <2>3. AccessTypeOK'
    BY <1>2, <2>1 DEF CreateTenant, AccessTypeOK, people, estate, tokens, history
  <2> QED BY <2>2, <2>3
<1>3. CASE FindTenant(p)
  <2>1. AccessTypeOK'
    BY <1>3, <1>b DEF FindTenant, AccessTypeOK, people, tenancy, estate, tokens
  <2> QED BY <1>3, <1>m, <2>1 DEF FindTenant
<1>4. CASE CreateUser(p)
  <2>1. users' \subseteq Users /\ admins' \subseteq users' /\ home' \in [Users -> 0 .. MaxTenants]
    BY <1>4, <1>b DEF CreateUser, AccessTypeOK, people
  <2>2. AccessTypeOK'
    BY <1>4, <2>1 DEF CreateUser, AccessTypeOK, tenancy, estate, tokens, history
  <2> QED BY <1>4, <1>m, <2>2 DEF CreateUser
<1>5. CASE CreateTenantMember(p)
  <2>1. request[p].tenant \in Tenants
    BY <1>5, <1>b DEF CreateTenantMember, At
  <2>2. members' \subseteq [tenant : Tenants, user : Users, role : Roles]
    BY <1>5, <1>b, <2>1 DEF CreateTenantMember, AccessTypeOK, Roles
  <2>3. AccessTypeOK'
    BY <1>5, <2>2 DEF CreateTenantMember, AccessTypeOK, people, estate, tokens, history
  <2> QED BY <1>5, <1>m, <2>3 DEF CreateTenantMember
<1>6. CASE SetDefaultTenant(p)
  <2>1. home' \in [Users -> 0 .. MaxTenants]
    BY <1>6, <1>b DEF SetDefaultTenant, AccessTypeOK
  <2>2. AccessTypeOK'
    BY <1>6, <2>1 DEF SetDefaultTenant, AccessTypeOK, tenancy, estate, tokens, history
  <2> QED BY <1>6, <1>m, <2>2 DEF SetDefaultTenant
<1>7. CASE CreateStaff(p)
  <2>1. staff' \subseteq [entity : Entities, user : Users, role : Roles]
    <3> DEFINE w == request[p]
    <3>1. CASE UNCHANGED staff
      BY <3>1 DEF AccessTypeOK
    <3>2. CASE /\ [id |-> w.entity, tenant |-> w.tenant] \in entities
               /\ staff' = staff \cup {[entity |-> w.entity, user |-> w.user, role |-> w.role]}
      <4>1. [id |-> w.entity, tenant |-> w.tenant] \in [id : Entities, tenant : Tenants]
        BY <3>2 DEF AccessTypeOK
      <4>2. w.entity \in Entities
        BY <4>1
      <4> QED BY <1>b, <3>2, <4>2 DEF AccessTypeOK
    <3> QED BY <1>7, <3>1, <3>2 DEF CreateStaff
  <2>2. AccessTypeOK'
    BY <1>7, <2>1 DEF CreateStaff, AccessTypeOK, people, tenancy, tokens, history
  <2> QED BY <1>7, <1>m, <2>2 DEF CreateStaff
<1>8. CASE LookUpTenantMember(p)
  <2>1. AccessTypeOK'
    BY <1>8 DEF LookUpTenantMember, AccessTypeOK, people, tenancy, estate, tokens, history
  <2> QED BY <1>8, <1>m, <2>1 DEF LookUpTenantMember
<1>9. CASE SetSetupComplete(p)
  <2>1. AccessTypeOK'
    BY <1>9 DEF SetSetupComplete, AccessTypeOK, people, tenancy, estate, tokens, history
  <2> QED BY <1>9, <1>m, <2>1 DEF SetSetupComplete
<1>10. ASSUME NEW template \in Templates, SetupEntity(p, template) PROVE AccessTypes'
  <2>1. request[p].tenant \in Tenants
    BY <1>10, <1>b DEF SetupEntity, At
  <2>2. CASE UNCHANGED estate /\ Advance(p)
    <3>1. AccessTypeOK'
      BY <1>10, <2>2 DEF SetupEntity, AccessTypeOK, people, tenancy, estate, tokens, history
    <3> QED BY <1>m, <2>2, <3>1
  <2>3. CASE /\ CreateWithOwner(request[p].user, request[p].tenant, template)
             /\ request' = [request EXCEPT ![p] = Rest([@ EXCEPT !.entity = entityCount + 1])]
    <3>1. /\ entities' \subseteq [id : Entities, tenant : Tenants]
          /\ entityCount' \in 0 .. MaxEntities /\ charts' = charts
          /\ seeds' \subseteq [entity : Entities, name : {Cash, Fees}]
          /\ staff' \subseteq [entity : Entities, user : Users, role : Roles]
      BY <1>b, <2>1, <2>3, OwnerTyped
    <3>2. AccessTypeOK'
      BY <1>10, <3>1 DEF SetupEntity, AccessTypeOK, people, tenancy, tokens, history
    <3>3. entityCount + 1 \in 0 .. MaxEntities
      BY <2>3, AccessConstants DEF CreateWithOwner, AccessTypeOK
    <3>4. RequestsTyped'
      BY <1>a, <1>b, <1>f, <2>3, <3>3, MovesTyped
    <3> QED BY <3>2, <3>4
  <2> QED BY <1>10, <2>2, <2>3 DEF SetupEntity
<1>11. CASE RevokeIfActive(p) \/ Revoke(p)
  <2>1. request[p].session \in 1 .. MaxSessions
    BY <1>11, <1>b DEF RevokeIfActive, Revoke, At
  <2>2. AccessTypeOK'
    BY <1>11, <2>1 DEF RevokeIfActive, Revoke, AccessTypeOK, people, tenancy, estate, history
  <2> QED BY <1>11, <1>m, <2>2 DEF RevokeIfActive, Revoke
<1>12. CASE issueSession(p)
  <2>1. request[p].tenant \in Tenants
    BY <1>12, <1>b DEF issueSession, At
  <2>2. NextSession \in 1 .. MaxSessions
    BY <1>12, FS_CardinalityType, AccessConstants DEF issueSession, NextSession, AccessInv, Numbered
  <2>3. sessions' \subseteq [id : 1 .. MaxSessions, user : Users, tenant : Tenants, from : 0 .. MaxSessions]
    BY <1>12, <1>b, <2>1, <2>2 DEF issueSession, AccessTypeOK
  <2>4. AccessTypeOK'
    BY <1>12, <2>3 DEF issueSession, AccessTypeOK, people, tenancy, estate, history
  <2> QED BY <1>12, <1>m, <2>4 DEF issueSession
<1> QED BY <1>1, <1>2, <1>3, <1>4, <1>5, <1>6, <1>7, <1>8, <1>9, <1>10, <1>11, <1>12 DEF Statements

(* The handlers of one statement: members, entities, accounts and staff.   *)
LEMMA OfficeTyped ==
  ASSUME AccessTypes, NEW u \in Users, NEW t \in Tenants, handleLogoutAll(u, t) \/ Office(u, t)
  PROVE  AccessTypes'
<1>1. UNCHANGED <<request, people, tenancy, setupComplete, half>> /\ Counted
  BY DEF handleLogoutAll, Office, Chart, handleCreateEntity, handleDeleteEntity, handleDeleteMember,
     handleUpdateMember, createAccount, updateAccount, deleteAccount, ChangeChart,
     history
<1>2. requests' \in 0 .. MaxRequests /\ RequestsTyped'
  BY <1>1, RequestsRestTyped, AccessConstants DEF Counted, AccessTypes, AccessTypeOK
<1>3. CASE handleLogoutAll(u, t)
  <2>1. revoked' \subseteq 1 .. MaxSessions
    BY <1>3 DEF handleLogoutAll, AccessTypes, AccessTypeOK
  <2> QED BY <1>2, <1>3, <2>1
          DEF handleLogoutAll, AccessTypes, AccessTypeOK, people, tenancy, estate, history
<1>4. ASSUME NEW template \in Templates, handleCreateEntity(u, t, template) PROVE AccessTypes'
  <2>1. /\ entities' \subseteq [id : Entities, tenant : Tenants]
        /\ entityCount' \in 0 .. MaxEntities /\ charts' = charts
        /\ seeds' \subseteq [entity : Entities, name : {Cash, Fees}]
        /\ staff' \subseteq [entity : Entities, user : Users, role : Roles]
    BY <1>4, OwnerTyped DEF handleCreateEntity
  <2> QED BY <1>2, <1>4, <2>1
          DEF handleCreateEntity, AccessTypes, AccessTypeOK, people, tenancy, tokens, history
<1>5. ASSUME NEW e \in Entities, handleDeleteEntity(u, t, e) PROVE AccessTypes'
  <2>1. charts' \in [Entities -> SUBSET {Cash, Fees}]
    BY <1>5 DEF handleDeleteEntity, AccessTypes, AccessTypeOK
  <2>2. staff' \subseteq staff /\ entities' \subseteq entities
    BY <1>5 DEF handleDeleteEntity
  <2> QED BY <1>2, <1>5, <2>1, <2>2
          DEF handleDeleteEntity, AccessTypes, AccessTypeOK, people, tenancy, tokens, history
<1>6. ASSUME NEW e \in Entities, NEW m \in staff, NEW r \in Roles,
             handleDeleteMember(u, t, e, m) \/ handleUpdateMember(u, t, e, m, r)
      PROVE  AccessTypes'
  <2>1. staff' \subseteq [entity : Entities, user : Users, role : Roles]
    BY <1>6 DEF handleDeleteMember, handleUpdateMember, AccessTypes, AccessTypeOK
  <2> QED BY <1>2, <1>6, <2>1
          DEF handleDeleteMember, handleUpdateMember, AccessTypes, AccessTypeOK, people, tenancy,
              tokens, history
<1>7. "user" \in Roles
  BY DEF Roles
<1>8. ASSUME NEW e \in Entities, Chart(u, t, e) PROVE AccessTypes'
  <2>1. PICK gone, new : ChangeChart(u, t, e, gone, new) /\ new \subseteq {Cash, Fees}
    BY <1>8 DEF Chart, createAccount, updateAccount, deleteAccount
  <2>2. charts' \in [Entities -> SUBSET {Cash, Fees}] /\ bare' \subseteq Entities
    BY <2>1 DEF ChangeChart, AccessTypes, AccessTypeOK
  <2> QED BY <1>2, <2>1, <2>2 DEF ChangeChart, AccessTypes, AccessTypeOK, people, tenancy, tokens
<1> QED BY <1>3, <1>4, <1>5, <1>6, <1>7, <1>8 DEF Office

(* An account that is inserted is one of the template's.                   *)
LEMMA SeedTyped == ASSUME AccessTypes, NEW s \in seeds, SeedAccount(s) PROVE AccessTypes'
<1>1. s.entity \in Entities /\ s.name \in {Cash, Fees}
  BY DEF AccessTypes, AccessTypeOK
<1>2. charts' \in [Entities -> SUBSET {Cash, Fees}]
  <2>1. charts \in [Entities -> SUBSET {Cash, Fees}]
    BY DEF AccessTypes, AccessTypeOK
  <2>2. charts' = charts \/ charts' = [charts EXCEPT ![s.entity] = @ \cup {s.name}]
    BY DEF SeedAccount
  <2> QED BY <1>1, <2>1, <2>2
<1>3. bare' \subseteq Entities /\ accessFaults' \in 0 .. MaxAccessFaults
  BY <1>1, AccessConstants DEF SeedAccount, AccessFault, AccessTypes, AccessTypeOK
<1>4. RequestsTyped'
  BY RequestsRestTyped DEF AccessTypes, SeedAccount
<1> QED BY <1>2, <1>3, <1>4 DEF SeedAccount, AccessTypes, AccessTypeOK, people, tenancy, tokens

(* The command line's reset makes its user an administrator of a tenant.   *)
LEMMA ResetTyped == ASSUME AccessTypes, NEW u \in Users, resetAdminPassword(u) PROVE AccessTypes'
<1>1. PICK t : /\ t \in IF home[u] # NoTenant THEN {home[u]}
                       ELSE IF \E x \in Tenants : Member(x, u) THEN {x \in Tenants : Member(x, u)}
                       ELSE {1}
               /\ members' = {m \in members : ~ (m.tenant = t /\ m.user = u)}
                                \cup {[tenant |-> t, user |-> u, role |-> "admin"]}
               /\ home' = [home EXCEPT ![u] = t]
  BY DEF resetAdminPassword
<1>2. home[u] \in 0 .. MaxTenants
  BY DEF AccessTypes, AccessTypeOK
<1>3. t \in Tenants /\ t \in 0 .. MaxTenants
  BY <1>1, <1>2, AccessConstants DEF Tenants, NoTenant
<1>4. members' \subseteq [tenant : Tenants, user : Users, role : Roles]
  BY <1>1, <1>3 DEF AccessTypes, AccessTypeOK, Roles
<1>5. home' \in [Users -> 0 .. MaxTenants]
  BY <1>1, <1>3 DEF AccessTypes, AccessTypeOK
<1>6. /\ tenants' \in 0 .. MaxTenants /\ requests' \in 0 .. MaxRequests
      /\ users' \subseteq Users /\ admins' \subseteq users' /\ setupComplete' \in BOOLEAN
  BY AccessConstants DEF resetAdminPassword, Counted, AccessTypes, AccessTypeOK
<1>7. UNCHANGED <<estate, tokens, request, history, accessFaults>>
  BY DEF resetAdminPassword
<1>8. RequestsTyped'
  BY <1>7, RequestsRestTyped DEF AccessTypes
<1> QED BY <1>4, <1>5, <1>6, <1>7, <1>8 DEF AccessTypes, AccessTypeOK, estate, tokens, history

(* Users, tenants, members, entities, staff and sessions are of their      *)
(* types, and ids within the bounds, whatever the requests do.             *)
THEOREM AccessTypesHold == AccessSpec => []AccessTypeOK
<1>1. AccessInit => AccessTypes
  <2> SUFFICES ASSUME AccessInit PROVE AccessTypes
    OBVIOUS
  <2>1. 0 \in 0 .. MaxTenants /\ 0 \in 0 .. MaxEntities /\ 0 \in 0 .. MaxRequests /\ 0 \in 0 .. MaxAccessFaults
    BY AccessConstants
  <2>2. home \in [Users -> 0 .. MaxTenants] /\ charts \in [Entities -> SUBSET {Cash, Fees}]
    BY <2>1 DEF AccessInit, NoTenant
  <2>3. users = {} /\ admins = {} /\ members = {} /\ entities = {} /\ staff = {} /\ sessions = {}
        /\ revoked = {} /\ seeds = {}
    BY DEF AccessInit
  <2>4. tenants \in 0 .. MaxTenants /\ entityCount = 0 /\ setupComplete = FALSE /\ requests = 0 /\ half = {} /\ bare = {}
        /\ accessFaults = 0
    BY AccessConstants DEF AccessInit, DefaultTenant
  <2>5. AccessTypeOK
    BY <2>1, <2>2, <2>3, <2>4 DEF AccessTypeOK
  <2>6. RequestsTyped
    BY DEF AccessInit, RequestsTyped, Idle
  <2> QED BY <2>5, <2>6 DEF AccessTypes
<1>2. AccessTypes /\ AccessInv /\ TeamInv /\ [AccessNext]_accessVars => AccessTypes'
  <2> SUFFICES ASSUME AccessTypes, AccessInv, TeamInv, [AccessNext]_accessVars PROVE AccessTypes'
    OBVIOUS
  <2>1. ASSUME NEW p \in Clerks, Handlers(p) PROVE AccessTypes'
    BY <2>1, HandlersTyped DEF TeamInv
  <2>2. ASSUME NEW p \in Clerks, Statements(p) PROVE AccessTypes'
    BY <2>2, StatementsTyped
  <2>3. CASE UNCHANGED accessVars
    BY <2>3, RequestsRestTyped DEF accessVars, people, tenancy, estate, tokens, history, AccessTypes, AccessTypeOK
  <2> QED BY <2>1, <2>2, <2>3, OfficeTyped, SeedTyped, ResetTyped DEF AccessNext
<1>3. AccessTypes => AccessTypeOK
  BY DEF AccessTypes
<1> QED BY <1>1, <1>2, <1>3, AccessInvInit, AccessInvStep, TeamInvInit, TeamInvStep, PTL DEF AccessSpec

(***************************************************************************)
(* The one-time codes of Mfa.tla.                                          *)
(***************************************************************************)
Requests == [kind : {"login", "confirm", "disable", "enable"}, code : Codes,
             secret : Nat, recovery : SUBSET RecoveryCodes]

(* What the table and the requests hold.                                   *)
Shapes ==
    /\ clock \in Nat
    /\ usedSteps \subseteq Steps
    /\ enrolments \in Nat
    /\ accepted \in [Codes -> Nat]
    /\ login \in [Phones -> {NoLogin} \cup Requests]
    /\ mfa \in [secret : Nat, enabled : BOOLEAN, recovery : SUBSET RecoveryCodes]

(* Until a request is held over, it presents a step that is still valid;   *)
(* an accepted step is recorded, or too old to be valid again.             *)
StepsAreRecorded ==
    /\ \A s \in Steps : accepted[s] <= 1
    /\ \A s \in Steps : accepted[s] = 1 => s \in usedSteps \/ s < clock - MFALeeway
    /\ \A p \in Phones :
          ~ Free(p) /\ login[p].code \in Steps => login[p].code \in ValidSteps

(* Until two requests overlap, each has the row as it is; a recovery code  *)
(* that is still listed has been accepted once less than it was given out. *)
RowsAreCurrent ==
    /\ \A p \in Phones : ~ Free(p) =>
          /\ login[p].secret = mfa.secret /\ login[p].recovery = mfa.recovery
          /\ login[p].code \in RecoveryCodes => login[p].code \in mfa.recovery
    /\ \A c \in RecoveryCodes : /\ accepted[c] <= enrolments
                                /\ c \in mfa.recovery => accepted[c] < enrolments
    /\ mfa.enabled => mfa.secret \in confirmed

CodesInv ==
    /\ Shapes
    /\ ~ heldOver => StepsAreRecorded
    /\ ~ overlap => RowsAreCurrent

(* A step of the clock is no recovery code.                                *)
LEMMA StepsAreNotCodes ==
    Steps \cap RecoveryCodes = {} /\ Steps \subseteq Codes /\ RecoveryCodes \subseteq Codes
BY MfaConstants DEF Steps, Codes

(* No code was ever accepted.                                              *)
LEMMA CodesInit == MfaInit => CodesInv
<1> USE MfaConstants
<1> SUFFICES ASSUME MfaInit PROVE CodesInv
  OBVIOUS
<1>1. Shapes
  BY DEF MfaInit, Shapes, Steps, Codes, FirstStep
<1>2. StepsAreRecorded
  BY DEF MfaInit, StepsAreRecorded, Steps, Codes, Free
<1>3. RowsAreCurrent
  BY DEF MfaInit, RowsAreCurrent, Codes, Free
<1> QED BY <1>1, <1>2, <1>3 DEF CodesInv

(* The clock: with no request held over there is none in flight.           *)
LEMMA TickKeepsCodes ==
  ASSUME CodesInv, MfaTick PROVE CodesInv'
<1> USE MfaConstants, StepsAreNotCodes DEF MfaTick
<1>1. Shapes'
  BY DEF CodesInv, Shapes
<1>2. ~ heldOver' => StepsAreRecorded'
  <2> SUFFICES ASSUME ~ heldOver' PROVE StepsAreRecorded'
    OBVIOUS
  <2>1. ~ heldOver /\ \A p \in Phones : Free(p)
    OBVIOUS
  <2>2. \A p \in Phones : Free(p)'
    BY <2>1 DEF Free
  <2>3. StepsAreRecorded
    BY <2>1 DEF CodesInv
  <2>4. \A s \in Steps : s \in Int /\ (s < clock - MFALeeway => s < clock' - MFALeeway)
    BY DEF CodesInv, Shapes, MFALeeway, Steps
  <2> QED BY <2>2, <2>3, <2>4 DEF StepsAreRecorded
<1>3. ~ overlap' => RowsAreCurrent'
  BY DEF CodesInv, RowsAreCurrent, Free
<1> QED BY <1>1, <1>2, <1>3 DEF CodesInv

(* An enrolment gives every recovery code out once more.                   *)
LEMMA SetupKeepsCodes ==
  ASSUME CodesInv, handleMFASetup PROVE CodesInv'
<1> USE MfaConstants, StepsAreNotCodes DEF handleMFASetup, Overlaps
<1>1. Shapes'
  BY DEF CodesInv, Shapes
<1>2. ~ heldOver' => StepsAreRecorded'
  BY DEF CodesInv, StepsAreRecorded, Free, ValidSteps
<1>3. ~ overlap' => RowsAreCurrent'
  <2> SUFFICES ASSUME ~ overlap' PROVE RowsAreCurrent'
    OBVIOUS
  <2>1. ~ overlap /\ \A p \in Phones : Free(p)'
    BY DEF Free
  <2>2. \A c \in RecoveryCodes : accepted[c] <= enrolments /\ accepted[c] \in Nat
    BY <2>1 DEF CodesInv, RowsAreCurrent, Shapes
  <2>3. \A c \in RecoveryCodes : accepted'[c] <= enrolments' /\ accepted'[c] < enrolments'
    BY <2>2 DEF CodesInv, Shapes
  <2> QED BY <2>1, <2>3 DEF RowsAreCurrent
<1> QED BY <1>1, <1>2, <1>3 DEF CodesInv

(* A request starts with the row and the clock as they are.                *)
LEMMA ReadKeepsCodes ==
  ASSUME CodesInv, NEW p \in Phones, NEW k \in {"login", "confirm", "disable"},
         NEW c \in Codes, ReadAndValidate(p, k, c)
  PROVE  CodesInv'
<1> USE MfaConstants, StepsAreNotCodes DEF ReadAndValidate
<1>0. UNCHANGED <<clock, mfa, usedSteps, enrolments, accepted, heldOver, overlap, confirmed>>
  OBVIOUS
<1>a. /\ login \in [Phones -> {NoLogin} \cup Requests]
      /\ mfa.secret \in Nat /\ mfa.recovery \in SUBSET RecoveryCodes
  BY DEF CodesInv, Shapes
<1>b. /\ login'[p] \in Requests
      /\ login'[p].code = c /\ login'[p].secret = mfa.secret
      /\ login'[p].recovery = mfa.recovery
      /\ \A q \in Phones : q # p => login'[q] = login[q]
  BY <1>a DEF Requests
<1>c. c \in ValidSteps \/ c \in mfa.recovery
  OBVIOUS
<1>1. Shapes'
  BY <1>a, <1>b, <1>0 DEF CodesInv, Shapes
<1>2. ~ heldOver' => StepsAreRecorded'
  <2> SUFFICES ASSUME ~ heldOver PROVE StepsAreRecorded'
    BY <1>0
  <2>1. StepsAreRecorded
    BY DEF CodesInv
  <2>2. c \in Steps => c \in ValidSteps
    BY <1>a, <1>c
  <2>3. ValidSteps' = ValidSteps
    BY <1>0 DEF ValidSteps
  <2>4. ASSUME NEW q \in Phones, ~ Free(q)', login'[q].code \in Steps
        PROVE  login'[q].code \in ValidSteps'
    <3>1. CASE q = p
      BY <3>1, <2>2, <2>3, <2>4, <1>b
    <3>2. CASE q # p
      BY <3>2, <2>1, <2>3, <2>4, <1>b DEF StepsAreRecorded, Free
    <3> QED BY <3>1, <3>2
  <2> QED BY <1>0, <2>1, <2>4 DEF StepsAreRecorded
<1>3. ~ overlap' => RowsAreCurrent'
  <2> SUFFICES ASSUME ~ overlap PROVE RowsAreCurrent'
    BY <1>0
  <2>1. RowsAreCurrent
    BY DEF CodesInv
  <2>2. c \in RecoveryCodes => c \in mfa.recovery
    BY <1>c DEF ValidSteps
  <2>3. ASSUME NEW q \in Phones, ~ Free(q)'
        PROVE  /\ login'[q].secret = mfa'.secret /\ login'[q].recovery = mfa'.recovery
               /\ login'[q].code \in RecoveryCodes => login'[q].code \in mfa'.recovery
    <3>1. CASE q = p
      BY <3>1, <2>2, <1>0, <1>b
    <3>2. CASE q # p
      BY <3>2, <2>1, <2>3, <1>0, <1>b DEF RowsAreCurrent, Free
    <3> QED BY <3>1, <3>2
  <2> QED BY <1>0, <2>1, <2>3 DEF RowsAreCurrent
<1> QED BY <1>1, <1>2, <1>3 DEF CodesInv

(* The step is valid and not recorded, so it was never accepted.           *)
LEMMA MarkKeepsCodes ==
  ASSUME CodesInv, NEW p \in Phones, MarkUsed(p) PROVE CodesInv'
<1> USE MfaConstants, StepsAreNotCodes DEF MarkUsed, Accept, Pruned
<1>0. UNCHANGED <<clock, mfa, enrolments, uses, heldOver, overlap, confirmed>>
  OBVIOUS
<1> DEFINE step == login[p].code
<1>a. /\ step \in Steps /\ login[p].kind \in {"login", "confirm"}
      /\ login \in [Phones -> {NoLogin} \cup Requests]
      /\ accepted \in [Codes -> Nat] /\ clock \in Nat
  BY DEF CodesInv, Shapes
<1>b. login[p] \in Requests /\ ~ Free(p)
  BY <1>a DEF Free, NoLogin
<1>c. /\ login' \in [Phones -> {NoLogin} \cup Requests]
      /\ \A q \in Phones : q # p => login'[q] = login[q]
      /\ Free(p)' \/ /\ login'[p].code = step /\ login'[p].secret = login[p].secret
                     /\ login'[p].recovery = login[p].recovery
  <2>1. CASE login' = [login EXCEPT ![p] = NoLogin]
    BY <2>1, <1>a DEF Free
  <2>2. CASE login' = [login EXCEPT ![p] = [login[p] EXCEPT !.kind = "enable"]]
    <3>1. /\ [login[p] EXCEPT !.kind = "enable"] \in Requests
          /\ [login[p] EXCEPT !.kind = "enable"].code = step
          /\ [login[p] EXCEPT !.kind = "enable"].secret = login[p].secret
          /\ [login[p] EXCEPT !.kind = "enable"].recovery = login[p].recovery
      BY <1>b DEF Requests
    <3> HIDE DEF step
    <3> QED BY <2>2, <3>1, <1>a
  <2> QED BY <2>1, <2>2
<1>d. \A c \in RecoveryCodes : accepted'[c] = accepted[c]
  BY <1>a
<1>1. Shapes'
  BY <1>0, <1>a, <1>c DEF CodesInv, Shapes
<1>2. ~ heldOver' => StepsAreRecorded'
  <2> SUFFICES ASSUME ~ heldOver PROVE StepsAreRecorded'
    BY <1>0
  <2>1. StepsAreRecorded
    BY DEF CodesInv
  <2>2. ValidSteps' = ValidSteps
    BY <1>0 DEF ValidSteps
  <2>3. \A q \in Phones :
           ~ Free(q)' /\ login'[q].code \in Steps => login'[q].code \in ValidSteps'
    BY <1>b, <1>c, <2>1, <2>2 DEF StepsAreRecorded, Free
  <2>4. step \in ValidSteps
    BY <1>a, <1>b, <2>1 DEF StepsAreRecorded
  <2>5. CASE step \in usedSteps
    BY <1>0, <2>1, <2>3, <2>5 DEF StepsAreRecorded
  <2>6. CASE step \notin usedSteps
    <3>1. accepted[step] = 0
      BY <1>a, <2>1, <2>4, <2>6 DEF StepsAreRecorded, ValidSteps, MFALeeway, Steps
    <3>2. /\ usedSteps' = (usedSteps \ Pruned(step)) \cup {step}
          /\ accepted' = [accepted EXCEPT ![step] = @ + 1]
      BY <2>6
    <3>3. \A s \in Pruned(step) : s < clock - MFALeeway
      BY <1>a, <2>4 DEF CodesInv, Shapes, ValidSteps, MFALeeway, Steps
    <3>4. \A s \in Steps : accepted'[s] <= 1
      BY <1>a, <2>1, <3>1, <3>2 DEF StepsAreRecorded
    <3>5. \A s \in Steps : accepted'[s] = 1 => s \in usedSteps' \/ s < clock - MFALeeway
      BY <1>a, <2>1, <3>1, <3>2, <3>3 DEF StepsAreRecorded
    <3> QED BY <1>0, <2>3, <3>4, <3>5 DEF StepsAreRecorded
  <2> QED BY <2>5, <2>6
<1>3. ~ overlap' => RowsAreCurrent'
  <2> SUFFICES ASSUME ~ overlap PROVE RowsAreCurrent'
    BY <1>0
  <2>1. RowsAreCurrent
    BY DEF CodesInv
  <2>2. \A q \in Phones : ~ Free(q)' =>
          /\ login'[q].secret = mfa.secret /\ login'[q].recovery = mfa.recovery
          /\ login'[q].code \in RecoveryCodes => login'[q].code \in mfa.recovery
    BY <1>b, <1>c, <2>1 DEF RowsAreCurrent, Free
  <2> QED BY <1>0, <1>d, <2>1, <2>2 DEF RowsAreCurrent
<1> QED BY <1>1, <1>2, <1>3 DEF CodesInv

(* The code is listed; it is accepted and struck off.                      *)
LEMMA SpendKeepsCodes ==
  ASSUME CodesInv, NEW p \in Phones, SpendRecoveryCode(p) PROVE CodesInv'
<1> USE MfaConstants, StepsAreNotCodes DEF SpendRecoveryCode, Accept, Overlaps
<1> DEFINE code == login[p].code
<1>a. /\ code \in RecoveryCodes /\ login[p].kind = "login"
      /\ login \in [Phones -> {NoLogin} \cup Requests]
      /\ accepted \in [Codes -> Nat]
      /\ mfa \in [secret : Nat, enabled : BOOLEAN, recovery : SUBSET RecoveryCodes]
  BY DEF CodesInv, Shapes
<1>b. login[p] \in Requests /\ ~ Free(p)
  BY <1>a DEF Free, NoLogin
<1>c. /\ mfa'.secret = mfa.secret /\ mfa'.enabled = mfa.enabled
      /\ mfa'.recovery = login[p].recovery \ {code}
      /\ mfa' \in [secret : Nat, enabled : BOOLEAN, recovery : SUBSET RecoveryCodes]
  BY <1>a, <1>b DEF Requests
<1>d. accepted' = [accepted EXCEPT ![code] = @ + 1]
  OBVIOUS
<1>1. Shapes'
  BY <1>a, <1>c DEF CodesInv, Shapes
<1>2. ~ heldOver' => StepsAreRecorded'
  BY <1>a DEF CodesInv, StepsAreRecorded, Free, ValidSteps
<1>3. ~ overlap' => RowsAreCurrent'
  <2> SUFFICES ASSUME ~ overlap' PROVE RowsAreCurrent'
    OBVIOUS
  <2>1. ~ overlap /\ RowsAreCurrent /\ \A q \in Phones : Free(q)'
    BY <1>a DEF CodesInv, Free
  <2>2. code \in mfa.recovery /\ login[p].recovery = mfa.recovery
    BY <1>a, <1>b, <2>1 DEF RowsAreCurrent
  <2>3. \A c \in RecoveryCodes :
           /\ accepted'[c] <= enrolments'
           /\ c \in mfa'.recovery => accepted'[c] < enrolments'
    <3> TAKE c \in RecoveryCodes
    <3>1. CASE c = code
      BY <3>1, <1>a, <1>c, <1>d, <2>1, <2>2 DEF RowsAreCurrent, CodesInv, Shapes
    <3>2. CASE c # code
      BY <3>2, <1>a, <1>c, <1>d, <2>1, <2>2 DEF RowsAreCurrent
    <3> QED BY <3>1, <3>2
  <2>4. mfa'.enabled => mfa'.secret \in confirmed'
    BY <1>c, <2>1 DEF RowsAreCurrent
  <2> QED BY <2>1, <2>3, <2>4 DEF RowsAreCurrent
<1> QED BY <1>1, <1>2, <1>3 DEF CodesInv

(* The row has the secret that was confirmed.                              *)
LEMMA EnableKeepsCodes ==
  ASSUME CodesInv, NEW p \in Phones, Enable(p) PROVE CodesInv'
<1> USE MfaConstants, StepsAreNotCodes DEF Enable, Overlaps
<1>1. Shapes'
  BY DEF CodesInv, Shapes, Requests, Free
<1>2. ~ heldOver' => StepsAreRecorded'
  BY DEF CodesInv, Shapes, StepsAreRecorded, Requests, Free, ValidSteps, MFALeeway, Steps
<1>3. ~ overlap' => RowsAreCurrent'
  <2> SUFFICES ASSUME ~ overlap' PROVE RowsAreCurrent'
    OBVIOUS
  <2>1. ~ overlap /\ RowsAreCurrent
    BY DEF CodesInv
  <2>2. \A q \in Phones : Free(q)'
    BY DEF CodesInv, Shapes, Free
  <2>3. /\ mfa'.secret = mfa.secret /\ mfa'.recovery = mfa.recovery
        /\ accepted' = accepted /\ enrolments' = enrolments
    BY DEF CodesInv, Shapes
  <2>4. mfa.secret = login[p].secret
    BY <2>1 DEF RowsAreCurrent, Free, NoLogin
  <2> QED BY <2>1, <2>2, <2>3, <2>4 DEF RowsAreCurrent
<1> QED BY <1>1, <1>2, <1>3 DEF CodesInv

(* No code is listed after it.                                             *)
LEMMA DisableKeepsCodes ==
  ASSUME CodesInv, NEW p \in Phones, handleMFADisable(p) PROVE CodesInv'
<1> USE MfaConstants, StepsAreNotCodes DEF handleMFADisable, Overlaps, Disabled
<1>1. Shapes'
  BY DEF CodesInv, Shapes, Requests, Free
<1>2. ~ heldOver' => StepsAreRecorded'
  BY DEF CodesInv, Shapes, StepsAreRecorded, Requests, Free, ValidSteps, MFALeeway, Steps
<1>3. ~ overlap' => RowsAreCurrent'
  BY DEF CodesInv, Shapes, RowsAreCurrent, Requests, Free
<1> QED BY <1>1, <1>2, <1>3 DEF CodesInv

(* No code is listed after it.                                             *)
LEMMA ResetKeepsCodes ==
  ASSUME CodesInv, handleResetUserMFA PROVE CodesInv'
<1> USE MfaConstants, StepsAreNotCodes DEF handleResetUserMFA, Overlaps, Disabled
<1>1. Shapes'
  BY DEF CodesInv, Shapes, Requests, Free
<1>2. ~ heldOver' => StepsAreRecorded'
  BY DEF CodesInv, Shapes, StepsAreRecorded, Requests, Free, ValidSteps, MFALeeway, Steps
<1>3. ~ overlap' => RowsAreCurrent'
  BY DEF CodesInv, Shapes, RowsAreCurrent, Requests, Free
<1> QED BY <1>1, <1>2, <1>3 DEF CodesInv

(* Every statement of every request keeps the invariant.                   *)
LEMMA CodesStep == CodesInv /\ [MfaNext]_mfaVars => CodesInv'
<1> SUFFICES ASSUME CodesInv, [MfaNext]_mfaVars PROVE CodesInv'
  OBVIOUS
<1>1. CASE MfaTick
  BY <1>1, TickKeepsCodes
<1>2. CASE handleMFASetup
  BY <1>2, SetupKeepsCodes
<1>3. CASE handleResetUserMFA
  BY <1>3, ResetKeepsCodes
<1>4. CASE \E p \in Phones, c \in Codes, k \in {"login", "confirm", "disable"} :
             ReadAndValidate(p, k, c)
  BY <1>4, ReadKeepsCodes
<1>5. CASE \E p \in Phones : MarkUsed(p)
  BY <1>5, MarkKeepsCodes
<1>6. CASE \E p \in Phones : SpendRecoveryCode(p)
  BY <1>6, SpendKeepsCodes
<1>7. CASE \E p \in Phones : Enable(p)
  BY <1>7, EnableKeepsCodes
<1>8. CASE \E p \in Phones : handleMFADisable(p)
  BY <1>8, DisableKeepsCodes
<1>9. CASE UNCHANGED mfaVars
  BY <1>9 DEF mfaVars, CodesInv, Shapes, StepsAreRecorded, RowsAreCurrent, Free,
       ValidSteps
<1> QED BY <1>1, <1>2, <1>3, <1>4, <1>5, <1>6, <1>7, <1>8, <1>9 DEF MfaNext

(* A step is accepted once however requests interleave, as long as none is *)
(* held up while the clock moves on; a recovery code once per enrolment,   *)
(* and a factor that is on was confirmed, as long as no two requests have  *)
(* the row at the same time (MarkUsed, SetRecoveryCodeHashes, Enable).     *)
THEOREM CodesAreSpentOnce == MfaSpec => []CodesAreSpent
<1>1. CodesInv => CodesAreSpent
  BY DEF CodesInv, StepsAreRecorded, RowsAreCurrent, CodesAreSpent
<1> QED BY CodesInit, CodesStep, <1>1, PTL DEF MfaSpec

(***************************************************************************)
(* Types of the second factor.                                             *)
(***************************************************************************)

(* The requests that present code c and have not been accepted with it.    *)
Presents(c) == {p \in Phones : /\ ~ Free(p) /\ login[p].kind \in {"login", "confirm"}
                               /\ login[p].code = c}

(* A code is accepted at most once for each time it was submitted.         *)
SubmittedOnce ==
    \A c \in Codes : IsFiniteSet(Presents(c)) /\ accepted[c] + Cardinality(Presents(c)) <= uses

MfaTypes == MfaTypeOK /\ SubmittedOnce

(* At first nobody has a code.                                             *)
LEMMA MfaTypesInit == MfaInit => MfaTypes
<1> SUFFICES ASSUME MfaInit PROVE MfaTypes
  OBVIOUS
<1>1. \A c : Presents(c) = {}
  BY DEF MfaInit, Presents, Free
<1>2. SubmittedOnce
  BY <1>1, FS_EmptySet DEF SubmittedOnce, MfaInit
<1>3. 0 \in 0 .. MaxEnrolments /\ 0 \in 0 .. MaxUses /\ FirstStep \in Steps
  BY MfaConstants DEF FirstStep, Steps
<1>4. MfaTypeOK
  BY <1>3 DEF MfaInit, MfaTypeOK, Free
<1> QED BY <1>2, <1>4 DEF MfaTypes

(* Nobody presents a code who did not, and none is accepted.               *)
LEMMA FewerPresent ==
  ASSUME MfaTypes, UNCHANGED <<accepted, uses>>,
         \A q \in Phones : login'[q] = login[q] \/ Free(q)' \/ login'[q].kind = "enable"
  PROVE  SubmittedOnce'
<1> SUFFICES ASSUME NEW c \in Codes
             PROVE  IsFiniteSet(Presents(c)') /\ accepted[c] + Cardinality(Presents(c)') <= uses
  BY DEF SubmittedOnce
<1>1. Presents(c)' \subseteq Presents(c)
  BY DEF Presents, Free
<1>2. IsFiniteSet(Presents(c)) /\ accepted[c] + Cardinality(Presents(c)) <= uses
  BY DEF MfaTypes, SubmittedOnce
<1>3. accepted[c] \in Int /\ uses \in Int
  BY DEF MfaTypes, MfaTypeOK
<1> DEFINE new == Presents(c)'
           old == Presents(c)
<1>4. IsFiniteSet(new) /\ Cardinality(new) <= Cardinality(old)
  BY <1>1, <1>2, FS_Subset
<1>5. Cardinality(new) \in Int /\ Cardinality(old) \in Int
  BY <1>2, <1>4, FS_CardinalityType
<1> HIDE DEF new, old
<1>6. accepted[c] + Cardinality(old) <= uses
  BY <1>2 DEF old
<1>7. accepted[c] + Cardinality(new) <= uses
  BY <1>3, <1>4, <1>5, <1>6
<1> QED BY <1>4, <1>7 DEF new

(* A request begins to present a code, and one more was submitted.         *)
LEMMA OneMorePresents ==
  ASSUME MfaTypes, NEW p \in Phones, Free(p), uses' = uses + 1, accepted' = accepted,
         \A q \in Phones \ {p} : login'[q] = login[q]
  PROVE  SubmittedOnce'
<1> SUFFICES ASSUME NEW c \in Codes
             PROVE  IsFiniteSet(Presents(c)') /\ accepted[c] + Cardinality(Presents(c)') <= uses + 1
  BY DEF SubmittedOnce
<1> DEFINE new == Presents(c)'
           old == Presents(c)
<1>1. new \subseteq old \cup {p} /\ p \notin old
  BY DEF Presents, Free
<1>2. IsFiniteSet(old) /\ accepted[c] + Cardinality(old) <= uses
  BY DEF MfaTypes, SubmittedOnce
<1>3. accepted[c] \in Int /\ uses \in Int
  BY DEF MfaTypes, MfaTypeOK
<1> HIDE DEF new, old
<1>4. IsFiniteSet(old \cup {p}) /\ Cardinality(old \cup {p}) = Cardinality(old) + 1
  BY <1>1, <1>2, FS_AddElement
<1>5. IsFiniteSet(new) /\ Cardinality(new) <= Cardinality(old \cup {p})
  BY <1>1, <1>4, FS_Subset
<1>6. Cardinality(new) \in Int /\ Cardinality(old) \in Int
  BY <1>2, <1>5, FS_CardinalityType
<1>7. accepted[c] + Cardinality(new) <= uses + 1
  BY <1>2, <1>3, <1>4, <1>5, <1>6
<1> QED BY <1>5, <1>7 DEF new

(* A code is accepted, and its request presents it no more.                *)
LEMMA AcceptedNow ==
  ASSUME MfaTypes, NEW p \in Phones, ~ Free(p), login[p].kind \in {"login", "confirm"},
         login[p].code \in Codes, Accept(login[p].code), uses' = uses,
         Free(p)' \/ login'[p].kind = "enable", \A q \in Phones \ {p} : login'[q] = login[q]
  PROVE  SubmittedOnce' /\ accepted' \in [Codes -> 0 .. MaxUses]
<1> DEFINE code == login[p].code
<1>a. accepted \in [Codes -> 0 .. MaxUses] /\ uses \in 0 .. MaxUses /\ MaxUses \in Nat
  BY MfaConstants DEF MfaTypes, MfaTypeOK
<1>1. ASSUME NEW c \in Codes
      PROVE  /\ IsFiniteSet(Presents(c)') /\ accepted'[c] + Cardinality(Presents(c)') <= uses
             /\ accepted'[c] \in 0 .. MaxUses
  <2> DEFINE new == Presents(c)'
             old == Presents(c)
  <2>1. new \subseteq old \ {p} /\ (c = code => p \in old)
    BY DEF Presents, Free
  <2>2. IsFiniteSet(old) /\ accepted[c] + Cardinality(old) <= uses
    BY DEF MfaTypes, SubmittedOnce
  <2>3. accepted'[c] = IF c = code THEN accepted[c] + 1 ELSE accepted[c]
    BY <1>a DEF Accept
  <2> HIDE DEF new, old, code
  <2>4. /\ IsFiniteSet(old \ {p})
        /\ Cardinality(old \ {p}) = IF p \in old THEN Cardinality(old) - 1 ELSE Cardinality(old)
    BY <2>2, FS_RemoveElement
  <2>5. IsFiniteSet(new) /\ Cardinality(new) <= Cardinality(old \ {p})
    BY <2>1, <2>4, FS_Subset
  <2>6. Cardinality(new) \in Nat /\ Cardinality(old) \in Nat
    BY <2>2, <2>5, FS_CardinalityType
  <2>7. accepted[c] \in Nat
    BY <1>a
  <2>8. accepted'[c] + Cardinality(new) <= uses /\ accepted'[c] \in Nat
    BY <1>a, <2>1, <2>2, <2>3, <2>4, <2>5, <2>6, <2>7
  <2>9. accepted'[c] \in 0 .. MaxUses
    BY <1>a, <2>6, <2>8
  <2> QED BY <2>5, <2>8, <2>9 DEF new
<1>2. accepted' \in [Codes -> 0 .. MaxUses]
  <2>1. accepted' = [c \in Codes |-> accepted'[c]]
    BY <1>a DEF Accept
  <2> QED BY <1>1, <2>1
<1>3. SubmittedOnce'
  BY <1>1 DEF SubmittedOnce
<1> QED BY <1>2, <1>3

(* A request ends: the secret it holds was typed, and so are the others'.  *)
LEMMA LoginsTyped ==
  ASSUME MfaTypeOK, NEW p \in Phones, Free(p)' \/ login'[p].secret \in 1 .. MaxEnrolments,
         \A q \in Phones \ {p} : login'[q] = login[q]
  PROVE  \A q \in Phones : Free(q)' \/ login'[q].secret \in 1 .. MaxEnrolments
BY DEF MfaTypeOK, Free

(* Every step of an enrolment, a login and the clock keeps the types.      *)
LEMMA MfaTypesStep == MfaTypes /\ CodesInv /\ [MfaNext]_mfaVars => MfaTypes'
<1> SUFFICES ASSUME MfaTypes, CodesInv, [MfaNext]_mfaVars PROVE MfaTypes'
  OBVIOUS
<1> USE MfaConstants
<1>a. /\ login \in [Phones -> {NoLogin} \cup Requests]
      /\ mfa \in [secret : 0 .. MaxEnrolments, enabled : BOOLEAN, recovery : SUBSET RecoveryCodes]
  BY DEF CodesInv, Shapes, MfaTypes, MfaTypeOK
<1>b. \A q \in Phones : ~ Free(q) => /\ login[q] \in Requests /\ login[q].secret \in 1 .. MaxEnrolments
                                     /\ login[q].recovery \in SUBSET RecoveryCodes /\ login[q].code \in Codes
  BY <1>a DEF Free, MfaTypes, MfaTypeOK, Requests
<1>c. \A q \in Phones : login[q].kind \in {"login", "confirm", "disable", "enable"} => ~ Free(q)
  BY DEF Free, NoLogin
<1>d. Disabled \in [secret : 0 .. MaxEnrolments, enabled : BOOLEAN, recovery : SUBSET RecoveryCodes]
  BY DEF Disabled
<1>1. CASE MfaTick
  <2>1. SubmittedOnce'
    BY <1>1, FewerPresent DEF MfaTick
  <2>2. MfaTypeOK'
    BY <1>1 DEF MfaTick, MfaTypes, MfaTypeOK, Steps, Free
  <2> QED BY <2>1, <2>2 DEF MfaTypes
<1>2. CASE handleMFASetup
  <2>1. SubmittedOnce'
    BY <1>2, FewerPresent DEF handleMFASetup
  <2>2. enrolments' \in 0 .. MaxEnrolments
        /\ mfa' \in [secret : 0 .. MaxEnrolments, enabled : BOOLEAN, recovery : SUBSET RecoveryCodes]
    BY <1>2 DEF handleMFASetup, MfaTypes, MfaTypeOK
  <2>3. MfaTypeOK'
    BY <1>2, <2>2 DEF handleMFASetup, Overlaps, MfaTypes, MfaTypeOK, Free
  <2> QED BY <2>1, <2>3 DEF MfaTypes
<1>3. CASE handleResetUserMFA
  <2>1. SubmittedOnce'
    BY <1>3, FewerPresent DEF handleResetUserMFA
  <2>2. MfaTypeOK'
    BY <1>3, <1>d DEF handleResetUserMFA, Overlaps, MfaTypes, MfaTypeOK, Free
  <2> QED BY <2>1, <2>2 DEF MfaTypes
<1>4. ASSUME NEW p \in Phones, NEW c \in Codes, NEW k \in {"login", "confirm", "disable"},
             ReadAndValidate(p, k, c)
      PROVE  MfaTypes'
  <2>1. login'[p].secret = mfa.secret /\ \A q \in Phones \ {p} : login'[q] = login[q]
    BY <1>4, <1>a DEF ReadAndValidate
  <2>2. SubmittedOnce'
    BY <1>4, <2>1, OneMorePresents DEF ReadAndValidate
  <2>3. mfa.secret \in 1 .. MaxEnrolments /\ uses' \in 0 .. MaxUses
    BY <1>4, <1>a DEF ReadAndValidate, MfaTypes, MfaTypeOK
  <2>4. \A q \in Phones : Free(q)' \/ login'[q].secret \in 1 .. MaxEnrolments
    BY <2>1, <2>3, LoginsTyped DEF MfaTypes
  <2>5. MfaTypeOK'
    BY <1>4, <2>3, <2>4 DEF ReadAndValidate, MfaTypes, MfaTypeOK
  <2> QED BY <2>2, <2>5 DEF MfaTypes
<1>5. ASSUME NEW p \in Phones, MarkUsed(p) PROVE MfaTypes'
  <2> DEFINE step == login[p].code
  <2>1. ~ Free(p) /\ step \in Steps /\ step \in Codes /\ login[p].kind \in {"login", "confirm"}
    BY <1>5, <1>c DEF MarkUsed, Codes
  <2>2. \A q \in Phones \ {p} : login'[q] = login[q]
    BY <1>5, <1>a DEF MarkUsed
  <2>3. /\ Free(p)' \/ login'[p].kind = "enable"
        /\ Free(p)' \/ login'[p].secret = login[p].secret
    <3>1. CASE login' = [login EXCEPT ![p] = NoLogin]
      BY <1>a, <3>1 DEF Free
    <3>2. CASE login' = [login EXCEPT ![p] = [login[p] EXCEPT !.kind = "enable"]]
      BY <1>a, <1>b, <2>1, <3>2 DEF Requests
    <3> QED BY <1>5, <3>1, <3>2 DEF MarkUsed
  <2>4. SubmittedOnce' /\ accepted' \in [Codes -> 0 .. MaxUses] /\ usedSteps' \subseteq Steps
    <3>1. CASE step \in usedSteps
      <4>1. SubmittedOnce'
        BY <1>5, <2>2, <2>3, <3>1, FewerPresent DEF MarkUsed
      <4> QED BY <1>5, <3>1, <4>1 DEF MarkUsed, MfaTypes, MfaTypeOK
    <3>2. CASE step \notin usedSteps
      <4>1. Accept(step) /\ uses' = uses /\ usedSteps' = (usedSteps \ Pruned(step)) \cup {step}
        BY <1>5, <3>2 DEF MarkUsed
      <4>2. SubmittedOnce' /\ accepted' \in [Codes -> 0 .. MaxUses]
        BY <2>1, <2>2, <2>3, <4>1, AcceptedNow
      <4> QED BY <2>1, <4>1, <4>2 DEF MfaTypes, MfaTypeOK
    <3> QED BY <3>1, <3>2
  <2>5. \A q \in Phones : Free(q)' \/ login'[q].secret \in 1 .. MaxEnrolments
    BY <1>b, <2>1, <2>2, <2>3, LoginsTyped DEF MfaTypes
  <2>6. MfaTypeOK'
    BY <1>5, <2>4, <2>5 DEF MarkUsed, MfaTypes, MfaTypeOK
  <2> QED BY <2>4, <2>6 DEF MfaTypes
<1>6. ASSUME NEW p \in Phones, SpendRecoveryCode(p) \/ Enable(p) \/ handleMFADisable(p) PROVE MfaTypes'
  <2>1. ~ Free(p)
    BY <1>6, <1>c DEF SpendRecoveryCode, Enable, handleMFADisable
  <2>2. Free(p)' /\ (\A q \in Phones \ {p} : login'[q] = login[q])
        /\ UNCHANGED <<clock, usedSteps, enrolments, uses, heldOver>>
    BY <1>6, <1>a DEF SpendRecoveryCode, Enable, handleMFADisable, Free
  <2>3. SubmittedOnce' /\ accepted' \in [Codes -> 0 .. MaxUses]
    <3>1. CASE SpendRecoveryCode(p)
      <4>1. login[p].code \in Codes /\ login[p].kind \in {"login", "confirm"} /\ Accept(login[p].code)
        BY <3>1 DEF SpendRecoveryCode, Codes
      <4> QED BY <2>1, <2>2, <4>1, AcceptedNow
    <3>2. CASE Enable(p) \/ handleMFADisable(p)
      <4>1. accepted' = accepted
        BY <3>2 DEF Enable, handleMFADisable
      <4> QED BY <2>2, <4>1, FewerPresent DEF MfaTypes, MfaTypeOK
    <3> QED BY <1>6, <3>1, <3>2
  <2>4. \A q \in Phones : Free(q)' \/ login'[q].secret \in 1 .. MaxEnrolments
    BY <2>2, LoginsTyped DEF MfaTypes
  <2>5. mfa' \in [secret : 0 .. MaxEnrolments, enabled : BOOLEAN, recovery : SUBSET RecoveryCodes]
    <3>1. CASE SpendRecoveryCode(p)
      <4>1. login[p].recovery \ {login[p].code} \in SUBSET RecoveryCodes
        BY <1>b, <2>1
      <4> QED BY <1>a, <3>1, <4>1 DEF SpendRecoveryCode
    <3>2. CASE Enable(p)
      BY <1>a, <3>2 DEF Enable
    <3>3. CASE handleMFADisable(p)
      BY <1>d, <3>3 DEF handleMFADisable
    <3> QED BY <1>6, <3>1, <3>2, <3>3
  <2>6. confirmed' \subseteq 1 .. MaxEnrolments /\ overlap' \in BOOLEAN
    BY <1>6, <1>b, <2>1 DEF SpendRecoveryCode, Enable, handleMFADisable, Overlaps, MfaTypes, MfaTypeOK
  <2>7. MfaTypeOK'
    BY <2>2, <2>3, <2>4, <2>5, <2>6 DEF MfaTypes, MfaTypeOK
  <2> QED BY <2>3, <2>7 DEF MfaTypes
<1>7. CASE UNCHANGED mfaVars
  <2>1. SubmittedOnce'
    BY <1>7, FewerPresent DEF mfaVars
  <2>2. MfaTypeOK'
    BY <1>7 DEF mfaVars, MfaTypes, MfaTypeOK, Free
  <2> QED BY <2>1, <2>2 DEF MfaTypes
<1> QED BY <1>1, <1>2, <1>3, <1>4, <1>5, <1>6, <1>7 DEF MfaNext

(* Codes are accepted no more often than they were submitted, and what is  *)
(* enrolled, presented and accepted is of its type.                        *)
THEOREM MfaTypesHold == MfaSpec => []MfaTypeOK
<1>1. MfaTypes => MfaTypeOK
  BY DEF MfaTypes
<1> QED BY <1>1, CodesInit, CodesStep, MfaTypesInit, MfaTypesStep, PTL DEF MfaSpec
=============================================================================
