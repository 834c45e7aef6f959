--------------------------- MODULE DecisionProofs -----------------------------
(***************************************************************************)
(* What people decide in the office holds, for every value of the          *)
(* constants: who is let in, which policy is in force, which mail is sent. *)
(* Every part of Office has an inductive invariant here that says how its  *)
(* rows tell of each other; what the office does, the part does or nothing *)
(* (...Runs), so the part's invariant holds in the office.                 *)
(***************************************************************************)
EXTENDS Office, FiniteSetTheorems, TLAPS

-----------------------------------------------------------------------------
(***************************************************************************)
(* Logins for every number of accounts, identities, requests and flows:    *)
(* sessions are earned, and locks run their time.  The accounts are taken  *)
(* with what a login in progress may rely on: an account that somebody has *)
(* begun to log in to exists, and one that does not exist is not locked.   *)
(***************************************************************************)

\* What the office does, its part does, or nothing.
LEMMA PeopleRuns == OfficeSpec => People!Spec
<1>1. OfficeInit => People!Init
  BY DEF OfficeInit
<1>2. [OfficeNext]_officeVars => [People!Next]_(People!vars)
  BY DEF OfficeNext, officeVars, Only, accountRows, People!vars, TextStep, AnalysisStep,
     AiStep, AccountsStep, FeesStep, MailStep, LossStep, RegistryStep, PhotosStep,
     TramerStep, TrackingStep
<1> QED
  BY <1>1, <1>2, PTL DEF OfficeSpec, People!Spec

AccountRow ==
  [status : {"absent", "pending", "active", "disabled"}, password : 0 .. MaxPasswords,
   fails : 0 .. MaxFailed, lock : People!Locks]

SessionRow ==
  [user : Addresses, by : {"password"}, with : 0 .. MaxPasswords]
  \cup [user : Addresses, by : {"google"}, with : Subjects]

LoginRow == {People!Idle} \cup [step : {"verified"}, user : Addresses, right : BOOLEAN, password : 0 .. MaxPasswords]

FlowRow ==
  [step : {"idle", "started", "claimed", "failed"}]
  \cup [step : {"completed"}, user : Addresses, subject : Subjects]

PeopleTyped ==
  /\ user \in [Addresses -> AccountRow]
  /\ linked \in [Subjects -> Addresses \cup {People!NoUser, People!AnotherUser}]
  /\ sessions \subseteq SessionRow
  /\ login \in [Requests -> LoginRow]
  /\ flow \in [Flows -> FlowRow]

AbsentIsUnlocked == \A u \in Addresses : user[u].status = "absent" => user[u].lock = "none"

\* An account is locked by the attempt that reaches the limit.
LimitLocks == \A u \in Addresses : user[u].lock = "none" => user[u].fails < MaxFailed

\* A login and a completed flow are of accounts that exist, the flow of the one
\* its identity is linked to.
UnderWayExists ==
  /\ \A q \in Requests : login[q].step = "verified" => user[login[q].user].status # "absent"
  /\ \A f \in Flows : flow[f].step = "completed" => linked[flow[f].subject] = flow[f].user

PeopleInv == PeopleTyped /\ AbsentIsUnlocked /\ LimitLocks /\ UnderWayExists
  /\ People!SessionsAreEarned

LEMMA PeopleBegins == People!Init => PeopleInv
<1> SUFFICES ASSUME People!Init PROVE PeopleInv
  OBVIOUS
<1> USE DEF People!Init
<1>1. user \in [Addresses -> AccountRow]
  BY AccountsAssumption DEF AccountRow, People!Account, People!Locks
<1>2. PeopleTyped
  BY <1>1 DEF PeopleTyped, LoginRow, FlowRow, People!Idle, SessionRow
<1>3. AbsentIsUnlocked /\ LimitLocks
  BY AccountsAssumption DEF AbsentIsUnlocked, LimitLocks, People!Account
<1>4. UnderWayExists /\ People!SessionsAreEarned
  BY DEF UnderWayExists, People!SessionsAreEarned, People!Idle
<1> QED
  BY <1>2, <1>3, <1>4 DEF PeopleInv

-----------------------------------------------------------------------------
(* The steps                                                               *)

\* A step that touches logins only.
LEMMA StartLoginKeeps ==
  ASSUME PeopleInv, NEW q \in Requests, NEW u \in Addresses, People!StartLogin(q, u)
  PROVE  PeopleInv'
<1> USE DEF PeopleInv, People!StartLogin
<1>1. PICK right \in BOOLEAN :
        login' = [login EXCEPT ![q] = [step |-> "verified", user |-> u, right |-> right,
                                       password |-> user[u].password]]
  OBVIOUS
<1>2. user[u] \in AccountRow
  BY DEF PeopleTyped
<1>3. [step |-> "verified", user |-> u, right |-> right, password |-> user[u].password]
        \in LoginRow
  BY <1>2 DEF LoginRow, AccountRow
<1>4. PeopleTyped'
  BY <1>1, <1>3 DEF PeopleTyped
<1>5. UnderWayExists'
  <2>1. ASSUME NEW p \in Requests, login'[p].step = "verified"
        PROVE  user'[login'[p].user].status # "absent"
    <3>1. CASE p = q
      BY <1>1, <3>1 DEF PeopleTyped
    <3>2. CASE p # q
      BY <1>1, <2>1, <3>2 DEF PeopleTyped, UnderWayExists
    <3> QED
      BY <3>1, <3>2
  <2> QED
    BY <2>1 DEF UnderWayExists
<1> QED
  BY <1>4, <1>5 DEF AbsentIsUnlocked, LimitLocks, People!SessionsAreEarned

LEMMA FailedIs ==
  ASSUME NEW account \in AccountRow, account.lock = "none" => account.fails < MaxFailed
  PROVE  /\ People!Failed(account) \in AccountRow
         /\ People!Failed(account).status = account.status
         /\ People!Failed(account).password = account.password
         /\ People!Failed(account).lock = "none" => People!Failed(account).fails < MaxFailed
<1> DEFINE more == account.fails + 1
<1>1. account.lock \in People!Locks /\ account.fails \in 0 .. MaxFailed
        /\ MaxFailed \in Nat \ {0, 1}
  BY AccountsAssumption DEF AccountRow
<1>2. account.lock = "none" => more \in 0 .. MaxFailed /\ (more >= MaxFailed \/ more < MaxFailed)
  BY <1>1
<1>3. 1 \in 0 .. MaxFailed /\ 1 < MaxFailed
  BY <1>1
<1> HIDE DEF more
<1>4. CASE account.lock = "active"
  BY <1>4 DEF People!Failed
<1>5. CASE account.lock = "expired"
  <2>1. People!Failed(account) = [account EXCEPT !.fails = 1, !.lock = "none"]
    BY <1>5 DEF People!Failed
  <2> QED
    BY <1>1, <1>3, <2>1 DEF AccountRow, People!Locks
<1>6. CASE account.lock = "none" /\ more >= MaxFailed
  <2>1. People!Failed(account) = [account EXCEPT !.fails = more, !.lock = "active"]
    BY <1>6 DEF People!Failed, more
  <2> QED
    BY <1>2, <1>6, <2>1 DEF AccountRow, People!Locks
<1>7. CASE account.lock = "none" /\ ~(more >= MaxFailed)
  <2>1. People!Failed(account) = [account EXCEPT !.fails = more]
    BY <1>7 DEF People!Failed, more
  <2> QED
    BY <1>2, <1>7, <2>1 DEF AccountRow, People!Locks
<1> QED
  BY <1>1, <1>4, <1>5, <1>6, <1>7 DEF People!Locks

LEMMA WrongPasswordKeeps ==
  ASSUME PeopleInv, NEW q \in Requests, People!WrongPassword(q)
  PROVE  PeopleInv'
<1> USE DEF PeopleInv, People!WrongPassword
<1> DEFINE w == login[q].user
<1>1. w \in Addresses /\ user[w] \in AccountRow /\ user[w].status # "absent"
  BY DEF PeopleTyped, LoginRow, UnderWayExists, People!Idle
<1>2. /\ People!Failed(user[w]) \in AccountRow
      /\ People!Failed(user[w]).status = user[w].status
      /\ People!Failed(user[w]).password = user[w].password
      /\ People!Failed(user[w]).lock = "none" => People!Failed(user[w]).fails < MaxFailed
  BY <1>1, FailedIs DEF LimitLocks
<1>3. /\ user' = [user EXCEPT ![w] = People!Failed(user[w])]
      /\ login' = [login EXCEPT ![q] = People!Idle]
  OBVIOUS
<1> HIDE DEF People!WrongPassword
<1>4. PeopleTyped'
  BY <1>1, <1>2, <1>3 DEF PeopleTyped, LoginRow, People!WrongPassword
<1>5. \A u \in Addresses : /\ user'[u].status = user[u].status
                           /\ user'[u].password = user[u].password
                           /\ u # w => user'[u] = user[u]
  BY <1>1, <1>2, <1>3 DEF PeopleTyped
<1>6. AbsentIsUnlocked' /\ LimitLocks'
  BY <1>1, <1>2, <1>3, <1>5 DEF AbsentIsUnlocked, LimitLocks, PeopleTyped
<1>7. UnderWayExists'
  BY <1>3, <1>5 DEF UnderWayExists, People!Idle, PeopleTyped, People!WrongPassword, LoginRow
<1>8. People!SessionsAreEarned'
  BY <1>5 DEF People!SessionsAreEarned, PeopleTyped, SessionRow, People!WrongPassword
<1> QED
  BY <1>4, <1>6, <1>7, <1>8

LEMMA RightPasswordKeeps ==
  ASSUME PeopleInv, NEW q \in Requests, People!RightPassword(q)
  PROVE  PeopleInv'
<1> USE DEF PeopleInv
<1> DEFINE w == login[q].user
           s == [user |-> w, by |-> "password", with |-> login[q].password]
           opened == [user EXCEPT ![w].fails = 0, ![w].lock = "none"]
<1>1. /\ w \in Addresses /\ user[w] \in AccountRow /\ user[w].status # "absent"
      /\ login[q].password \in 0 .. MaxPasswords
  BY DEF PeopleTyped, LoginRow, UnderWayExists, People!RightPassword, People!Idle
<1>2. /\ login' = [login EXCEPT ![q] = People!Idle]
      /\ linked' = linked /\ flow' = flow
  BY DEF People!RightPassword
<1>3. CASE ~People!StillValid(q)
  <2>1. user' = user /\ sessions' = sessions
    BY <1>3 DEF People!RightPassword
  <2>2. PeopleTyped'
    BY <1>2, <2>1 DEF PeopleTyped, LoginRow
  <2>3. UnderWayExists'
    BY <1>2, <2>1 DEF UnderWayExists, People!Idle, PeopleTyped
  <2> QED
    BY <1>2, <2>1, <2>2, <2>3 DEF AbsentIsUnlocked, LimitLocks, People!SessionsAreEarned
<1>4. CASE People!StillValid(q)
  <2>1. user' = opened /\ sessions' = sessions \cup {s}
    BY <1>4 DEF People!RightPassword
  <2>2. s \in SessionRow
    BY <1>1 DEF SessionRow
  <2>3. user' \in [Addresses -> AccountRow]
    BY <1>1, <2>1, AccountsAssumption DEF PeopleTyped, AccountRow, People!Locks
  <2>4. PeopleTyped'
    BY <1>2, <2>1, <2>2, <2>3 DEF PeopleTyped, LoginRow
  <2>5. \A u \in Addresses : /\ user'[u].status = user[u].status
                             /\ user'[u].password = user[u].password
                             /\ u # w => user'[u] = user[u]
    BY <1>1, <2>1 DEF PeopleTyped, AccountRow
  <2>6. AbsentIsUnlocked' /\ LimitLocks'
    <3>1. user'[w].fails = 0
      BY <1>1, <2>1 DEF PeopleTyped, AccountRow
    <3> QED
      BY <1>1, <2>5, <3>1, AccountsAssumption DEF AbsentIsUnlocked, LimitLocks
  <2>7. UnderWayExists'
    BY <1>2, <2>5 DEF UnderWayExists, People!Idle, PeopleTyped, LoginRow
  <2>8. user[w].status = "active" /\ user[w].password = login[q].password
    BY <1>4 DEF People!StillValid
  <2>9. People!SessionsAreEarned'
    BY <1>1, <1>2, <2>1, <2>5, <2>8 DEF People!SessionsAreEarned, PeopleTyped, SessionRow
  <2> QED
    BY <2>4, <2>6, <2>7, <2>9
<1> QED
  BY <1>3, <1>4

LEMMA LockExpiresKeeps ==
  ASSUME PeopleInv, NEW u \in Addresses, People!LockExpires(u)
  PROVE  PeopleInv'
<1> USE DEF PeopleInv, People!LockExpires
<1>1. user' \in [Addresses -> AccountRow]
  BY DEF PeopleTyped, AccountRow, People!Locks
<1>2. \A x \in Addresses : /\ user'[x].status = user[x].status
                           /\ user'[x].password = user[x].password
                           /\ x # u => user'[x] = user[x]
  BY DEF PeopleTyped, AccountRow
<1>3. PeopleTyped'
  BY <1>1 DEF PeopleTyped
<1>4. AbsentIsUnlocked' /\ LimitLocks'
  BY <1>2 DEF AbsentIsUnlocked, LimitLocks, People!Locks, People!LockExpires, PeopleTyped
<1>5. UnderWayExists'
  BY <1>2 DEF UnderWayExists, PeopleTyped, LoginRow
<1>6. People!SessionsAreEarned'
  BY <1>2 DEF People!SessionsAreEarned, PeopleTyped, SessionRow
<1> QED
  BY <1>3, <1>4, <1>5, <1>6

LEMMA LogoutKeeps ==
  ASSUME PeopleInv, NEW s \in sessions, People!Logout(s)
  PROVE  PeopleInv'
<1> USE DEF PeopleInv, People!Logout
<1>1. PeopleTyped'
  BY DEF PeopleTyped
<1> QED
  BY <1>1 DEF AbsentIsUnlocked, LimitLocks, UnderWayExists, People!SessionsAreEarned

\* The steps that touch flows only.
LEMMA FlowKeeps ==
  ASSUME PeopleInv, NEW f \in Flows, People!StartFlow(f) \/ People!ClaimFlow(f)
    \/ People!FlowFails(f) \/ People!FlowExpires(f)
  PROVE  PeopleInv'
<1> USE DEF PeopleInv
<1>1. PICK step \in {"idle", "started", "claimed", "failed"} :
        flow' = [flow EXCEPT ![f] = [step |-> step]]
  BY DEF People!StartFlow, People!ClaimFlow, People!FlowFails, People!FlowExpires, People!Idle
<1>2. UNCHANGED <<user, linked, sessions, login>>
  BY DEF People!StartFlow, People!ClaimFlow, People!FlowFails, People!FlowExpires
<1>3. PeopleTyped'
  BY <1>1, <1>2 DEF PeopleTyped, FlowRow
<1>4. UnderWayExists'
  BY <1>1, <1>2 DEF UnderWayExists, PeopleTyped
<1> QED
  BY <1>2, <1>3, <1>4 DEF AbsentIsUnlocked, LimitLocks, People!SessionsAreEarned

\* An identity is linked to an account nobody else's session was opened for.
LEMMA CompleteFlowKeeps ==
  ASSUME PeopleInv,
         NEW f \in Flows, NEW s \in Subjects, NEW u \in Addresses, People!CompleteFlow(f, s, u)
  PROVE  PeopleInv'
<1> USE DEF PeopleInv
<1>1. /\ linked' = [linked EXCEPT ![s] = u] /\ linked[s] \in {People!NoUser, u}
      /\ flow' = [flow EXCEPT ![f] = [step |-> "completed", user |-> u, subject |-> s]]
      /\ sessions' = sessions /\ login' = login
  BY DEF People!CompleteFlow
<1>2. user' \in [Addresses -> AccountRow]
  BY AccountsAssumption DEF People!CompleteFlow, PeopleTyped, AccountRow, People!Account,
     People!Locks
<1>3. PeopleTyped'
  BY <1>1, <1>2 DEF PeopleTyped, FlowRow
<1>4. \A x \in Addresses : user[x].status # "absent" => user'[x] = user[x]
  BY DEF People!CompleteFlow, PeopleTyped
<1>5. user'[u].status # "absent"
        /\ (user'[u] = user[u] \/ user'[u] = People!Account("pending", 0))
  BY DEF People!CompleteFlow, PeopleTyped, People!Account
<1>6. \A x \in Addresses : x # u => user'[x] = user[x]
  BY DEF People!CompleteFlow, PeopleTyped
<1>7. AbsentIsUnlocked' /\ LimitLocks'
  BY <1>5, <1>6, AccountsAssumption DEF AbsentIsUnlocked, LimitLocks, People!Account
<1>8. UnderWayExists'
  <2>1. \A q \in Requests : login'[q].step = "verified" => user'[login'[q].user].status # "absent"
    BY <1>1, <1>4 DEF UnderWayExists, PeopleTyped, LoginRow, People!Idle
  <2>2. ASSUME NEW g \in Flows, flow'[g].step = "completed"
        PROVE  linked'[flow'[g].subject] = flow'[g].user
    <3>1. CASE g = f
      BY <1>1, <3>1 DEF PeopleTyped
    <3>2. CASE g # f
      <4>1. flow'[g] = flow[g] /\ flow[g].user \in Addresses /\ flow[g].subject \in Subjects
        BY <1>1, <2>2, <3>2 DEF PeopleTyped, FlowRow
      <4>2. linked[flow[g].subject] = flow[g].user
        BY <2>2, <4>1 DEF UnderWayExists
      <4> QED
        BY <1>1, <4>1, <4>2, AccountsAssumption DEF PeopleTyped
    <3> QED
      BY <3>1, <3>2
  <2> QED
    BY <2>1, <2>2 DEF UnderWayExists
<1>9. People!SessionsAreEarned'
  <2>1. ASSUME NEW t \in sessions
        PROVE  /\ user'[t.user] = user[t.user]
               /\ t.by = "google" => linked'[t.with] = t.user
    <3>1. t.user \in Addresses /\ user[t.user].status = "active"
      BY DEF PeopleTyped, SessionRow, People!SessionsAreEarned
    <3>2. user'[t.user] = user[t.user]
      BY <1>4, <3>1
    <3>3. t.by = "google" => linked[t.with] = t.user /\ t.with \in Subjects
      BY DEF People!SessionsAreEarned, PeopleTyped, SessionRow
    <3> QED
      BY <1>1, <3>1, <3>2, <3>3, AccountsAssumption DEF PeopleTyped
  <2> QED
    BY <1>1, <2>1 DEF People!SessionsAreEarned
<1> QED
  BY <1>3, <1>7, <1>8, <1>9

LEMMA EnterByFlowKeeps ==
  ASSUME PeopleInv, NEW f \in Flows, People!EnterByFlow(f)
  PROVE  PeopleInv'
<1> USE DEF PeopleInv
<1> DEFINE u == flow[f].user
           s == [user |-> u, by |-> "google", with |-> flow[f].subject]
<1>1. /\ u \in Addresses /\ flow[f].subject \in Subjects
      /\ linked[flow[f].subject] = u
  BY DEF People!EnterByFlow, PeopleTyped, FlowRow, UnderWayExists
<1>2. /\ UNCHANGED <<user, linked, login>> /\ flow' = [flow EXCEPT ![f] = People!Idle]
      /\ \/ user[u].status = "active" /\ sessions' = sessions \cup {s}
         \/ sessions' = sessions
  BY DEF People!EnterByFlow, People!MayEnter
<1>3. s \in SessionRow
  BY <1>1 DEF SessionRow
<1>4. PeopleTyped'
  BY <1>2, <1>3 DEF PeopleTyped, FlowRow, People!Idle
<1>5. UnderWayExists'
  BY <1>2 DEF UnderWayExists, PeopleTyped, People!Idle
<1>6. People!SessionsAreEarned'
  BY <1>1, <1>2 DEF People!SessionsAreEarned
<1> QED
  BY <1>2, <1>4, <1>5, <1>6 DEF AbsentIsUnlocked, LimitLocks

\* What administrators do to one account: the trigger leaves it the sessions
\* that are still earned.
LEMMA AccountChangeKeeps ==
  ASSUME PeopleInv, NEW u \in Addresses, People!CreateUser(u) \/ People!UpdateRoles(u)
    \/ People!Maintain(u)
  PROVE  PeopleInv'
<1> USE DEF PeopleInv
<1>1. UNCHANGED <<linked, login, flow>>
  BY DEF People!CreateUser, People!UpdateRoles, People!Maintain
<1>2. user' \in [Addresses -> AccountRow]
  <2>1. CASE People!CreateUser(u)
    BY <2>1, AccountsAssumption DEF People!CreateUser, PeopleTyped, AccountRow, People!Account,
       People!Locks
  <2>2. CASE People!UpdateRoles(u)
    BY <2>2 DEF People!UpdateRoles, PeopleTyped, AccountRow
  <2>3. CASE People!Maintain(u)
    <3>1. user[u].password \in 0 .. MaxPasswords
      BY DEF PeopleTyped, AccountRow
    <3>2. user[u].password < MaxPasswords => user[u].password + 1 \in 0 .. MaxPasswords
      BY <3>1, AccountsAssumption
    <3> QED
      BY <2>3, <3>2 DEF People!Maintain, PeopleTyped, AccountRow
  <2> QED
    BY <2>1, <2>2, <2>3
<1>3. \A x \in Addresses : x # u => user'[x] = user[x]
  BY DEF People!CreateUser, People!UpdateRoles, People!Maintain, PeopleTyped
<1>4. /\ user'[u].status # "absent"
      /\ user[u].status = "absent" => People!CreateUser(u)
  BY DEF People!CreateUser, People!UpdateRoles, People!Maintain, PeopleTyped, AccountRow,
     People!Account
<1>5. sessions' \subseteq sessions
  BY DEF People!CreateUser, People!UpdateRoles, People!Maintain, People!Revoked
<1>6. PeopleTyped'
  BY <1>1, <1>2, <1>5 DEF PeopleTyped
<1>7. AbsentIsUnlocked' /\ LimitLocks'
  <2>1. /\ user'[u].lock \in {user[u].lock, "none"}
        /\ user'[u].lock = "none" => user'[u].fails \in {user[u].fails, 0}
        /\ user[u].lock # "none" => user'[u].lock = user[u].lock \/ user'[u].fails = 0
    BY DEF People!CreateUser, People!UpdateRoles, People!Maintain, PeopleTyped, AccountRow,
       People!Account
  <2> QED
    BY <1>3, <1>4, <2>1, AccountsAssumption DEF AbsentIsUnlocked, LimitLocks
<1>8. UnderWayExists'
  BY <1>1, <1>3, <1>4 DEF UnderWayExists, PeopleTyped, LoginRow, People!Idle
<1>9. People!SessionsAreEarned'
  <2>1. ASSUME NEW t \in sessions', t.user = u
        PROVE  user'[u].status = "active" /\ user'[u].password = user[u].password
    <3>1. t \in sessions /\ user[u].status = "active"
      BY <1>5, <2>1 DEF People!SessionsAreEarned
    <3>2. sessions' = People!Revoked(u)
      BY <3>1 DEF People!CreateUser, People!UpdateRoles, People!Maintain
    <3> QED
      BY <2>1, <3>1, <3>2 DEF People!Revoked
  <2>2. \A t \in sessions' : t \in sessions /\ t.user \in Addresses
    BY <1>5 DEF PeopleTyped, SessionRow
  <2> QED
    BY <1>1, <1>3, <2>1, <2>2 DEF People!SessionsAreEarned
<1> QED
  BY <1>6, <1>7, <1>8, <1>9

LEMMA PeopleKeeps == PeopleInv /\ [People!Next]_(People!vars) => PeopleInv'
<1> SUFFICES ASSUME PeopleInv, [People!Next]_(People!vars) PROVE PeopleInv'
  OBVIOUS
<1>1. CASE UNCHANGED People!vars
  BY <1>1 DEF People!vars, PeopleInv, PeopleTyped, AbsentIsUnlocked, LimitLocks, UnderWayExists,
     People!SessionsAreEarned
<1>2. CASE People!Next
  BY <1>2, StartLoginKeeps, WrongPasswordKeeps, RightPasswordKeeps, LockExpiresKeeps,
     LogoutKeeps, FlowKeeps, CompleteFlowKeeps, EnterByFlowKeeps,
        AccountChangeKeeps DEF People!Next
<1> QED
  BY <1>1, <1>2

-----------------------------------------------------------------------------
(* Locks                                                                   *)

\* What a step does to the accounts that are locked.
LockKept ==
  \A u \in Addresses : user[u].lock = "active" =>
    /\ user'[u].lock \in {"active", "expired"} /\ user'[u].fails = user[u].fails
    /\ \A s \in sessions' \ sessions : ~(s.user = u /\ s.by = "password")

\* A wrong password leaves a locked account as it is, a right one does not get
\* in, and no other step touches a lock that has begun.
LEMMA StepKeepsLock == PeopleInv /\ [People!Next]_(People!vars) => [LockKept]_(People!vars)
<1> SUFFICES ASSUME PeopleInv, People!Next, NEW u \in Addresses, user[u].lock = "active"
             PROVE  /\ user'[u].lock \in {"active", "expired"}
                    /\ user'[u].fails = user[u].fails
                    /\ \A s \in sessions' \ sessions : ~(s.user = u /\ s.by = "password")
  BY DEF LockKept
<1> USE DEF PeopleInv
<1>0. user[u].status # "absent" /\ user[u] \in AccountRow
  BY DEF AbsentIsUnlocked, PeopleTyped
<1>1. ASSUME NEW q \in Requests, NEW x \in Addresses, People!StartLogin(q, x)
        PROVE user' = user /\ sessions' = sessions
  BY <1>1 DEF People!StartLogin
<1>2. ASSUME NEW q \in Requests, People!WrongPassword(q)
        PROVE user'[u] = user[u] /\ sessions' = sessions
  BY <1>2 DEF People!WrongPassword, People!Failed, PeopleTyped, LoginRow, People!Idle
<1>3. ASSUME NEW q \in Requests, People!RightPassword(q)
      PROVE  /\ user'[u] = user[u]
             /\ \A s \in sessions' \ sessions : s.user # u
  BY <1>3 DEF People!RightPassword, People!StillValid, PeopleTyped, LoginRow, People!Idle
<1>4. ASSUME NEW x \in Addresses, People!LockExpires(x)
      PROVE  /\ user'[u].lock \in {"active", "expired"} /\ user'[u].fails = user[u].fails
             /\ sessions' = sessions
  BY <1>0, <1>4 DEF People!LockExpires, PeopleTyped, AccountRow
<1>5. ASSUME NEW x \in Addresses, People!CreateUser(x) \/ People!UpdateRoles(x)
        \/ People!Maintain(x)
      PROVE  /\ user'[u].lock = "active" /\ user'[u].fails = user[u].fails
             /\ sessions' \subseteq sessions
  BY <1>0, <1>5 DEF People!CreateUser, People!UpdateRoles, People!Maintain, People!Revoked,
     PeopleTyped, AccountRow
<1>6. ASSUME NEW s \in sessions, People!Logout(s)
        PROVE user' = user /\ sessions' \subseteq sessions
  BY <1>6 DEF People!Logout
<1>7. ASSUME NEW f \in Flows, People!StartFlow(f) \/ People!ClaimFlow(f)
        \/ People!FlowFails(f) \/ People!FlowExpires(f)
      PROVE  user' = user /\ sessions' = sessions
  BY <1>7 DEF People!StartFlow, People!ClaimFlow, People!FlowFails, People!FlowExpires
<1>8. ASSUME NEW f \in Flows, NEW s \in Subjects, NEW x \in Addresses,
        People!CompleteFlow(f, s, x)
      PROVE  user'[u] = user[u] /\ sessions' = sessions
  BY <1>0, <1>8 DEF People!CompleteFlow, PeopleTyped
<1>9. ASSUME NEW f \in Flows, People!EnterByFlow(f)
      PROVE  user' = user /\ \A s \in sessions' \ sessions : s.by = "google"
  BY <1>9 DEF People!EnterByFlow
<1> QED
  BY <1>1, <1>2, <1>3, <1>4, <1>5, <1>6, <1>7, <1>8, <1>9 DEF People!Next

LEMMA PeopleHolds == People!Spec => []PeopleInv
  BY PeopleBegins, PeopleKeeps, PTL DEF People!Spec

LEMMA AccountTypes == PeopleInv => People!TypeOK
  BY DEF PeopleInv, People!TypeOK, PeopleTyped, AccountRow

-----------------------------------------------------------------------------
(* Analyses and what people have on screen of them                         *)

\* What the office does, its part does, or nothing.
LEMMA AnalysisRuns == OfficeSpec => Analysis!Spec
<1>1. OfficeInit => Analysis!Init
  BY DEF OfficeInit
<1>2. [OfficeNext]_officeVars => [Analysis!Next]_(Analysis!vars)
  BY DEF OfficeNext, officeVars, Only, analysisRows, Analysis!vars, TextStep, AnalysisStep,
     AiStep, AccountsStep, FeesStep, MailStep, LossStep, RegistryStep, PhotosStep,
     TramerStep, TrackingStep
<1> QED
  BY <1>1, <1>2, PTL DEF OfficeSpec, Analysis!Spec

LEMMA AnalysisCounts == \A S : Analysis!Cardinality(S) = Cardinality(S)
BY DEF Analysis!Cardinality, Cardinality

ConflictLists == UNION {[s -> {"open", "resolved"}] : s \in SUBSET Nat}
AnalysisVersionRow == [doc : Policies, complete : BOOLEAN, active : BOOLEAN,
                       status : Analysis!VersionStatuses, conflicts : ConflictLists]
AnalysisRow == [version : Nat, doc : Policies \cup {"none"}, current : Nat]
ReviewRow == [version : Nat, choice : Analysis!Choices \cup {"none"}]
DetailPages == [kind : {"analysis"}, id : Analyses, version : Nat, content : AnalysisVersionRow]
PreviewPages == [kind : {"preview"}, run : Reviewed, reviews : [Candidates -> ReviewRow],
                 targets : SUBSET [id : Analyses, version : Nat]]
ScreenPages == {Analysis!NoPage} \cup DetailPages \cup PreviewPages

AnalysisTyped ==
  /\ analysis \in [Analyses -> AnalysisRow]
  /\ ver \in [Analyses -> Seq(AnalysisVersionRow)]
  /\ review \in [Reviewed -> [Candidates -> ReviewRow]]
  /\ page \in [Approvers -> ScreenPages]
  /\ \A t \in resolving : t.id \in Analyses /\ t.number \in DOMAIN ver[t.id]

\* Of the versions of an analysis only the last can be in force, without a conflict.
VersionsFit(s) ==
  \A k \in DOMAIN s : /\ s[k].active <=> s[k].status = "approved"
                      /\ s[k].active => k = Len(s) /\ Analysis!Open(s[k]) = {}

AnalysisFits(a) ==
  /\ analysis[a].current = Len(ver[a]) /\ Len(ver[a]) <= MaxVersions
  /\ Analysis!Exists(a) => analysis[a].doc = Analysis!Current(a).doc
  /\ VersionsFit(ver[a])

InForce(a) == Analysis!Exists(a) /\ Analysis!Current(a).active

\* A page shows what is so, or shows an older version, or what is in force no more.
PageFits(u) ==
  page[u].kind = "analysis" =>
    LET a == page[u].id IN
    /\ Analysis!Exists(a) /\ page[u].version <= analysis[a].version
    /\ page[u].version = analysis[a].version =>
         page[u].content = Analysis!Current(a) \/ Analysis!Current(a).status = "superseded"

AnalysisInv ==
  /\ AnalysisTyped
  /\ \A a \in Analyses : AnalysisFits(a)
  /\ \A a, b \in Analyses : InForce(a) /\ InForce(b)
     /\ Analysis!Current(a).doc = Analysis!Current(b).doc => a = b
  /\ \A u \in Approvers : PageFits(u)

LEMMA DetailOrNot ==
  \A p \in ScreenPages : /\ p.kind = "analysis" => p \in DetailPages
                         /\ p.kind = "preview" => p \in PreviewPages
<1>1. \A p \in DetailPages : p.kind = "analysis"
  BY DEF DetailPages
<1>2. \A p \in PreviewPages : p.kind = "preview"
  BY DEF PreviewPages
<1>3. Analysis!NoPage.kind = "none"
  BY DEF Analysis!NoPage
<1> QED
  BY <1>1, <1>2, <1>3 DEF ScreenPages

LEMMA AnalysisBegins == Analysis!Init => AnalysisInv
<1> SUFFICES ASSUME Analysis!Init PROVE AnalysisInv
  OBVIOUS
<1>1. AnalysisTyped
  BY DEF Analysis!Init, AnalysisTyped, Analysis!NoAnalysis, AnalysisRow, Analysis!NoReview,
     ReviewRow, ScreenPages
<1>2. ASSUME NEW a \in Analyses PROVE AnalysisFits(a) /\ ~Analysis!Exists(a)
  BY AnalysisAssumption DEF Analysis!Init, AnalysisFits, Analysis!Exists, VersionsFit,
     Analysis!NoAnalysis
<1>3. ASSUME NEW u \in Approvers PROVE PageFits(u)
  BY DEF Analysis!Init, PageFits, Analysis!NoPage
<1> QED
  BY <1>1, <1>2, <1>3 DEF AnalysisInv, InForce

\* What the current version is, of an analysis that exists.
LEMMA CurrentIsLast ==
  ASSUME AnalysisInv, NEW a \in Analyses
  PROVE  /\ Analysis!Exists(a) <=> ver[a] # <<>>
         /\ Analysis!Exists(a) => /\ analysis[a].current \in DOMAIN ver[a]
                                  /\ Analysis!Current(a) \in AnalysisVersionRow
                                     /\ Analysis!Current(a) = ver[a][Len(ver[a])]
<1>1. ver[a] \in Seq(AnalysisVersionRow) /\ analysis[a].current = Len(ver[a])
  BY DEF AnalysisInv, AnalysisTyped, AnalysisFits
<1> QED
  BY <1>1 DEF Analysis!Exists, Analysis!Current

\* People look at pages, and leave them.
PagesStay ==
  /\ page' \in [Approvers -> ScreenPages]
  /\ \A u \in Approvers : page'[u] = page[u] \/ page'[u] = Analysis!NoPage

LEMMA PagesLeft ==
  ASSUME AnalysisInv, NEW u \in Approvers, page' = page \/ Analysis!Done(u)
  PROVE  PagesStay
BY DEF AnalysisInv, AnalysisTyped, Analysis!Done, PagesStay, ScreenPages

\* The versions s of an analysis: none comes into force by it.
LEMMA WritingKeeps ==
  ASSUME AnalysisInv, NEW a \in Analyses, NEW s \in Seq(AnalysisVersionRow),
    NEW entered \in AnalysisRow,
         ver' = [ver EXCEPT ![a] = s], analysis' = [analysis EXCEPT ![a] = entered],
         VersionsFit(s), s # <<>>, Len(s) <= MaxVersions, Len(ver[a]) <= Len(s),
         entered.current = Len(s), entered.doc = s[Len(s)].doc,
         s[Len(s)].active => InForce(a) /\ Analysis!Current(a).doc = s[Len(s)].doc,
         Analysis!Exists(a) => entered.version > analysis[a].version,
         review' \in [Reviewed -> [Candidates -> ReviewRow]], resolving' \subseteq resolving,
         PagesStay
  PROVE  AnalysisInv'
<1>1. /\ ver'[a] = s /\ analysis'[a] = entered /\ Len(s) \in Nat \ {0}
      /\ \A b \in Analyses : b # a => ver'[b] = ver[b] /\ analysis'[b] = analysis[b]
  BY DEF AnalysisInv, AnalysisTyped
<1>2. /\ Analysis!Exists(a)' /\ Analysis!Current(a)' = s[Len(s)]
        /\ s[Len(s)] \in AnalysisVersionRow
      /\ \A b \in Analyses : b # a => /\ Analysis!Exists(b)' = Analysis!Exists(b)
                                         /\ Analysis!Current(b)' = Analysis!Current(b)
                                      /\ InForce(b)' = InForce(b)
  BY <1>1 DEF Analysis!Exists, Analysis!Current, InForce
<1>3. AnalysisTyped'
  <2>1. analysis' \in [Analyses -> AnalysisRow] /\ ver' \in [Analyses -> Seq(AnalysisVersionRow)]
    BY DEF AnalysisInv, AnalysisTyped
  <2>2. ASSUME NEW t \in resolving
        PROVE  t.id \in Analyses /\ t.number \in DOMAIN ver'[t.id]
    <3>1. t.id \in Analyses /\ t.number \in DOMAIN ver[t.id]
      BY DEF AnalysisInv, AnalysisTyped
    <3>2. CASE t.id = a
      <4>1. ver[a] \in Seq(AnalysisVersionRow)
        BY DEF AnalysisInv, AnalysisTyped
      <4> QED
        BY <1>1, <3>1, <3>2, <4>1
    <3> QED
      BY <1>1, <3>1, <3>2
  <2> QED
    BY <2>1, <2>2 DEF AnalysisTyped, PagesStay
<1>4. ASSUME NEW b \in Analyses PROVE AnalysisFits(b)'
  <2>1. CASE b = a
    BY <1>1, <1>2, <2>1 DEF AnalysisFits, VersionsFit, Analysis!Open
  <2>2. CASE b # a
    <3>1. AnalysisFits(b)
      BY DEF AnalysisInv
    <3> QED
      BY <1>1, <1>2, <2>2, <3>1 DEF AnalysisFits, VersionsFit, Analysis!Open
  <2> QED
    BY <2>1, <2>2
<1>5. ASSUME NEW b \in Analyses, NEW c \in Analyses, InForce(b)', InForce(c)',
             Analysis!Current(b)'.doc = Analysis!Current(c)'.doc
      PROVE  b = c
  <2>1. ASSUME NEW x \in Analyses, InForce(x)'
        PROVE  InForce(x) /\ Analysis!Current(x)'.doc = Analysis!Current(x).doc
    BY <1>2, <2>1 DEF InForce
  <2>2. InForce(b) /\ InForce(c) /\ Analysis!Current(b).doc = Analysis!Current(c).doc
    BY <1>5, <2>1
  <2> QED
    BY <2>2 DEF AnalysisInv
<1>6. ASSUME NEW u \in Approvers PROVE PageFits(u)'
  <2>1. CASE page'[u] = Analysis!NoPage
    BY <2>1 DEF PageFits, Analysis!NoPage
  <2>2. CASE page'[u] = page[u] /\ page[u].kind = "analysis"
    <3>1. page[u] \in DetailPages
      BY <2>2, DetailOrNot DEF AnalysisInv, AnalysisTyped
    <3>2. PICK b \in Analyses : b = page[u].id
      BY <3>1 DEF DetailPages
    <3>3. page[u].version \in Nat /\ analysis[b].version \in Nat /\ entered.version \in Nat
      BY <3>1 DEF DetailPages, AnalysisInv, AnalysisTyped, AnalysisRow
    <3>4. /\ Analysis!Exists(b) /\ page[u].version <= analysis[b].version
          /\ page[u].version = analysis[b].version =>
               page[u].content = Analysis!Current(b) \/ Analysis!Current(b).status = "superseded"
      BY <2>2, <3>2 DEF AnalysisInv, PageFits
    <3>5. CASE b = a
      <4>1. page[u].version < entered.version
        BY <3>3, <3>4, <3>5
      <4> QED
        BY <1>1, <1>2, <2>2, <3>2, <3>3, <3>5, <4>1 DEF PageFits
    <3>6. CASE b # a
      BY <1>1, <1>2, <2>2, <3>2, <3>4, <3>6 DEF PageFits
    <3> QED
      BY <3>5, <3>6
  <2>3. CASE page'[u] = page[u] /\ page[u].kind # "analysis"
    BY <2>3 DEF PageFits
  <2> QED
    BY <2>1, <2>2, <2>3 DEF PagesStay
<1> QED
  BY <1>3, <1>4, <1>5, <1>6 DEF AnalysisInv

\* A version that is not in force yet.
Begun(v) == v \in AnalysisVersionRow /\ ~v.active /\ v.status # "approved"

LEMMA NewVersionFresh ==
  ASSUME NEW d \in Policies, NEW n \in Nat, NEW complete \in BOOLEAN,
         NEW initial \in Analysis!InitialStatuses
  PROVE  Begun(Analysis!NewVersion(d, n, complete, initial))
<1>1. [c \in 1 .. n |-> "open"] \in ConflictLists
  BY DEF ConflictLists
<1>2. Analysis!StatusOfNew(n, complete, initial) \in Analysis!VersionStatuses \ {"approved"}
  BY DEF Analysis!StatusOfNew, Analysis!VersionStatuses, Analysis!InitialStatuses
<1> QED
  BY <1>1, <1>2 DEF Analysis!NewVersion, Begun, AnalysisVersionRow

LEMMA AnalysisFollowKeeps ==
  ASSUME AnalysisInv, NEW a \in Analyses, Analysis!Exists(a), NEW v, Begun(v),
    Analysis!Follow(a, v),
         review' \in [Reviewed -> [Candidates -> ReviewRow]], resolving' = resolving, PagesStay
  PROVE  AnalysisInv'
<1> DEFINE n == Len(ver[a])
           t == [ver[a] EXCEPT ![n] = Analysis!Superseded(@)]
           s == Append(t, v)
           entered == [version |-> analysis[a].version + 1, doc |-> v.doc, current |-> n + 1]
<1>1. /\ ver[a] \in Seq(AnalysisVersionRow) /\ n \in Nat \ {0} /\ analysis[a].current = n
      /\ analysis[a] \in AnalysisRow /\ VersionsFit(ver[a]) /\ v \in AnalysisVersionRow
  BY CurrentIsLast DEF AnalysisInv, AnalysisTyped, AnalysisFits, Analysis!Exists, Begun
<1>2. Analysis!Superseded(ver[a][n]) \in AnalysisVersionRow
        /\ ~Analysis!Superseded(ver[a][n]).active
      /\ Analysis!Superseded(ver[a][n]).status # "approved"
  <2>1. ver[a][n] \in AnalysisVersionRow /\ (ver[a][n].active <=> ver[a][n].status = "approved")
    BY <1>1 DEF VersionsFit
  <2> QED
    BY <2>1 DEF Analysis!Superseded, AnalysisVersionRow, Analysis!VersionStatuses
<1>3. t \in Seq(AnalysisVersionRow) /\ Len(t) = n /\ t[n] = Analysis!Superseded(ver[a][n])
      /\ \A k \in 1 .. n : k # n => t[k] = ver[a][k]
  BY <1>1, <1>2
<1> HIDE DEF t
<1>4. s \in Seq(AnalysisVersionRow) /\ Len(s) = n + 1 /\ s[n + 1] = v /\ s # <<>>
      /\ \A k \in 1 .. n : s[k] = t[k]
  BY <1>1, <1>3
<1>5. \A k \in 1 .. n : ~s[k].active /\ s[k].status # "approved"
  <2>1. \A k \in 1 .. n : k # n => ~ver[a][k].active /\ ver[a][k].status # "approved"
    BY <1>1 DEF VersionsFit
  <2> QED
    BY <1>2, <1>3, <1>4, <2>1
<1>6. VersionsFit(s)
  BY <1>1, <1>4, <1>5 DEF VersionsFit, Begun
<1>7. ver' = [ver EXCEPT ![a] = s] /\ analysis' = [analysis EXCEPT ![a] = entered]
      /\ Len(s) <= MaxVersions
  <2>1. ver' = [ver EXCEPT ![a] = s] /\ n < MaxVersions
    <3> DEFINE m == analysis[a].current
    <3>0. ver' = [ver EXCEPT ![a] = Append([ver[a] EXCEPT ![m] = Analysis!Superseded(ver[a][m])], v)]
      BY DEF Analysis!Follow
    <3> HIDE DEF m
    <3>1. m = n
      BY <1>1 DEF m
    <3>3. ver' = [ver EXCEPT ![a] = Append([ver[a] EXCEPT ![n] = Analysis!Superseded(ver[a][n])], v)]
      BY <3>0, <3>1
    <3> QED
      BY <3>3 DEF Analysis!Follow, t
  <2>2. analysis' = [analysis EXCEPT ![a] = entered]
    BY <1>1 DEF Analysis!Follow
  <2>3. Len(s) <= MaxVersions
    BY <1>1, <1>4, <2>1, AnalysisAssumption
  <2> QED
    BY <2>1, <2>2, <2>3
<1>8. entered \in AnalysisRow /\ entered.current = Len(s) /\ entered.doc = s[Len(s)].doc
      /\ entered.version > analysis[a].version /\ ~s[Len(s)].active /\ n <= Len(s)
  BY <1>1, <1>4 DEF AnalysisRow, AnalysisVersionRow, Begun
<1> HIDE DEF s, entered
<1> QED
  BY <1>4, <1>6, <1>7, <1>8, WritingKeeps

LEMMA FoundKeeps ==
  ASSUME AnalysisInv, NEW a \in Analyses, NEW v, Begun(v), Analysis!Found(a, v),
         review' \in [Reviewed -> [Candidates -> ReviewRow]], resolving' = resolving, PagesStay
  PROVE  AnalysisInv'
<1> DEFINE s == <<v>>
           entered == [version |-> 1, doc |-> v.doc, current |-> 1]
<1>1. s \in Seq(AnalysisVersionRow) /\ Len(s) = 1 /\ s[1] = v /\ s # <<>>
        /\ entered \in AnalysisRow
  BY DEF Begun, AnalysisRow, AnalysisVersionRow
<1>2. VersionsFit(s)
  BY <1>1 DEF VersionsFit, Begun
<1>3. Len(ver[a]) = 0
  BY CurrentIsLast DEF Analysis!Found
<1>4. entered.current = Len(s) /\ entered.doc = s[Len(s)].doc /\ ~s[Len(s)].active
        /\ Len(s) <= MaxVersions
      /\ Len(ver[a]) <= Len(s)
  BY <1>1, <1>3, AnalysisAssumption DEF Begun
<1>5. ver' = [ver EXCEPT ![a] = s] /\ analysis' = [analysis EXCEPT ![a] = entered]
        /\ ~Analysis!Exists(a)
  BY DEF Analysis!Found
<1> HIDE DEF s, entered
<1> QED
  BY <1>1, <1>2, <1>4, <1>5, WritingKeeps

LEMMA WrittenFresh ==
  ASSUME NEW d \in Policies, NEW v \in Analysis!Drafted(d)
  PROVE  Begun(v)
<1>1. PICK w \in Written : v = Analysis!NewVersion(d, w.conflicts, w.complete, w.initial)
  BY DEF Analysis!Drafted
<1>2. w.conflicts \in Nat /\ w.complete \in BOOLEAN /\ w.initial \in Analysis!InitialStatuses
  BY AnalysisAssumption DEF Analysis!InitialStatuses
<1> QED
  BY <1>1, <1>2, NewVersionFresh

LEMMA FromRunFresh ==
  ASSUME NEW r \in Reviewed
  PROVE  Begun(Analysis!FromRun(r))
<1> DEFINE both == {d \in Disputes[r] : d \subseteq Analysis!Selected(r)}
           complete == \A c \in Candidates : review[r][c].choice = "validated"
<1>1. Cardinality(both) \in Nat
  BY AnalysisAssumption, FS_Subset, FS_CardinalityType
<1>2. SourceOf[r] \in Policies /\ complete \in BOOLEAN /\ "draft" \in Analysis!InitialStatuses
  BY AnalysisAssumption DEF Analysis!InitialStatuses
<1>3. Analysis!FromRun(r) = Analysis!NewVersion(SourceOf[r], Cardinality(both), complete, "draft")
  BY AnalysisCounts DEF Analysis!FromRun
<1> HIDE DEF both, complete
<1> QED
  BY <1>1, <1>2, <1>3, NewVersionFresh

\* The current version of an analysis is written again, and is not in force anew.
LEMMA RewritingKeeps ==
  ASSUME AnalysisInv, NEW a \in Analyses, NEW k \in DOMAIN ver[a], NEW v \in AnalysisVersionRow,
         ver' = [ver EXCEPT ![a][k] = v],
         analysis' = [analysis EXCEPT ![a].version = @ + 1],
         v.doc = ver[a][k].doc, v.active <=> v.status = "approved",
         v.active => ver[a][k].active /\ Analysis!Open(v) \subseteq Analysis!Open(ver[a][k]),
         UNCHANGED review, resolving' \subseteq resolving, PagesStay
  PROVE  AnalysisInv'
<1> DEFINE s == [ver[a] EXCEPT ![k] = v]
           entered == [analysis[a] EXCEPT !.version = @ + 1]
<1>1. /\ ver[a] \in Seq(AnalysisVersionRow) /\ analysis[a].current = Len(ver[a])
      /\ analysis[a] \in AnalysisRow /\ VersionsFit(ver[a]) /\ Len(ver[a]) \in Nat
      /\ Len(ver[a]) <= MaxVersions /\ ver[a] # <<>>
  BY DEF AnalysisInv, AnalysisTyped, AnalysisFits
<1>2. Analysis!Exists(a) /\ analysis[a].doc = Analysis!Current(a).doc
        /\ Analysis!Current(a) = ver[a][Len(ver[a])]
  BY <1>1, CurrentIsLast DEF AnalysisInv, AnalysisFits
<1>3. s \in Seq(AnalysisVersionRow) /\ Len(s) = Len(ver[a]) /\ s # <<>> /\ s[k] = v
      /\ \A j \in DOMAIN ver[a] : j # k => s[j] = ver[a][j]
  BY <1>1
<1>4. VersionsFit(s)
  BY <1>1, <1>3 DEF VersionsFit
<1>5. s[Len(s)].doc = analysis[a].doc /\ (s[Len(s)].active => Analysis!Current(a).active)
  BY <1>1, <1>2, <1>3
<1>6. entered \in AnalysisRow /\ entered.current = Len(s) /\ entered.doc = s[Len(s)].doc
      /\ entered.version > analysis[a].version
  BY <1>1, <1>3, <1>5 DEF AnalysisRow
<1>7. ver' = [ver EXCEPT ![a] = s] /\ analysis' = [analysis EXCEPT ![a] = entered]
      /\ review' \in [Reviewed -> [Candidates -> ReviewRow]]
  BY DEF AnalysisInv, AnalysisTyped
<1> HIDE DEF s, entered
<1>8. s[Len(s)].active => InForce(a) /\ Analysis!Current(a).doc = s[Len(s)].doc
  BY <1>2, <1>5 DEF InForce
<1>9. Len(s) <= MaxVersions /\ Len(ver[a]) <= Len(s)
  BY <1>1, <1>3
<1> QED
  BY <1>3, <1>4, <1>6, <1>7, <1>8, <1>9, WritingKeeps

LEMMA CreateKeepsAnalyses ==
  ASSUME AnalysisInv, NEW a \in Analyses, Analysis!Create(a)
  PROVE  AnalysisInv'
<1>1. PICK d \in Policies : \E v \in Analysis!Drafted(d) : Analysis!Found(a, v)
  BY DEF Analysis!Create
<1>2. PICK v \in Analysis!Drafted(d) : Analysis!Found(a, v)
  BY <1>1
<1>3. PagesStay /\ review' \in [Reviewed -> [Candidates -> ReviewRow]] /\ resolving' = resolving
  BY DEF Analysis!Create, AnalysisInv, AnalysisTyped, PagesStay
<1> QED
  BY <1>2, <1>3, WrittenFresh, FoundKeeps

\* A fresh page is of an analysis that exists.
LEMMA FreshShows ==
  ASSUME AnalysisInv, NEW u \in Approvers, Analysis!Fresh(u)
  PROVE  /\ page[u].id \in Analyses /\ Analysis!Exists(page[u].id)
         /\ page[u].content = Analysis!Current(page[u].id)
            \/ Analysis!Current(page[u].id).status = "superseded"
<1>1. page[u] \in DetailPages
  BY DetailOrNot DEF Analysis!Fresh, AnalysisInv, AnalysisTyped
<1>2. page[u].id \in Analyses
  BY <1>1 DEF DetailPages
<1> QED
  BY <1>2 DEF AnalysisInv, PageFits, Analysis!Fresh

LEMMA CreateVersionKeeps ==
  ASSUME AnalysisInv, NEW u \in Approvers, Analysis!CreateVersion(u)
  PROVE  AnalysisInv'
<1>1. PICK a \in Analyses : a = page[u].id /\ Analysis!Exists(a)
  BY FreshShows DEF Analysis!CreateVersion
<1>2. PICK d \in Policies : \E v \in Analysis!Drafted(d) : Analysis!Follow(a, v)
  BY <1>1 DEF Analysis!CreateVersion
<1>3. PICK v \in Analysis!Drafted(d) : Analysis!Follow(a, v)
  BY <1>2
<1>4. PagesStay
  BY PagesLeft DEF Analysis!CreateVersion
<1>5. review' \in [Reviewed -> [Candidates -> ReviewRow]] /\ resolving' = resolving
  BY DEF Analysis!CreateVersion, AnalysisInv, AnalysisTyped
<1> QED
  BY <1>1, <1>3, <1>4, <1>5, WrittenFresh, AnalysisFollowKeeps

LEMMA PreviewShows ==
  ASSUME AnalysisInv, NEW u \in Approvers, page[u].kind = "preview"
  PROVE  page[u].run \in Reviewed /\ page[u].reviews \in [Candidates -> ReviewRow]
BY DetailOrNot DEF AnalysisInv, AnalysisTyped, PreviewPages

LEMMA PromoteKeeps ==
  ASSUME AnalysisInv, NEW u \in Approvers, Analysis!Promote(u)
  PROVE  AnalysisInv'
<1>1. PICK r \in Reviewed : r = page[u].run
  BY PreviewShows DEF Analysis!Promote
<1>2. Begun(Analysis!FromRun(r))
  BY FromRunFresh
<1>3. PagesStay
  BY PagesLeft DEF Analysis!Promote
<1>4. review' \in [Reviewed -> [Candidates -> ReviewRow]] /\ resolving' = resolving
  BY DEF Analysis!Promote, AnalysisInv, AnalysisTyped
<1>5. ASSUME NEW a \in Analysis!Targets(r), Analysis!FollowFromRun(a, Analysis!FromRun(r))
        PROVE AnalysisInv'
  BY <1>2, <1>3, <1>4, <1>5, AnalysisFollowKeeps DEF Analysis!FollowFromRun, Analysis!Targets
<1>6. ASSUME NEW a \in Analyses, Analysis!Found(a, Analysis!FromRun(r)) PROVE AnalysisInv'
  BY <1>2, <1>3, <1>4, <1>6, FoundKeeps
<1> QED
  BY <1>1, <1>5, <1>6 DEF Analysis!Promote

LEMMA RejectKeeps ==
  ASSUME AnalysisInv, NEW u \in Approvers, Analysis!Reject(u)
  PROVE  AnalysisInv'
<1>1. PICK a \in Analyses : a = page[u].id /\ Analysis!Exists(a)
  BY FreshShows DEF Analysis!Reject
<1> DEFINE k == analysis[a].current
           v == [ver[a][k] EXCEPT !.status = "rejected"]
<1>2. k \in DOMAIN ver[a] /\ ver[a][k] \in AnalysisVersionRow /\ Analysis!Current(a) = ver[a][k]
  BY <1>1, CurrentIsLast DEF Analysis!Current
<1>3. ver[a][k].active <=> ver[a][k].status = "approved"
  BY <1>2 DEF AnalysisInv, AnalysisFits, VersionsFit
<1>4. v \in AnalysisVersionRow /\ v.doc = ver[a][k].doc /\ v.status = "rejected"
        /\ v.active = ver[a][k].active
  BY <1>2 DEF AnalysisVersionRow, Analysis!VersionStatuses
<1>5. ver[a][k].status # "approved"
  BY <1>1, <1>2 DEF Analysis!Reject
<1>6. ~v.active
  BY <1>3, <1>4, <1>5
<1>7. ver' = [ver EXCEPT ![a][k] = v] /\ analysis' = [analysis EXCEPT ![a].version = @ + 1]
  BY <1>1 DEF Analysis!Reject, AnalysisInv, AnalysisTyped
<1>8. PagesStay
  BY PagesLeft DEF Analysis!Reject
<1>9. UNCHANGED review /\ resolving' \subseteq resolving
  BY DEF Analysis!Reject
<1> HIDE DEF k, v
<1> QED
  BY <1>2, <1>4, <1>6, <1>7, <1>8, <1>9, RewritingKeeps

\* What a version becomes when one of its conflicts is resolved.
LEMMA ResolvedVersion ==
  ASSUME NEW v \in AnalysisVersionRow, NEW t
  PROVE  /\ Analysis!Resolved(v, t) \in AnalysisVersionRow
         /\ Analysis!Resolved(v, t).doc = v.doc /\ Analysis!Resolved(v, t).active = v.active
         /\ \/ Analysis!Resolved(v, t).status = v.status
            \/ Analysis!Resolved(v, t).status # "approved" /\ v.status # "approved"
         /\ Analysis!Open(Analysis!Resolved(v, t)) \subseteq Analysis!Open(v)
<1> DEFINE w == Analysis!Resolved(v, t)
           list == [v.conflicts EXCEPT ![t.conflict] = "resolved"]
           status == IF t.last
             /\ v.status = "conflict_detected" THEN "awaiting_approval" ELSE v.status
<1>1. list \in ConflictLists
  <2>1. PICK s \in SUBSET Nat : v.conflicts \in [s -> {"open", "resolved"}]
    BY DEF AnalysisVersionRow, ConflictLists
  <2>2. list \in [s -> {"open", "resolved"}]
    BY <2>1
  <2> QED
    BY <2>2 DEF ConflictLists
<1>2. status \in Analysis!VersionStatuses
  BY DEF AnalysisVersionRow, Analysis!VersionStatuses, Analysis!InitialStatuses
<1>3. w = [[v EXCEPT !.conflicts = list] EXCEPT !.status = status]
  BY DEF Analysis!Resolved, AnalysisVersionRow
<1> HIDE DEF list, status
<1>4. /\ w \in AnalysisVersionRow /\ w.doc = v.doc /\ w.active = v.active
      /\ w.conflicts = list /\ w.status = status
  BY <1>1, <1>2, <1>3 DEF AnalysisVersionRow
<1> QED
  BY <1>4 DEF list, status, Analysis!Open

LEMMA FinishResolvingKeeps ==
  ASSUME AnalysisInv, NEW t \in resolving, Analysis!FinishResolving(t)
  PROVE  AnalysisInv'
<1>0. PICK a \in Analyses : a = t.id /\ t.number \in DOMAIN ver[a]
  BY DEF AnalysisInv, AnalysisTyped
<1>1. PICK k \in DOMAIN ver[a] : k = t.number
  BY <1>0
<1> DEFINE old == ver[a][k]
           v == Analysis!Resolved(old, t)
<1>2. old \in AnalysisVersionRow /\ (old.active <=> old.status = "approved")
  BY DEF AnalysisInv, AnalysisTyped, AnalysisFits, VersionsFit
<1>3. /\ v \in AnalysisVersionRow /\ v.doc = old.doc /\ v.active = old.active
      /\ v.status = old.status \/ (v.status # "approved" /\ old.status # "approved")
      /\ Analysis!Open(v) \subseteq Analysis!Open(old)
  BY <1>2, ResolvedVersion
<1>4. ver' = [ver EXCEPT ![a][k] = v]
  BY <1>0, <1>1 DEF Analysis!FinishResolving
<1>6. analysis' = [analysis EXCEPT ![a].version = @ + 1]
  BY <1>0 DEF Analysis!FinishResolving, Analysis!Counted
<1>7. PagesStay /\ UNCHANGED review /\ resolving' \subseteq resolving
  BY DEF Analysis!FinishResolving, AnalysisInv, AnalysisTyped, PagesStay
<1> HIDE DEF v
<1> QED
  BY <1>2, <1>3, <1>4, <1>6, <1>7, RewritingKeeps
\* What is in force for the document gives way to the version that is approved.
LEMMA AnalysisApproveKeeps ==
  ASSUME AnalysisInv, NEW u \in Approvers, Analysis!Approve(u)
  PROVE  AnalysisInv'
<1>1. PICK a \in Analyses : a = page[u].id /\ Analysis!Exists(a)
  BY FreshShows DEF Analysis!Approve
<1> DEFINE n == Len(ver[a])
           d == analysis[a].doc
           Row(x, k) == IF x = a /\ k = analysis[a].current
                        THEN [ver[x][k] EXCEPT !.status = "approved", !.active = TRUE]
                        ELSE IF ver[x][k].doc = d /\ ver[x][k].active
                        THEN Analysis!Superseded(ver[x][k])
                        ELSE ver[x][k]
<1>2. /\ ver' = [x \in Analyses |-> [k \in DOMAIN ver[x] |-> Row(x, k)]]
      /\ analysis' = [analysis EXCEPT ![a].version = @ + 1]
      /\ Analysis!Open(Analysis!Current(a)) = {} /\ UNCHANGED <<review, resolving>>
  BY <1>1 DEF Analysis!Approve, Analysis!Approved
<1>3. /\ analysis[a].current = n /\ n \in DOMAIN ver[a] /\ Analysis!Current(a) = ver[a][n]
      /\ Analysis!Current(a).doc = d /\ ver[a][n] \in AnalysisVersionRow
  BY <1>1, CurrentIsLast DEF AnalysisInv, AnalysisFits
<1>4. ASSUME NEW x \in Analyses
      PROVE  ver[x] \in Seq(AnalysisVersionRow) /\ DOMAIN ver[x] = 1 .. Len(ver[x])
  BY DEF AnalysisInv, AnalysisTyped
<1>5. ASSUME NEW x \in Analyses, NEW k \in DOMAIN ver[x]
      PROVE  /\ Row(x, k) \in AnalysisVersionRow /\ Row(x, k).doc = ver[x][k].doc
             /\ Row(x, k).conflicts = ver[x][k].conflicts
             /\ Row(x, k).active <=> Row(x, k).status = "approved"
             /\ Row(x, k).active => \/ x = a /\ k = n
                                    \/ ver[x][k].active /\ ver[x][k].doc # d
             /\ x # a \/ k # n => Row(x, k) = ver[x][k] \/ Row(x, k).status = "superseded"
  <2>1. ver[x][k] \in AnalysisVersionRow
    BY <1>4
  <2>2. ver[x][k].active <=> ver[x][k].status = "approved"
    BY DEF AnalysisInv, AnalysisFits, VersionsFit
  <2>3. CASE x = a /\ k = analysis[a].current
    <3>1. Row(x, k) = [[ver[x][k] EXCEPT !.status = "approved"] EXCEPT !.active = TRUE]
      BY <2>3, <2>1 DEF AnalysisVersionRow
    <3> HIDE DEF Row
    <3> QED
      BY <1>3, <2>1, <2>3, <3>1 DEF AnalysisVersionRow, Analysis!VersionStatuses
  <2>4. CASE ~(x = a /\ k = analysis[a].current) /\ ver[x][k].doc = d /\ ver[x][k].active
    <3>1. Row(x, k) = [[ver[x][k] EXCEPT !.status = "superseded"] EXCEPT !.active = FALSE]
      BY <2>1, <2>2, <2>4 DEF AnalysisVersionRow, Analysis!Superseded
    <3> HIDE DEF Row
    <3> QED
      BY <1>3, <2>1, <2>4, <3>1 DEF AnalysisVersionRow, Analysis!VersionStatuses
  <2>5. CASE ~(x = a /\ k = analysis[a].current) /\ ~(ver[x][k].doc = d /\ ver[x][k].active)
    <3>1. Row(x, k) = ver[x][k]
      BY <2>5
    <3> HIDE DEF Row
    <3> QED
      BY <1>3, <2>1, <2>2, <2>5, <3>1
  <2> QED
    BY <2>3, <2>4, <2>5
<1> HIDE DEF Row
<1>6. ASSUME NEW x \in Analyses
      PROVE  /\ ver'[x] \in Seq(AnalysisVersionRow) /\ Len(ver'[x]) = Len(ver[x])
             /\ DOMAIN ver'[x] = DOMAIN ver[x] /\ \A k \in DOMAIN ver[x] : ver'[x][k] = Row(x, k)
  <2>1. ver'[x] = [k \in DOMAIN ver[x] |-> Row(x, k)]
    BY <1>2
  <2>2. ver'[x] = [k \in 1 .. Len(ver[x]) |-> Row(x, k)] /\ Len(ver[x]) \in Nat
    BY <1>4, <2>1
  <2>3. \A k \in 1 .. Len(ver[x]) : Row(x, k) \in AnalysisVersionRow
    BY <1>4, <1>5
  <2> QED
    BY <1>4, <2>2, <2>3
<1>7. /\ analysis' \in [Analyses -> AnalysisRow]
      /\ \A x \in Analyses : /\ analysis'[x].current = analysis[x].current
                             /\ analysis'[x].doc = analysis[x].doc
                             /\ x # a => analysis'[x].version = analysis[x].version
      /\ analysis[a].version \in Nat /\ analysis'[a].version = analysis[a].version + 1
  <2>1. analysis \in [Analyses -> AnalysisRow] /\ analysis[a].version + 1 \in Nat
    BY DEF AnalysisInv, AnalysisTyped, AnalysisRow
  <2>2. [analysis[a] EXCEPT !.version = @ + 1] \in AnalysisRow
    BY <2>1 DEF AnalysisRow
  <2>3. analysis' = [analysis EXCEPT ![a] = [analysis[a] EXCEPT !.version = @ + 1]]
    BY <1>2
  <2> QED
    BY <2>1, <2>2, <2>3 DEF AnalysisRow
<1>8. PagesStay
  BY PagesLeft DEF Analysis!Approve
<1>9. AnalysisTyped'
  BY <1>2, <1>6, <1>7, <1>8 DEF AnalysisInv, AnalysisTyped, PagesStay
<1>10. ASSUME NEW x \in Analyses
       PROVE  /\ Analysis!Exists(x)' = Analysis!Exists(x)
              /\ Analysis!Exists(x) => /\ Len(ver[x]) \in DOMAIN ver[x]
                                       /\ Analysis!Current(x) = ver[x][Len(ver[x])]
                                       /\ Analysis!Current(x)' = Row(x, Len(ver[x]))
  BY <1>6, <1>7, CurrentIsLast DEF Analysis!Exists, Analysis!Current, AnalysisInv, AnalysisFits
<1>11. ASSUME NEW x \in Analyses PROVE AnalysisFits(x)'
  <2>1. /\ analysis[x].current = Len(ver[x]) /\ Len(ver[x]) <= MaxVersions
        /\ Analysis!Exists(x) => analysis[x].doc = Analysis!Current(x).doc
        /\ VersionsFit(ver[x])
    BY DEF AnalysisInv, AnalysisFits
  <2>2. Analysis!Exists(x)' => analysis'[x].doc = Analysis!Current(x)'.doc
    BY <1>5, <1>7, <1>10, <2>1
  <2>3. ASSUME NEW k \in DOMAIN ver[x], Row(x, k).active
        PROVE  k = Len(ver[x]) /\ Analysis!Open(Row(x, k)) = {}
    <3>1. CASE x = a /\ k = n
      BY <1>2, <1>3, <1>5, <3>1 DEF Analysis!Open
    <3>2. CASE ver[x][k].active
      BY <1>5, <2>1, <3>2 DEF Analysis!Open, VersionsFit
    <3> QED
      BY <1>5, <2>3, <3>1, <3>2
  <2>4. VersionsFit(ver'[x])
    BY <1>5, <1>6, <2>3 DEF VersionsFit
  <2> QED
    BY <1>6, <1>7, <2>1, <2>2, <2>4 DEF AnalysisFits
<1>12. ASSUME NEW x \in Analyses, NEW y \in Analyses, InForce(x)', InForce(y)',
              Analysis!Current(x)'.doc = Analysis!Current(y)'.doc
       PROVE  x = y
  <2>1. ASSUME NEW z \in Analyses, InForce(z)'
        PROVE  /\ Analysis!Current(z)'.doc = Analysis!Current(z).doc
               /\ z = a \/ (InForce(z) /\ Analysis!Current(z).doc # d)
    <3>1. Analysis!Exists(z) /\ Row(z, Len(ver[z])).active
            /\ Analysis!Current(z)' = Row(z, Len(ver[z]))
      BY <1>10, <2>1 DEF InForce
    <3> QED
      BY <1>3, <1>5, <1>10, <3>1 DEF InForce
  <2>2. CASE x = a \/ y = a
    BY <1>3, <1>12, <2>1, <2>2
  <2>3. CASE x # a /\ y # a
    BY <1>12, <2>1, <2>3 DEF AnalysisInv
  <2> QED
    BY <2>2, <2>3
<1>13. ASSUME NEW w \in Approvers PROVE PageFits(w)'
  <2>1. CASE page'[w] = Analysis!NoPage
    BY <2>1 DEF PageFits, Analysis!NoPage
  <2>2. CASE page'[w] = page[w] /\ page[w].kind = "analysis"
    <3>1. page[w] \in DetailPages
      BY <2>2, DetailOrNot DEF AnalysisInv, AnalysisTyped
    <3>2. PICK b \in Analyses : b = page[w].id
      BY <3>1 DEF DetailPages
    <3>3. page[w].version \in Nat /\ analysis[b].version \in Nat
      BY <3>1 DEF DetailPages, AnalysisInv, AnalysisTyped, AnalysisRow
    <3>4. /\ Analysis!Exists(b) /\ page[w].version <= analysis[b].version
          /\ page[w].version = analysis[b].version =>
               page[w].content = Analysis!Current(b) \/ Analysis!Current(b).status = "superseded"
      BY <2>2, <3>2 DEF AnalysisInv, PageFits
    <3>5. CASE b = a
      BY <1>7, <1>10, <2>2, <3>2, <3>3, <3>4, <3>5 DEF PageFits
    <3>6. CASE b # a
      <4>1. Analysis!Current(b)' = Analysis!Current(b)
              \/ Analysis!Current(b)'.status = "superseded"
        BY <1>5, <1>10, <3>4, <3>6
      <4> QED
        BY <1>7, <1>10, <2>2, <3>2, <3>4, <3>6, <4>1 DEF PageFits
    <3> QED
      BY <3>5, <3>6
  <2>3. CASE page'[w] = page[w] /\ page[w].kind # "analysis"
    BY <2>3 DEF PageFits
  <2> QED
    BY <1>8, <2>1, <2>2, <2>3 DEF PagesStay
<1> QED
  BY <1>9, <1>11, <1>12, <1>13 DEF AnalysisInv

\* The analyses stay as they are.
LEMMA OthersKeep ==
  ASSUME AnalysisInv, UNCHANGED <<analysis, ver>>, page' \in [Approvers -> ScreenPages],
         review' \in [Reviewed -> [Candidates -> ReviewRow]],
         \A t \in resolving' : t.id \in Analyses /\ t.number \in DOMAIN ver[t.id],
         \A u \in Approvers : page'[u] = page[u] \/ PageFits(u)'
  PROVE  AnalysisInv'
<1>1. AnalysisTyped'
  BY DEF AnalysisInv, AnalysisTyped
<1>2. \A a \in Analyses : AnalysisFits(a)' /\ InForce(a)' = InForce(a)
        /\ Analysis!Current(a)' = Analysis!Current(a)
  BY DEF AnalysisInv, AnalysisFits, InForce, Analysis!Exists, Analysis!Current
<1>3. ASSUME NEW u \in Approvers PROVE PageFits(u)'
  BY DEF AnalysisInv, PageFits, Analysis!Exists, Analysis!Current
<1> QED
  BY <1>1, <1>2, <1>3 DEF AnalysisInv

LEMMA LookAtAnalysis ==
  ASSUME AnalysisInv, NEW u \in Approvers, Analysis!Look(u)
  PROVE  AnalysisInv'
<1>1. ASSUME NEW a \in Analyses, Analysis!Exists(a),
        page' = [page EXCEPT ![u] = Analysis!Detail(a)]
      PROVE  AnalysisInv'
  <2>1. Analysis!Current(a) \in AnalysisVersionRow /\ analysis[a].version \in Nat
    BY <1>1, CurrentIsLast DEF AnalysisInv, AnalysisTyped, AnalysisRow
  <2>2. Analysis!Detail(a) \in ScreenPages
    BY <2>1 DEF Analysis!Detail, ScreenPages, DetailPages
  <2>3. page' \in [Approvers -> ScreenPages] /\ page'[u] = Analysis!Detail(a)
        /\ \A w \in Approvers : w # u => page'[w] = page[w]
    BY <1>1, <2>2 DEF AnalysisInv, AnalysisTyped
  <2>4. UNCHANGED <<analysis, ver, review, resolving>>
    BY DEF Analysis!Look
  <2>5. PageFits(u)'
    BY <1>1, <2>1, <2>3, <2>4 DEF PageFits, Analysis!Detail, Analysis!Exists, Analysis!Current
  <2> QED
    BY <2>3, <2>4, <2>5, OthersKeep DEF AnalysisInv, AnalysisTyped
<1>2. ASSUME NEW r \in Reviewed, page' = [page EXCEPT ![u] = Analysis!Preview(r)]
      PROVE  AnalysisInv'
  <2>1. review[r] \in [Candidates -> ReviewRow]
        /\ \A a \in Analysis!Targets(r) : a \in Analyses /\ analysis[a].version \in Nat
    BY DEF AnalysisInv, AnalysisTyped, Analysis!Targets, AnalysisRow
  <2>2. Analysis!Preview(r) \in ScreenPages /\ Analysis!Preview(r).kind = "preview"
    BY <2>1 DEF Analysis!Preview, ScreenPages, PreviewPages
  <2>3. page' \in [Approvers -> ScreenPages] /\ page'[u] = Analysis!Preview(r)
        /\ \A w \in Approvers : w # u => page'[w] = page[w]
    BY <1>2, <2>2 DEF AnalysisInv, AnalysisTyped
  <2>4. UNCHANGED <<analysis, ver, review, resolving>>
    BY DEF Analysis!Look
  <2>5. PageFits(u)'
    BY <2>2, <2>3 DEF PageFits
  <2> QED
    BY <2>3, <2>4, <2>5, OthersKeep DEF AnalysisInv, AnalysisTyped
<1> QED
  BY <1>1, <1>2 DEF Analysis!Look

LEMMA AnalysisReviewKeeps ==
  ASSUME AnalysisInv, NEW u \in Approvers, NEW c \in Candidates, Analysis!Review(u, c)
  PROVE  AnalysisInv'
<1>1. PICK r \in Reviewed : r = page[u].run
  BY PreviewShows DEF Analysis!Review
<1>2. PICK choice \in Analysis!Choices :
        review' = [review EXCEPT ![r][c] = [version |-> @.version + 1, choice |-> choice]]
  BY <1>1 DEF Analysis!Review
<1>3. review' \in [Reviewed -> [Candidates -> ReviewRow]]
  <2>1. review[r][c].version + 1 \in Nat
    BY DEF AnalysisInv, AnalysisTyped, ReviewRow
  <2>2. [version |-> review[r][c].version + 1, choice |-> choice] \in ReviewRow
    BY <2>1 DEF ReviewRow
  <2> QED
    BY <1>2, <2>2 DEF AnalysisInv, AnalysisTyped
<1>4. UNCHANGED <<analysis, ver, resolving>>
  BY DEF Analysis!Review
<1>5. page' \in [Approvers -> ScreenPages]
      /\ \A w \in Approvers : page'[w] = page[w] \/ PageFits(w)'
  <2>1. PagesStay
    BY PagesLeft DEF Analysis!Review
  <2> QED
    BY <2>1 DEF PagesStay, PageFits, Analysis!NoPage
<1> QED
  BY <1>3, <1>4, <1>5, OthersKeep DEF AnalysisInv, AnalysisTyped

LEMMA StartResolvingKeeps ==
  ASSUME AnalysisInv, NEW a \in Analyses, NEW k \in DOMAIN ver[a], NEW c,
    Analysis!StartResolving(a, k, c)
  PROVE  AnalysisInv'
<1>1. \A t \in resolving' : t.id \in Analyses /\ t.number \in DOMAIN ver[t.id]
  BY DEF Analysis!StartResolving, AnalysisInv, AnalysisTyped
<1>2. UNCHANGED <<analysis, ver, review, page>>
  BY DEF Analysis!StartResolving
<1> QED
  BY <1>1, <1>2, OthersKeep DEF AnalysisInv, AnalysisTyped

LEMMA AnalysisKeeps ==
  ASSUME AnalysisInv, [Analysis!Next]_(Analysis!vars)
  PROVE  AnalysisInv'
<1>1. ASSUME NEW a \in Analyses, NEW k \in DOMAIN ver[a], NEW c \in Analysis!Open(ver[a][k]),
             Analysis!StartResolving(a, k, c)
      PROVE  AnalysisInv'
  BY <1>1, StartResolvingKeeps
<1>2. CASE UNCHANGED Analysis!vars
  BY <1>2, OthersKeep DEF Analysis!vars, AnalysisInv, AnalysisTyped
<1> QED
  BY <1>1, <1>2, LookAtAnalysis, CreateVersionKeeps, AnalysisApproveKeeps, RejectKeeps,
     PromoteKeeps,
     AnalysisReviewKeeps, CreateKeepsAnalyses, FinishResolvingKeeps DEF Analysis!Next

LEMMA AnalysisHolds == Analysis!Spec => []AnalysisInv
BY AnalysisBegins, AnalysisKeeps, PTL DEF Analysis!Spec

LEMMA AnalysisInvTypes == AnalysisInv => Analysis!TypeOK
<1> SUFFICES ASSUME AnalysisInv, NEW a \in Analyses
             PROVE  /\ analysis[a].current \in 0 .. MaxVersions /\ analysis[a].version \in Nat
                    /\ analysis[a].current = Len(ver[a])
                    /\ \A k \in DOMAIN ver[a] :
                         /\ ver[a][k].status \in Analysis!VersionStatuses
                         /\ ver[a][k].active <=> ver[a][k].status = "approved"
  BY DEF Analysis!TypeOK
<1>1. analysis[a] \in AnalysisRow /\ ver[a] \in Seq(AnalysisVersionRow) /\ AnalysisFits(a)
  BY DEF AnalysisInv, AnalysisTyped
<1>2. \A k \in DOMAIN ver[a] : ver[a][k] \in AnalysisVersionRow
  BY <1>1
<1> QED
  BY <1>1, <1>2, AnalysisAssumption DEF AnalysisFits, AnalysisRow, AnalysisVersionRow, VersionsFit

LEMMA InvActive == AnalysisInv => Analysis!ActivePolicyIsCurrent
<1> SUFFICES ASSUME AnalysisInv, NEW a \in Analyses, NEW b \in Analyses, NEW k \in DOMAIN ver[a],
                    NEW l \in DOMAIN ver[b], ver[a][k].active
             PROVE  /\ k = analysis[a].current
                    /\ Analysis!Open(ver[a][k]) = {}
                    /\ (ver[b][l].active /\ ver[b][l].doc = ver[a][k].doc) => <<a, k>> = <<b, l>>
  BY DEF Analysis!ActivePolicyIsCurrent
<1>1. ASSUME NEW x \in Analyses, NEW j \in DOMAIN ver[x], ver[x][j].active
      PROVE  /\ j = analysis[x].current /\ Analysis!Open(ver[x][j]) = {}
             /\ InForce(x) /\ Analysis!Current(x) = ver[x][j]
  <2>1. AnalysisFits(x) /\ ver[x] \in Seq(AnalysisVersionRow)
    BY DEF AnalysisInv, AnalysisTyped
  <2>2. j = analysis[x].current /\ Analysis!Open(ver[x][j]) = {}
    BY <1>1, <2>1 DEF AnalysisFits, VersionsFit
  <2> QED
    BY <1>1, <2>1, <2>2 DEF InForce, Analysis!Exists, Analysis!Current
<1> QED
  BY <1>1 DEF AnalysisInv

ShownThen ==
  /\ \A a \in Analyses : Analysis!BecomesApproved(a) =>
       \E u \in Approvers : /\ page[u].kind = "analysis" /\ page'[u] = Analysis!NoPage
                            /\ page[u].id = a /\ page[u].content = Analysis!Current(a)
  /\ \A p \in promoted' \ promoted :
       \E u \in Approvers : /\ page[u].kind = "preview" /\ page'[u] = Analysis!NoPage
                            /\ page[u].run = p[1] /\ page[u].reviews = p[2]

NoneApproved == \A a \in Analyses : ~Analysis!BecomesApproved(a)

LEMMA FollowApprovesNone ==
  ASSUME AnalysisInv, NEW a \in Analyses, Analysis!Exists(a), NEW v, Analysis!Follow(a, v)
  PROVE  NoneApproved
<1> SUFFICES ASSUME NEW x \in Analyses, NEW k \in DOMAIN ver[x], ver'[x][k].status = "approved"
             PROVE  ver[x][k].status = "approved"
  BY DEF NoneApproved, Analysis!BecomesApproved
<1> DEFINE n == analysis[a].current
           t == [ver[a] EXCEPT ![n] = Analysis!Superseded(@)]
<1>1. ver' = [ver EXCEPT ![a] = Append(t, v)] /\ ver[a] \in Seq(AnalysisVersionRow)
        /\ n \in DOMAIN ver[a]
  BY CurrentIsLast DEF Analysis!Follow, AnalysisInv, AnalysisTyped
<1>2. CASE x # a
  BY <1>1, <1>2 DEF AnalysisInv, AnalysisTyped
<1>3. CASE x = a
  <2>1. ver'[x] = Append(t, v)
    BY <1>1, <1>3 DEF AnalysisInv, AnalysisTyped
  <2>2. Analysis!Superseded(ver[a][n]).status # "approved"
    <3>1. ver[a][n] \in AnalysisVersionRow
      BY <1>1
    <3> QED
      BY <3>1 DEF Analysis!Superseded, AnalysisVersionRow
  <2>3. t = [i \in 1 .. Len(ver[a]) |-> IF i = n THEN Analysis!Superseded(ver[a][n]) ELSE ver[a][i]]
        /\ Len(ver[a]) \in Nat
    BY <1>1
  <2> DEFINE T == {ver[a][i] : i \in DOMAIN ver[a]} \cup {Analysis!Superseded(ver[a][n])}
  <2>4. t \in Seq(T) /\ Len(t) = Len(ver[a]) /\ k \in 1 .. Len(t)
    BY <1>1, <1>3, <2>3
  <2> HIDE DEF T
  <2>5. Append(t, v)[k] = t[k]
    <3>1. t \in Seq(T \cup {v})
      BY <2>4
    <3> QED
      BY <2>4, <3>1
  <2>6. t[k] = IF k = n THEN Analysis!Superseded(ver[a][n]) ELSE ver[a][k]
    BY <1>1, <1>3, <2>3
  <2> QED
    BY <1>3, <2>1, <2>2, <2>5, <2>6
<1> QED
  BY <1>2, <1>3

LEMMA FoundApprovesNone ==
  ASSUME AnalysisInv, NEW a \in Analyses, NEW v, Analysis!Found(a, v)
  PROVE  NoneApproved
<1> SUFFICES ASSUME NEW x \in Analyses, NEW k \in DOMAIN ver[x], ver'[x][k].status = "approved"
             PROVE  ver[x][k].status = "approved"
  BY DEF NoneApproved, Analysis!BecomesApproved
<1>1. ver[a] = <<>>
  BY CurrentIsLast DEF Analysis!Found
<1> QED
  BY <1>1 DEF Analysis!Found, AnalysisInv, AnalysisTyped

LEMMA SameApprovesNone ==
  ASSUME UNCHANGED ver
  PROVE  NoneApproved
BY DEF NoneApproved, Analysis!BecomesApproved

\* What is decided was on the page of who decided it.
LEMMA StepDecides ==
  ASSUME AnalysisInv, [Analysis!Next]_(Analysis!vars)
  PROVE  ShownThen
<1>1. ASSUME NEW u \in Approvers, Analysis!Approve(u)
      PROVE  ShownThen
  <2>1. PICK a \in Analyses : a = page[u].id
    BY <1>1, FreshShows DEF Analysis!Approve
  <2>2. page[u].content = Analysis!Current(a) /\ page[u].kind = "analysis"
    BY <1>1, <2>1, FreshShows DEF Analysis!Approve, Analysis!Fresh
  <2>3. page'[u] = Analysis!NoPage
    BY <1>1 DEF Analysis!Approve, Analysis!Done, AnalysisInv, AnalysisTyped
  <2>4. ASSUME NEW x \in Analyses, Analysis!BecomesApproved(x)
        PROVE  x = a
    <3>1. PICK k \in DOMAIN ver[x] : ver[x][k].status # "approved"
            /\ ver'[x][k].status = "approved"
      BY <2>4 DEF Analysis!BecomesApproved
    <3>2. ver[x][k] \in AnalysisVersionRow
      BY DEF AnalysisInv, AnalysisTyped
    <3>3. x # a => \/ ver'[x][k] = ver[x][k]
                   \/ ver'[x][k] = Analysis!Superseded(ver[x][k])
      BY <1>1, <2>1 DEF Analysis!Approve, Analysis!Approved
    <3> QED
      BY <3>1, <3>2, <3>3 DEF Analysis!Superseded, AnalysisVersionRow
  <2>5. promoted' = promoted
    BY <1>1 DEF Analysis!Approve
  <2> QED
    BY <2>1, <2>2, <2>3, <2>4, <2>5 DEF ShownThen
<1>2. ASSUME NoneApproved, promoted' = promoted
      PROVE  ShownThen
  BY <1>2 DEF ShownThen, NoneApproved
<1>3. ASSUME NEW u \in Approvers, Analysis!Promote(u)
      PROVE  ShownThen
  <2>1. PICK r \in Reviewed : r = page[u].run
    BY <1>3, PreviewShows DEF Analysis!Promote
  <2>2. /\ page[u].kind = "preview" /\ page[u].reviews = review[r]
        /\ promoted' = promoted \cup {<<r, review[r]>>}
    BY <1>3, <2>1 DEF Analysis!Promote, Analysis!Preview
  <2>3. page'[u] = Analysis!NoPage
    BY <1>3 DEF Analysis!Promote, Analysis!Done, AnalysisInv, AnalysisTyped
  <2>4. NoneApproved
    BY <1>3, FollowApprovesNone, FoundApprovesNone DEF Analysis!Promote, Analysis!FollowFromRun,
       Analysis!Targets
  <2> QED
    BY <2>1, <2>2, <2>3, <2>4 DEF ShownThen, NoneApproved
<1>4. ASSUME NEW u \in Approvers, Analysis!CreateVersion(u)
      PROVE  ShownThen
  <2>1. page[u].id \in Analyses /\ Analysis!Exists(page[u].id)
    BY <1>4, FreshShows DEF Analysis!CreateVersion
  <2>2. NoneApproved
    BY <1>4, <2>1, FollowApprovesNone DEF Analysis!CreateVersion
  <2> QED
    BY <1>2, <1>4, <2>2 DEF Analysis!CreateVersion
<1>5. ASSUME NEW a \in Analyses, Analysis!Create(a)
      PROVE  ShownThen
  <2>1. NoneApproved
    BY <1>5, FoundApprovesNone DEF Analysis!Create
  <2> QED
    BY <1>2, <1>5, <2>1 DEF Analysis!Create
<1>6. ASSUME NEW u \in Approvers, Analysis!Reject(u)
      PROVE  ShownThen
  <2>1. PICK a \in Analyses : a = page[u].id /\ Analysis!Exists(a)
    BY <1>6, FreshShows DEF Analysis!Reject
  <2> DEFINE k == analysis[a].current
  <2>2. k \in DOMAIN ver[a] /\ ver[a][k] \in AnalysisVersionRow
    BY <2>1, CurrentIsLast DEF Analysis!Current
  <2>3. ver' = [ver EXCEPT ![a][k] = [ver[a][k] EXCEPT !.status = "rejected"]]
    BY <1>6, <2>1 DEF Analysis!Reject, AnalysisInv, AnalysisTyped
  <2>4. [ver[a][k] EXCEPT !.status = "rejected"].status = "rejected"
    BY <2>2 DEF AnalysisVersionRow
  <2>5. NoneApproved
    BY <2>2, <2>3, <2>4 DEF NoneApproved, Analysis!BecomesApproved, AnalysisInv, AnalysisTyped
  <2> QED
    BY <1>2, <1>6, <2>5 DEF Analysis!Reject
<1>7. ASSUME NEW t \in resolving, Analysis!FinishResolving(t)
      PROVE  ShownThen
  <2>1. t.id \in Analyses /\ t.number \in DOMAIN ver[t.id]
          /\ ver[t.id] \in Seq(AnalysisVersionRow)
    BY DEF AnalysisInv, AnalysisTyped
  <2>2. \/ Analysis!Resolved(ver[t.id][t.number], t).status = ver[t.id][t.number].status
        \/ Analysis!Resolved(ver[t.id][t.number], t).status # "approved"
    BY <2>1, ResolvedVersion
  <2>3. ver' = [ver EXCEPT ![t.id][t.number] = Analysis!Resolved(ver[t.id][t.number], t)]
    BY <1>7 DEF Analysis!FinishResolving
  <2>4. NoneApproved
    BY <2>1, <2>2, <2>3 DEF NoneApproved, Analysis!BecomesApproved, AnalysisInv, AnalysisTyped
  <2> QED
    BY <1>2, <1>7, <2>4 DEF Analysis!FinishResolving
<1>8. ASSUME UNCHANGED <<ver, promoted>>
      PROVE  ShownThen
  BY <1>2, <1>8, SameApprovesNone
<1>9. ASSUME NEW u \in Approvers, Analysis!Look(u) \/ \E c \in Candidates : Analysis!Review(u, c)
      PROVE  UNCHANGED <<ver, promoted>>
  BY <1>9 DEF Analysis!Look, Analysis!Review
<1>10. ASSUME NEW a \in Analyses, NEW k \in DOMAIN ver[a], NEW c \in Analysis!Open(ver[a][k]),
              Analysis!StartResolving(a, k, c)
       PROVE  UNCHANGED <<ver, promoted>>
  BY <1>10 DEF Analysis!StartResolving
<1> QED
  BY <1>1, <1>3, <1>4, <1>5, <1>6, <1>7, <1>8, <1>9, <1>10 DEF Analysis!Next, Analysis!vars

-----------------------------------------------------------------------------
(***************************************************************************)
(* E-mails: what is on the screen of its author is, version by version,    *)
(* what the rows say, so that a version that still is the last one is what *)
(* was seen.                                                               *)
(***************************************************************************)

\* What the office does, its part does, or nothing.
LEMMA MailRuns == OfficeSpec => Mail!Spec
<1>1. OfficeInit => Mail!Init
  BY DEF OfficeInit
<1>2. [OfficeNext]_officeVars => [Mail!Next]_(Mail!vars)
  BY DEF OfficeNext, officeVars, Only, mailRows, Mail!vars, TextStep, AnalysisStep, AiStep,
     AccountsStep, FeesStep, MailStep, LossStep, RegistryStep, PhotosStep, TramerStep,
     TrackingStep
<1> QED
  BY <1>1, <1>2, PTL DEF OfficeSpec, Mail!Spec

DraftRow ==
  [source : {"ai_assisted", "deterministic_template", "manual_revision"},
   preview : Mail!Previews, attachments : SUBSET Attachments]

Screen ==
  {Mail!NoPage}
  \cup [kind : {"preview"}, shows : Mail!Previews]
  \cup [kind : {"draft"}, id : Drafts, version : Nat, shows : DraftRow]

MailTyped ==
  /\ mailed \in [open : BOOLEAN, version : 1 .. MaxEdits + 1]
  /\ ready \in SUBSET Attachments
  /\ suggestions \in SUBSET Mail!Previews
  /\ draft \in [Drafts -> Seq(DraftRow)]
  /\ handoffs \in [Drafts -> Seq(Nat)]
  /\ screen \in [Users -> Screen]

\* The first version of a draft, and only it, is not a revision.
FirstIsMade(d) == \A n \in DOMAIN draft[d] : n = 1 <=> draft[d][n].source # "manual_revision"

\* A page shows a version of the draft as it is.
ShowsVersion(u) ==
  screen[u].kind = "draft" =>
    /\ screen[u].version \in DOMAIN draft[screen[u].id]
    /\ screen[u].shows = draft[screen[u].id][screen[u].version]

MailInv ==
  /\ MailTyped
  /\ \A d \in Drafts : FirstIsMade(d)
  /\ \A u \in Users : ShowsVersion(u)

LEMMA MailBegins == Mail!Init => MailInv
<1> SUFFICES ASSUME Mail!Init PROVE MailInv
  OBVIOUS
<1>1. 1 \in 1 .. MaxEdits + 1
  BY EmailDraftsAssumption
<1>2. MailTyped
  BY <1>1 DEF Mail!Init, MailTyped, Screen
<1>3. \A d \in Drafts : draft[d] = <<>>
  BY DEF Mail!Init
<1>4. \A u \in Users : screen[u].kind = "none"
  BY DEF Mail!Init, Mail!NoPage
<1> QED
  BY <1>2, <1>3, <1>4 DEF MailInv, FirstIsMade, ShowsVersion

LEMMA PreviewTyped ==
  ASSUME MailTyped
  PROVE  Mail!Preview \in Mail!Previews
BY DEF MailTyped, Mail!Preview, Mail!Previews

\* The rows of a draft, and the last of them.
LEMMA MailRows ==
  ASSUME MailInv, NEW d \in Drafts
  PROVE  /\ Len(draft[d]) \in Nat /\ DOMAIN draft[d] = 1 .. Len(draft[d])
         /\ \A n \in DOMAIN draft[d] : draft[d][n] \in DraftRow
         /\ draft[d] # <<>> => Len(draft[d]) \in DOMAIN draft[d] /\ Mail!Latest(d) \in DraftRow
<1>1. draft[d] \in Seq(DraftRow)
  BY DEF MailInv, MailTyped
<1> QED
  BY <1>1 DEF Mail!Latest

\* A step that leaves the drafts, and gives one user another page.
LEMMA PageKeeps ==
  ASSUME MailInv, NEW u \in Users, NEW p \in Screen,
         screen' = [screen EXCEPT ![u] = p], UNCHANGED draft,
         p.kind = "draft" => p.version \in DOMAIN draft[p.id] /\ p.shows = draft[p.id][p.version],
         mailed' \in [open : BOOLEAN, version : 1 .. MaxEdits + 1], ready' \in SUBSET Attachments,
         suggestions' \in SUBSET Mail!Previews, handoffs' \in [Drafts -> Seq(Nat)]
  PROVE  MailInv'
<1>1. MailTyped'
  BY DEF MailInv, MailTyped
<1>2. \A d \in Drafts : FirstIsMade(d)'
  BY DEF MailInv, FirstIsMade
<1>3. ASSUME NEW v \in Users PROVE ShowsVersion(v)'
  <2>1. screen'[v] = IF v = u THEN p ELSE screen[v]
    BY DEF MailInv, MailTyped
  <2> QED
    BY <2>1 DEF MailInv, ShowsVersion
<1> QED
  BY <1>1, <1>2, <1>3 DEF MailInv

\* A step that gives a draft one more version and its author an empty page.
LEMMA VersionKeeps ==
  ASSUME MailInv, NEW d \in Drafts, NEW entered \in DraftRow, NEW u \in Users,
         entered.source # "manual_revision" <=> draft[d] = <<>>,
         draft' = [draft EXCEPT ![d] = Append(draft[d], entered)],
         screen' = [screen EXCEPT ![u] = Mail!NoPage],
           UNCHANGED <<mailed, ready, suggestions, handoffs>>
  PROVE  MailInv' /\ draft'[d][Len(draft'[d])] = entered
<1> DEFINE more == Append(draft[d], entered)
<1>1. draft[d] \in Seq(DraftRow)
  BY DEF MailInv, MailTyped
<1>2. /\ more \in Seq(DraftRow) /\ Len(more) = Len(draft[d]) + 1 /\ more[Len(more)] = entered
      /\ \A n \in DOMAIN draft[d] : n \in DOMAIN more /\ more[n] = draft[d][n]
      /\ \A n \in DOMAIN more : n \in DOMAIN draft[d] \/ n = Len(more)
      /\ Len(more) = 1 <=> draft[d] = <<>>
      /\ Len(draft[d]) \in Nat
  BY <1>1
<1> HIDE DEF more
<1>3. /\ draft'[d] = more
      /\ \A e \in Drafts : e # d => draft'[e] = draft[e]
  BY DEF MailInv, MailTyped, more
<1>4. MailTyped'
  <2>1. draft' \in [Drafts -> Seq(DraftRow)]
    BY <1>2 DEF MailInv, MailTyped, more
  <2>2. screen' \in [Users -> Screen]
    BY DEF MailInv, MailTyped, Screen
  <2> QED
    BY <2>1, <2>2 DEF MailInv, MailTyped
<1>5. ASSUME NEW e \in Drafts PROVE FirstIsMade(e)'
  <2>1. CASE e # d
    BY <1>3, <2>1 DEF MailInv, FirstIsMade
  <2>2. CASE e = d
    <3>1. ASSUME NEW n \in DOMAIN more PROVE n = 1 <=> more[n].source # "manual_revision"
      <4>1. CASE n \in DOMAIN draft[d]
        BY <1>2, <4>1 DEF MailInv, FirstIsMade
      <4>2. CASE n = Len(more)
        BY <1>2, <4>2
      <4> QED
        BY <1>2, <4>1, <4>2
    <3> QED
      BY <1>3, <2>2, <3>1 DEF FirstIsMade
  <2> QED
    BY <2>1, <2>2
<1>6. ASSUME NEW v \in Users PROVE ShowsVersion(v)'
  <2>1. CASE v = u
    <3>1. screen'[v] = Mail!NoPage
      BY <2>1 DEF MailInv, MailTyped
    <3> QED
      BY <3>1 DEF ShowsVersion, Mail!NoPage
  <2>2. CASE v # u
    <3>1. screen'[v] = screen[v] /\ screen[v] \in Screen
      BY <2>2 DEF MailInv, MailTyped
    <3>2. screen[v].kind = "draft" => screen[v].id \in Drafts
      BY <3>1 DEF Screen, Mail!NoPage
    <3> QED
      BY <1>2, <1>3, <3>1, <3>2 DEF MailInv, ShowsVersion
  <2> QED
    BY <2>1, <2>2
<1> QED
  BY <1>2, <1>3, <1>4, <1>5, <1>6 DEF MailInv

LEMMA MailLookKeeps ==
  ASSUME MailInv, NEW u \in Users, Mail!Look(u)
  PROVE  MailInv'
<1>1. Mail!Preview \in Mail!Previews
  BY PreviewTyped DEF MailInv
<1>2. CASE screen' = [screen EXCEPT ![u] = [kind |-> "preview", shows |-> Mail!Preview]]
  <2> DEFINE p == [kind |-> "preview", shows |-> Mail!Preview]
  <2>1. p \in Screen /\ p.kind # "draft"
    BY <1>1 DEF Screen
  <2>2. screen' = [screen EXCEPT ![u] = p]
    BY <1>2
  <2> HIDE DEF p
  <2> QED
    BY <2>1, <2>2, PageKeeps DEF Mail!Look, MailInv, MailTyped
<1>3. ASSUME NEW d \in Drafts, draft[d] # <<>>,
             screen' = [screen EXCEPT ![u] = [kind |-> "draft", id |-> d,
                                              version |-> Len(draft[d]),
                                                shows |-> Mail!Latest(d)]]
      PROVE  MailInv'
  <2> DEFINE p == [kind |-> "draft", id |-> d, version |-> Len(draft[d]), shows |-> Mail!Latest(d)]
  <2>1. p \in Screen /\ p.version \in DOMAIN draft[p.id] /\ p.shows = draft[p.id][p.version]
    BY <1>3, MailRows DEF Screen, Mail!Latest
  <2>2. screen' = [screen EXCEPT ![u] = p]
    BY <1>3
  <2> HIDE DEF p
  <2> QED
    BY <2>1, <2>2, PageKeeps DEF Mail!Look, MailInv, MailTyped
<1> QED
  BY <1>2, <1>3 DEF Mail!Look

\* What one draft is made of, and what another is not touched by.
LEMMA MailCreateKeeps ==
  ASSUME MailInv, NEW u \in Users, Mail!CreateDraft(u)
  PROVE  /\ MailInv'
         /\ \A d \in Drafts : draft'[d] # draft[d] =>
              LET v == draft'[d][Len(draft'[d])] IN
              /\ v.attachments \subseteq ready
              /\ v.source # "manual_revision" => v.preview = Mail!Preview
              /\ v.source = "ai_assisted" => v.preview \in suggestions
<1>1. PICK d \in Drafts, chosen \in SUBSET ready, ai \in BOOLEAN :
        /\ draft[d] = <<>>
        /\ ai => Mail!Suggested(screen[u].shows)
        /\ draft' = [draft EXCEPT ![d] =
             <<[source |-> IF ai THEN "ai_assisted" ELSE "deterministic_template",
                preview |-> screen[u].shows, attachments |-> chosen]>>]
  BY DEF Mail!CreateDraft
<1> DEFINE entered == [source |-> IF ai THEN "ai_assisted" ELSE "deterministic_template",
                   preview |-> screen[u].shows, attachments |-> chosen]
<1>2. screen[u].shows = Mail!Preview /\ Mail!Preview \in Mail!Previews
  BY PreviewTyped DEF MailInv, Mail!CreateDraft, Mail!PreviewHolds
<1>3. /\ entered \in DraftRow /\ entered.source # "manual_revision"
        /\ entered.preview = Mail!Preview
      /\ entered.attachments \subseteq ready
         /\ (entered.source = "ai_assisted" => Mail!Preview \in suggestions)
  BY <1>1, <1>2 DEF DraftRow, Mail!Suggested, MailInv, MailTyped
<1>4. draft' = [draft EXCEPT ![d] = <<entered>>]
  BY <1>1
<1> HIDE DEF entered
<1>5. draft' = [draft EXCEPT ![d] = Append(draft[d], entered)]
  <2>1. Append(<<>>, entered) = <<entered>>
    OBVIOUS
  <2> QED
    BY <1>1, <1>4, <2>1
<1>6. MailInv' /\ draft'[d][Len(draft'[d])] = entered
  BY <1>1, <1>3, <1>5, VersionKeeps DEF Mail!CreateDraft
<1>7. \A e \in Drafts : e # d => draft'[e] = draft[e]
  BY <1>4 DEF MailInv, MailTyped
<1> QED
  BY <1>3, <1>6, <1>7

LEMMA ReviseKeeps ==
  ASSUME MailInv, NEW u \in Users, Mail!ReviseDraft(u)
  PROVE  /\ MailInv'
         /\ \A d \in Drafts : draft'[d] # draft[d] =>
              LET v == draft'[d][Len(draft'[d])] IN
              v.attachments \subseteq ready /\ v.source = "manual_revision"
<1>1. screen[u] \in Screen /\ screen[u].kind = "draft"
        /\ screen[u].version = Len(draft[screen[u].id])
  BY DEF MailInv, MailTyped, Mail!ReviseDraft, Mail!DraftHolds
<1>2. PICK d \in Drafts : d = screen[u].id
  BY <1>1 DEF Screen, Mail!NoPage
<1>3. PICK chosen \in SUBSET ready :
        draft' = [draft EXCEPT ![d] = Append(@,
                   [source |-> "manual_revision", preview |-> Mail!Latest(d).preview,
                    attachments |-> chosen])]
  BY <1>2 DEF Mail!ReviseDraft
<1> DEFINE entered == [source |-> "manual_revision", preview |-> Mail!Latest(d).preview,
                   attachments |-> chosen]
<1>4. draft[d] # <<>>
  BY <1>1, <1>2, MailRows DEF MailInv, ShowsVersion
<1>5. /\ entered \in DraftRow /\ entered.source = "manual_revision"
        /\ entered.attachments \subseteq ready
  BY <1>4, MailRows DEF DraftRow, MailInv, MailTyped
<1>6. draft' = [draft EXCEPT ![d] = Append(draft[d], entered)]
  BY <1>3
<1> HIDE DEF entered
<1>7. MailInv' /\ draft'[d][Len(draft'[d])] = entered
  BY <1>4, <1>5, <1>6, VersionKeeps DEF Mail!ReviseDraft
<1>8. \A e \in Drafts : e # d => draft'[e] = draft[e]
  BY <1>6 DEF MailInv, MailTyped
<1> QED
  BY <1>5, <1>7, <1>8

\* What is handed over is on the screen of the user who hands it over.
LEMMA HandoffKeeps ==
  ASSUME MailInv, NEW u \in Users, Mail!PrepareHandoff(u)
  PROVE  /\ MailInv' /\ UNCHANGED draft
         /\ \A d \in Drafts : handoffs'[d] # handoffs[d] =>
              /\ screen[u].kind = "draft" /\ screen'[u] = Mail!NoPage
              /\ screen[u].id = d /\ screen[u].shows = Mail!Latest(d)
<1>1. screen[u] \in Screen /\ screen[u].kind = "draft"
        /\ screen[u].version = Len(draft[screen[u].id])
  BY DEF MailInv, MailTyped, Mail!PrepareHandoff, Mail!DraftHolds
<1>2. PICK d \in Drafts : d = screen[u].id
  BY <1>1 DEF Screen, Mail!NoPage
<1>3. screen[u].shows = Mail!Latest(d)
  BY <1>1, <1>2 DEF MailInv, ShowsVersion, Mail!Latest
<1>4. handoffs' = [handoffs EXCEPT ![d] = Append(@, Len(draft[d]))]
  BY <1>2 DEF Mail!PrepareHandoff
<1>5. Append(handoffs[d], Len(draft[d])) \in Seq(Nat)
  BY MailRows DEF MailInv, MailTyped
<1>6. handoffs' \in [Drafts -> Seq(Nat)] /\ \A e \in Drafts : e # d => handoffs'[e] = handoffs[e]
  BY <1>4, <1>5 DEF MailInv, MailTyped
<1>7. Mail!NoPage \in Screen /\ Mail!NoPage.kind # "draft"
  BY DEF Screen, Mail!NoPage
<1>8. screen' = [screen EXCEPT ![u] = Mail!NoPage]
        /\ UNCHANGED <<mailed, ready, suggestions, draft>>
  BY DEF Mail!PrepareHandoff
<1>9. MailInv'
  BY <1>6, <1>7, <1>8, PageKeeps DEF MailInv, MailTyped
<1> QED
  BY <1>1, <1>2, <1>3, <1>6, <1>8, <1>9 DEF MailInv, MailTyped

\* What happens to the case and its attachments, and to the pages of people.
LEMMA MeanwhileKeeps ==
  ASSUME MailInv,
         \/ \E u \in Users : Mail!Leave(u) \/ Mail!Suggest(u)
         \/ Mail!CaseChanges \/ \E x \in Attachments : Mail!AttachmentChanges(x)
         \/ UNCHANGED Mail!vars
  PROVE  MailInv' /\ UNCHANGED <<draft, handoffs>>
<1>1. ASSUME NEW u \in Users, Mail!Leave(u) PROVE MailInv'
  <2>1. Mail!NoPage \in Screen /\ Mail!NoPage.kind # "draft"
    BY DEF Screen, Mail!NoPage
  <2> QED
    BY <1>1, <2>1, PageKeeps DEF Mail!Leave, MailInv, MailTyped
<1>2. ASSUME UNCHANGED <<draft, handoffs, screen>>,
             mailed' \in [open : BOOLEAN, version : 1 .. MaxEdits + 1],
             ready' \in SUBSET Attachments, suggestions' \in SUBSET Mail!Previews
      PROVE  MailInv'
  BY <1>2 DEF MailInv, MailTyped, FirstIsMade, ShowsVersion
<1>3. ASSUME NEW u \in Users, Mail!Suggest(u) PROVE MailInv'
  <2>1. screen[u] \in Screen /\ screen[u].kind = "preview"
    BY <1>3 DEF Mail!Suggest, MailInv, MailTyped
  <2>2. screen[u].shows \in Mail!Previews
    BY <2>1 DEF Screen, Mail!NoPage
  <2> QED
    BY <1>2, <1>3, <2>2 DEF Mail!Suggest, MailInv, MailTyped
<1>4. ASSUME Mail!CaseChanges PROVE MailInv'
  <2>1. mailed' \in [open : BOOLEAN, version : 1 .. MaxEdits + 1]
    BY <1>4, EmailDraftsAssumption DEF Mail!CaseChanges, MailInv, MailTyped
  <2> QED
    BY <1>2, <1>4, <2>1 DEF Mail!CaseChanges, MailInv, MailTyped
<1>5. ASSUME NEW x \in Attachments, Mail!AttachmentChanges(x) PROVE MailInv'
  <2>1. ready' \in SUBSET Attachments
    BY <1>5 DEF Mail!AttachmentChanges, MailInv, MailTyped
  <2> QED
    BY <1>2, <1>5, <2>1 DEF Mail!AttachmentChanges, MailInv, MailTyped
<1>6. ASSUME UNCHANGED Mail!vars PROVE MailInv'
  BY <1>2, <1>6 DEF Mail!vars, MailInv, MailTyped
<1> QED
  BY <1>1, <1>3, <1>4, <1>5, <1>6 DEF Mail!Leave, Mail!Suggest, Mail!CaseChanges,
     Mail!AttachmentChanges, Mail!vars

LEMMA MailKeeps ==
  ASSUME MailInv, [Mail!Next]_(Mail!vars)
  PROVE  MailInv'
BY MailLookKeeps, MailCreateKeeps, ReviseKeeps, HandoffKeeps, MeanwhileKeeps DEF Mail!Next

LEMMA MailHolds == Mail!Spec => []MailInv
BY MailBegins, MailKeeps, PTL DEF Mail!Spec

LEMMA MailInvTypes == MailInv => Mail!TypeOK
<1> SUFFICES ASSUME MailInv PROVE Mail!TypeOK
  OBVIOUS
<1>1. \A d \in Drafts : \A n \in DOMAIN draft[d] : draft[d][n].preview \in Mail!Previews
  BY MailRows DEF DraftRow
<1> QED
  BY <1>1 DEF MailInv, MailTyped, FirstIsMade, Mail!TypeOK

StepSends ==
  \A d \in Drafts :
    /\ draft'[d] # draft[d] =>
         LET v == draft'[d][Len(draft'[d])] IN
         /\ v.attachments \subseteq ready
         /\ v.source # "manual_revision" => v.preview = Mail!Preview
         /\ v.source = "ai_assisted" => v.preview \in suggestions
    /\ handoffs'[d] # handoffs[d] =>
         \E u \in Users : /\ screen[u].kind = "draft" /\ screen'[u] = Mail!NoPage
                          /\ screen[u].id = d /\ screen[u].shows = Mail!Latest(d)

LEMMA StepSendsAsSeen ==
  ASSUME MailInv, [Mail!Next]_(Mail!vars)
  PROVE  StepSends
<1>1. ASSUME NEW u \in Users, Mail!Look(u) PROVE StepSends
  BY <1>1 DEF Mail!Look, StepSends
<1>2. ASSUME NEW u \in Users, Mail!CreateDraft(u) PROVE StepSends
  <2>1. UNCHANGED handoffs
    BY <1>2 DEF Mail!CreateDraft
  <2> QED
    BY <1>2, <2>1, MailCreateKeeps DEF StepSends
<1>3. ASSUME NEW u \in Users, Mail!ReviseDraft(u) PROVE StepSends
  <2>1. UNCHANGED handoffs
    BY <1>3 DEF Mail!ReviseDraft
  <2> QED
    BY <1>3, <2>1, ReviseKeeps DEF StepSends
<1>4. ASSUME NEW u \in Users, Mail!PrepareHandoff(u) PROVE StepSends
  BY <1>4, HandoffKeeps DEF StepSends
<1>5. ASSUME UNCHANGED <<draft, handoffs>> PROVE StepSends
  BY <1>5 DEF StepSends
<1> QED
  BY <1>1, <1>2, <1>3, <1>4, <1>5, MeanwhileKeeps DEF Mail!Next

-----------------------------------------------------------------------------
(* Theorems                                                                *)

\* A session is of an active account and was opened with the password or the linked
\* Google account it still has: every change of either closes the sessions it opened
\* (auth/service.ts login, google-routes.ts complete, users/store.ts).
THEOREM SessionsEarned == OfficeSpec => []SessionsAreEarned
<1>1. PeopleInv => SessionsAreEarned
  BY DEF PeopleInv, SessionsAreEarned
<1> QED
  BY <1>1, PeopleRuns, PeopleHolds, PTL

\* A lock ends with its time: attempts that were under way when it began neither
\* enter nor move it (auth/store.ts recordFailedLogin, lockUserForLogin).
THEOREM LocksRunTheirTime == OfficeSpec => LockRunsItsTime
<1>1. PeopleInv /\ [People!Next]_(People!vars) => [LockKept]_(People!vars)
  BY StepKeepsLock
<1> QED
  BY <1>1, PeopleRuns, PeopleHolds, PTL DEF LockRunsItsTime, People!LockRunsItsTime,
    People!Spec, LockKept

\* A document has at most one policy in force, the current version of its analysis,
\* with no conflict left open (approve of policy-analysis/store.ts, promote of
\* policy-ai/review-store.ts).
THEOREM PolicyInForce == OfficeSpec => []ActivePolicyIsCurrent
<1>1. AnalysisInv => ActivePolicyIsCurrent
  BY InvActive DEF ActivePolicyIsCurrent
<1> QED
  BY <1>1, AnalysisRuns, AnalysisHolds, PTL
=============================================================================
