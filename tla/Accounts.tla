------------------------------- MODULE Accounts -------------------------------
(***************************************************************************)
(* Who is logged in: password logins with their lockout                    *)
(* (services/api/src/auth/service.ts, auth/store.ts), Google logins        *)
(* (tracking/google-routes.ts), what administrators do to an account       *)
(* (users/store.ts) and the trigger that ends its sessions                 *)
(* (migration 0063_persistent_sessions).                                   *)
(*                                                                         *)
(* A password is verified, and Google is asked, outside of transactions:   *)
(* the account may change meanwhile.  Everything a transaction does under  *)
(* the lock of the user's row is one step.  A lock is a state that ends by *)
(* itself.  Roles are told apart only as none and some.                    *)
(***************************************************************************)
EXTENDS Naturals, FiniteSets

CONSTANTS
  Users,         \* e-mail addresses
  Subjects,      \* Google identities
  Logins,        \* requests to log in with a password
  Flows,         \* Google flows, rows of google_oauth_states
  MaxFailed,     \* MAX_FAILED_LOGINS (5 in the code)
  MaxPasswords   \* bound on the passwords an account has had

VARIABLES
  user,      \* [Users -> row of `users']; password 0: none
  linked,    \* google_identities: [Subjects -> an account or NoUser]
  sessions,  \* the rows of `sessions' that are not revoked
  login,     \* [Logins -> where the request is]
  flow       \* [Flows -> row of google_oauth_states]

vars == <<user, linked, sessions, login, flow>>

NoUser == "nobody"
AnotherUser == "another"   \* an account that is not among Users
Idle == [step |-> "idle"]
Locks == {"none", "active", "expired"}

Account(status, password) ==
  [status |-> status, password |-> password, fails |-> 0, lock |-> "none"]

\* Some accounts exist already, others only after their first Google login.
\* A subject may be linked to an account under its former address.
Init ==
  /\ user \in [Users -> {Account("absent", 0), Account("active", 1)}]
  /\ linked \in [Subjects -> {NoUser, AnotherUser}]
  /\ sessions = {}
  /\ login = [q \in Logins |-> Idle]
  /\ flow = [f \in Flows |-> Idle]

-----------------------------------------------------------------------------
(* Logging in with a password                                              *)

\* login, up to the verification: an account that is locked or not active, or
\* has no password, is refused at once.  The guess is right for the password
\* that was read, or wrong.
StartLogin(q, u) ==
  /\ login[q] = Idle
  /\ user[u].status = "active" /\ user[u].lock # "active" /\ user[u].password # 0
  /\ \E right \in BOOLEAN :
       login' = [login EXCEPT ![q] = [step |-> "verified", user |-> u, right |-> right,
                                      password |-> user[u].password]]
  /\ UNCHANGED <<user, linked, sessions, flow>>

\* recordFailedLogin
Failed(account) ==
  CASE account.lock = "active" -> account
    [] account.lock = "expired" -> [account EXCEPT !.fails = 1, !.lock = "none"]
    [] account.lock = "none" /\ account.fails + 1 >= MaxFailed ->
         [account EXCEPT !.fails = @ + 1, !.lock = "active"]
    [] OTHER -> [account EXCEPT !.fails = @ + 1]

WrongPassword(q) ==
  /\ login[q].step = "verified" /\ ~login[q].right
  /\ user' = [user EXCEPT ![login[q].user] = Failed(@)]
  /\ login' = [login EXCEPT ![q] = Idle]
  /\ UNCHANGED <<linked, sessions, flow>>

\* Mutants of StillValid: the account is not read again; or its lock is not.
NotReadAgain(q) == TRUE
LockNotReadAgain(q) ==
  LET now == user[login[q].user] IN
  now.status = "active" /\ now.password = login[q].password

\* The account read again under its row lock.
StillValid(q) ==
  LET now == user[login[q].user] IN
  now.status = "active" /\ now.password = login[q].password /\ now.lock # "active"

\* The rest of login: counter, lock and session in one transaction.
RightPassword(q) ==
  /\ login[q].step = "verified" /\ login[q].right
  /\ IF StillValid(q)
     THEN /\ user' = [user EXCEPT ![login[q].user].fails = 0,
                                  ![login[q].user].lock = "none"]
          /\ sessions' = sessions \cup
               {[user |-> login[q].user, by |-> "password", with |-> login[q].password]}
     ELSE UNCHANGED <<user, sessions>>
  /\ login' = [login EXCEPT ![q] = Idle]
  /\ UNCHANGED <<linked, flow>>

LockExpires(u) ==
  /\ user[u].lock = "active"
  /\ user' = [user EXCEPT ![u].lock = "expired"]
  /\ UNCHANGED <<linked, sessions, login, flow>>

\* revokeSession
Logout(s) ==
  /\ s \in sessions
  /\ sessions' = sessions \ {s}
  /\ UNCHANGED <<user, linked, login, flow>>

-----------------------------------------------------------------------------
(* Logging in with Google                                                  *)

StartFlow(f) ==
  /\ flow[f] = Idle
  /\ flow' = [flow EXCEPT ![f] = [step |-> "started"]]
  /\ UNCHANGED <<user, linked, sessions, login>>

\* The callback claims the flow, once, and asks Google who this is: somebody
\* with a subject and, as Google has it now, an address.
ClaimFlow(f) ==
  /\ flow[f].step = "started"
  /\ flow' = [flow EXCEPT ![f] = [step |-> "claimed"]]
  /\ UNCHANGED <<user, linked, sessions, login>>

FlowFails(f) ==
  /\ flow[f].step = "claimed"
  /\ flow' = [flow EXCEPT ![f] = [step |-> "failed"]]
  /\ UNCHANGED <<user, linked, sessions, login>>

\* The transaction of the callback: an address nobody has is registered and
\* waits for approval; a subject belongs to one account.
CompleteFlow(f, s, u) ==
  /\ flow[f].step = "claimed"
  /\ user[u].status # "disabled" /\ linked[s] \in {NoUser, u}
  /\ user' = IF user[u].status = "absent"
             THEN [user EXCEPT ![u] = Account("pending", 0)] ELSE user
  /\ linked' = [linked EXCEPT ![s] = u]
  /\ flow' = [flow EXCEPT ![f] = [step |-> "completed", user |-> u, subject |-> s]]
  /\ UNCHANGED <<sessions, login>>

\* Mutant of MayEnter: the account was looked at in the callback.
LookedAtBefore(u) == TRUE

MayEnter(u) == user[u].status = "active"

\* POST google/complete, with the flow and the user's row locked; an account
\* that was disabled is refused and keeps its flow.
EnterByFlow(f) ==
  /\ flow[f].step = "completed"
  /\ LET u == flow[f].user IN
       \/ /\ MayEnter(u)
          /\ sessions' = sessions \cup
               {[user |-> u, by |-> "google", with |-> flow[f].subject]}
       \/ user[u].status = "pending" /\ UNCHANGED sessions
  /\ flow' = [flow EXCEPT ![f] = Idle]
  /\ UNCHANGED <<user, linked, login>>

\* After ten minutes a flow is of no use.
FlowExpires(f) ==
  /\ flow[f] # Idle
  /\ flow' = [flow EXCEPT ![f] = Idle]
  /\ UNCHANGED <<user, linked, sessions, login>>

-----------------------------------------------------------------------------
(* What administrators do                                                  *)

\* Mutant of Revoked: the sessions of the account stay.
SessionsStay(u) == sessions

\* The trigger revoke_sessions_on_account_change, when the password changes or
\* the status does and is not active any more.
Revoked(u) ==
  IF \/ user'[u].password # user[u].password
     \/ user'[u].status # user[u].status /\ user'[u].status # "active"
  THEN {s \in sessions : s.user # u} ELSE sessions

\* create
CreateUser(u) ==
  /\ user[u].status = "absent"
  /\ user' = [user EXCEPT ![u] = Account("active", 1)]
  /\ UNCHANGED <<linked, sessions, login, flow>>

\* updateRoles: an account with no role waits, one with some is active, and a
\* disabled one stays so.
UpdateRoles(u) ==
  /\ user[u].status \notin {"absent", "disabled"}
  /\ \E status \in {"active", "pending"} : user' = [user EXCEPT ![u].status = status]
  /\ sessions' = Revoked(u)
  /\ UNCHANGED <<linked, login, flow>>

\* An operator's statement on the row: no route of the API disables an account,
\* enables it again or replaces a password.
Maintain(u) ==
  /\ user[u].status # "absent"
  /\ \/ /\ user[u].password < MaxPasswords
        /\ user' = [user EXCEPT ![u].password = @ + 1]
     \/ \E status \in {"active", "disabled"} : user' = [user EXCEPT ![u].status = status]
  /\ sessions' = Revoked(u)
  /\ UNCHANGED <<linked, login, flow>>

Next ==
  \/ \E q \in Logins : \/ \E u \in Users : StartLogin(q, u)
                       \/ WrongPassword(q) \/ RightPassword(q)
  \/ \E u \in Users : LockExpires(u) \/ CreateUser(u) \/ UpdateRoles(u) \/ Maintain(u)
  \/ \E s \in sessions : Logout(s)
  \/ \E f \in Flows : \/ StartFlow(f) \/ ClaimFlow(f) \/ FlowFails(f)
                      \/ EnterByFlow(f) \/ FlowExpires(f)
                      \/ \E s \in Subjects, u \in Users : CompleteFlow(f, s, u)

Spec == Init /\ [][Next]_vars

-----------------------------------------------------------------------------
(* Correctness                                                             *)

\* The types of the rows.
TypeOK ==
  /\ \A u \in Users :
       /\ user[u].status \in {"absent", "pending", "active", "disabled"}
       /\ user[u].password \in 0 .. MaxPasswords
       /\ user[u].fails \in 0 .. MaxFailed /\ user[u].lock \in Locks
  /\ \A s \in Subjects : linked[s] \in Users \cup {NoUser, AnotherUser}

\* Whatever changed while a password was verified or Google was asked: a
\* session in use is of an account that is active, was opened with the password
\* the account still has or with a Google identity that is linked to it, and
\* changing either ends it (login, google/complete and the trigger on `users').
SessionsAreEarned ==
  \A s \in sessions :
    /\ user[s.user].status = "active"
    /\ s.by = "password" => s.with = user[s.user].password
    /\ s.by = "google" => linked[s.with] = s.user

\* A lock runs its time: attempts that were under way when it began neither
\* open a session with the password nor shorten, lengthen or recount it
\* (recordFailedLogin, lockUserForLogin).
LockRunsItsTime ==
  [][\A u \in Users : user[u].lock = "active" =>
       /\ user'[u].lock \in {"active", "expired"} /\ user'[u].fails = user[u].fails
       /\ \A s \in sessions' \ sessions : ~(s.user = u /\ s.by = "password")]_vars
=============================================================================
