------------------------------ MODULE Accounts ------------------------------
(***************************************************************************)
(* Dashboard accounts: login and logout, the admin routes that change and  *)
(* delete users, and the password reset by a mailed token                  *)
(* (src/app/api/auth, src/app/api/admin/users, auth-token-service.ts).     *)
(*                                                                         *)
(* Each call reads the account, decides, and writes by id in one or two    *)
(* more statements; only taking an admin away runs in a transaction, under *)
(* an advisory lock, and only if the account was an admin when it was read.*)
(*                                                                         *)
(* Abstractions.  Passwords are numbered, each change gives a new one, and *)
(* who logs in knows the current one.  Sessions end by deletion only (their*)
(* eight hours are left out).  Email verification tokens follow the same   *)
(* protocol as reset tokens and only set emailVerified, so they are left   *)
(* out.                                                                    *)
(***************************************************************************)
EXTENDS Naturals, FiniteSets

CONSTANTS
    Users, FirstAdmin,
    Logins,         \* login calls and the sessions they open
    AdminCalls,     \* concurrent PATCH and DELETE calls
    Tokens,         \* reset tokens, one for each forgot-password call
    Resets,         \* concurrent reset-password calls
    MaxPassword,    \* bound: changes of one account's password
    Null

AccountConstantsOK == IsFiniteSet(Users) /\ FirstAdmin \in Users /\ MaxPassword \in Nat

VARIABLES
    account,    \* User rows
    login,      \* login calls, and UserSession rows once open
    call,       \* admin calls: the target as it was read
    token,      \* OtpVerification rows of purpose password_reset
    expired,    \* tokens whose fifteen minutes have passed
    forgot,     \* how far each forgot-password call has come
    reset,      \* how far each reset-password call has come
    renewed,    \* history: passwords changed with a token
    cut,        \* history: accounts a call was cut off from before it ended their sessions
    raced       \* history: an admin was taken away by a call that had read another role

accountVars == <<account, login, call, token, expired, forgot, reset, renewed, cut, raced>>

Patches == [role : {"keep", "ADMIN", "VIEWER"}, active : {"keep", "yes", "no"}, password : BOOLEAN]
Delete == [role |-> "deleted", active |-> "keep", password |-> FALSE]
NoLogin == [pc |-> "idle"]
NoCall == [pc |-> "idle"]
NoReset == [pc |-> "idle"]

ActiveAdmins == {u \in Users : account[u].there /\ account[u].active /\ account[u].role = "ADMIN"}
HasSession(u) == \E l \in Logins : login[l].pc = "open" /\ login[l].user = u
TakesAway(change) == change.role \in {"VIEWER", "deleted"} \/ change.active = "no"

Gone == [there |-> FALSE, role |-> "VIEWER", active |-> FALSE, password |-> 0]
Changed(row, change) ==
    IF change = Delete THEN Gone
    ELSE [row EXCEPT !.role = IF change.role = "keep" THEN @ ELSE change.role,
                     !.active = IF change.active = "keep" THEN @ ELSE change.active = "yes",
                     !.password = IF change.password THEN @ + 1 ELSE @]
(* userSession.deleteMany; also what deleting a user cascades to.           *)
EndSessions(u) ==
    login' = [l \in Logins |-> IF login[l].pc = "open" /\ login[l].user = u THEN NoLogin ELSE login[l]]

UserRow == [there : BOOLEAN, role : {"ADMIN", "VIEWER"}, active : BOOLEAN, password : 0..MaxPassword]
LoginCall == [pc : {"read", "open"}, user : Users, password : 0..MaxPassword, late : BOOLEAN]
AdminCall == [pc : {"guarded", "plain", "purge"}, user : Users, change : Patches \cup {Delete}]
TokenRow == [status : {"NONE", "PENDING", "VERIFIED", "EXPIRED", "FAILED"}, user : Users \cup {Null}]
ResetCall == [pc : {"read", "spent", "changed"}, token : Tokens]

AccountTypeOK ==
    /\ account \in [Users -> UserRow]
    /\ login \in [Logins -> {NoLogin} \cup LoginCall]
    /\ call \in [AdminCalls -> {NoCall} \cup AdminCall]
    /\ token \in [Tokens -> TokenRow]
    /\ expired \subseteq Tokens
    /\ forgot \in [Tokens -> {"idle", "superseded", "created", "sent", "failed"}]
    /\ reset \in [Resets -> {NoReset} \cup ResetCall]
    /\ renewed \in [Tokens -> Nat] /\ cut \subseteq Users /\ raced \in BOOLEAN

AccountInit ==
    /\ account = [u \in Users |-> [there |-> TRUE, active |-> TRUE, password |-> 0,
                                   role |-> IF u = FirstAdmin THEN "ADMIN" ELSE "VIEWER"]]
    /\ login = [l \in Logins |-> NoLogin]
    /\ call = [a \in AdminCalls |-> NoCall]
    /\ token = [t \in Tokens |-> [status |-> "NONE", user |-> Null]]
    /\ expired = {}
    /\ forgot = [t \in Tokens |-> "idle"]
    /\ reset = [p \in Resets |-> NoReset]
    /\ renewed = [t \in Tokens |-> 0]
    /\ cut = {} /\ raced = FALSE

-----------------------------------------------------------------------------
(* Login: the password is compared with the row as read; the session is a   *)
(* second statement, which the foreign key refuses if the user is gone.     *)
ReadUser(l, u) ==
    /\ login[l].pc = "idle"
    /\ account[u].there /\ account[u].active
    /\ login' = [login EXCEPT ![l] = [pc |-> "read", user |-> u, late |-> FALSE,
                                      password |-> account[u].password]]
    /\ UNCHANGED <<account, call, token, expired, forgot, reset, renewed, cut, raced>>

OpenSession(l) ==
    /\ login[l].pc = "read"
    /\ LET row == account[login[l].user]
           late == ~row.active \/ row.password # login[l].password IN
       login' = [login EXCEPT ![l] =
           IF row.there THEN [@ EXCEPT !.pc = "open", !.late = late] ELSE NoLogin]
    /\ UNCHANGED <<account, call, token, expired, forgot, reset, renewed, cut, raced>>

Logout(l) ==
    /\ login[l].pc = "open"
    /\ login' = [login EXCEPT ![l] = NoLogin]
    /\ UNCHANGED <<account, call, token, expired, forgot, reset, renewed, cut, raced>>

-----------------------------------------------------------------------------
(* PATCH and DELETE of an admin: the target is read, nobody locks out       *)
(* himself, and the role that was read chooses the path.                    *)
ReadTarget(a, by, u, change) ==
    /\ call[a].pc = "idle"
    /\ by \in ActiveAdmins /\ HasSession(by)
    /\ account[u].there
    /\ ~(u = by /\ TakesAway(change))
    /\ change # Delete => /\ change.role # "keep" \/ change.active # "keep" \/ change.password
                          /\ change.password => account[u].password < MaxPassword
    /\ call' = [call EXCEPT ![a] = [pc |-> IF u \in ActiveAdmins /\ TakesAway(change)
                                           THEN "guarded" ELSE "plain",
                                    user |-> u, change |-> change]]
    /\ UNCHANGED <<account, login, token, expired, forgot, reset, renewed, cut, raced>>

Fits(a) ==
    \/ ~call[a].change.password
    \/ account[call[a].user].password < MaxPassword

(* Mutant: the count of admins forgets the one who goes.                    *)
TakeAnyAdminAway(a) ==
    /\ call[a].pc = "guarded" /\ Fits(a)
    /\ LET u == call[a].user IN
       IF ActiveAdmins # {} /\ account[u].there
       THEN /\ account' = [account EXCEPT ![u] = Changed(@, call[a].change)]
            /\ EndSessions(u)
       ELSE UNCHANGED <<account, login>>
    /\ call' = [call EXCEPT ![a] = NoCall]
    /\ UNCHANGED <<token, expired, forgot, reset, renewed, cut, raced>>

(* The transaction, alone under its lock: refused for the last admin.       *)
TakeAdminAway(a) ==
    /\ call[a].pc = "guarded" /\ Fits(a)
    /\ LET u == call[a].user IN
       IF Cardinality(ActiveAdmins) > 1 /\ account[u].there
       THEN /\ account' = [account EXCEPT ![u] = Changed(@, call[a].change)]
            /\ EndSessions(u)
       ELSE UNCHANGED <<account, login>>
    /\ call' = [call EXCEPT ![a] = NoCall]
    /\ UNCHANGED <<token, expired, forgot, reset, renewed, cut, raced>>

(* The plain path: the row is written by id, whatever it has become.        *)
ChangeUser(a) ==
    /\ call[a].pc = "plain" /\ Fits(a)
    /\ LET u == call[a].user
           change == call[a].change IN
       /\ raced' = (raced \/ (u \in ActiveAdmins /\ TakesAway(change)))
       /\ IF ~account[u].there
          THEN call' = [call EXCEPT ![a] = NoCall] /\ UNCHANGED <<account, login>>
          ELSE /\ account' = [account EXCEPT ![u] = Changed(@, change)]
               /\ IF change = Delete THEN EndSessions(u) ELSE UNCHANGED login
               /\ call' = [call EXCEPT ![a] =
                      IF change # Delete /\ (change.active = "no" \/ change.role # "keep" \/ change.password)
                      THEN [@ EXCEPT !.pc = "purge"] ELSE NoCall]
    /\ UNCHANGED <<token, expired, forgot, reset, renewed, cut>>

PurgeSessions(a) ==
    /\ call[a].pc = "purge"
    /\ EndSessions(call[a].user)
    /\ call' = [call EXCEPT ![a] = NoCall]
    /\ UNCHANGED <<account, token, expired, forgot, reset, renewed, cut, raced>>

CallDies(a) ==
    /\ call[a].pc # "idle"
    /\ cut' = IF call[a].pc = "purge" THEN cut \cup {call[a].user} ELSE cut
    /\ call' = [call EXCEPT ![a] = NoCall]
    /\ UNCHANGED <<account, login, token, expired, forgot, reset, renewed, raced>>

-----------------------------------------------------------------------------
(* forgot-password: expire the pending tokens, store a new one, mail it.    *)
SupersedeTokens(t, u) ==
    /\ forgot[t] = "idle"
    /\ account[u].there /\ account[u].active
    /\ token' = [s \in Tokens |->
           IF s = t THEN [status |-> "NONE", user |-> u]
           ELSE IF token[s].user = u /\ token[s].status = "PENDING"
                THEN [token[s] EXCEPT !.status = "EXPIRED"] ELSE token[s]]
    /\ forgot' = [forgot EXCEPT ![t] = "superseded"]
    /\ UNCHANGED <<account, login, call, expired, reset, renewed, cut, raced>>

CreateToken(t) ==
    /\ forgot[t] = "superseded"
    /\ token' = [token EXCEPT ![t].status = "PENDING"]
    /\ forgot' = [forgot EXCEPT ![t] = "created"]
    /\ UNCHANGED <<account, login, call, expired, reset, renewed, cut, raced>>

(* An exception makes the token FAILED by id, although the mail may have    *)
(* gone out; a send that is merely not accepted leaves it PENDING.          *)
MailToken(t) ==
    /\ forgot[t] = "created"
    /\ forgot' = [forgot EXCEPT ![t] = "sent"]
    /\ UNCHANGED <<account, login, call, token, expired, reset, renewed, cut, raced>>

MailFails(t) ==
    /\ forgot[t] \in {"created", "sent"}
    /\ token' = [token EXCEPT ![t].status = "FAILED"]
    /\ forgot' = [forgot EXCEPT ![t] = "failed"]
    /\ UNCHANGED <<account, login, call, expired, reset, renewed, cut, raced>>

TokenExpires(t) ==
    /\ token[t].status # "NONE" /\ t \notin expired
    /\ expired' = expired \cup {t}
    /\ UNCHANGED <<account, login, call, token, forgot, reset, renewed, cut, raced>>

-----------------------------------------------------------------------------
(* reset-password: token and user are read, then the token is spent by a    *)
(* conditional update, and the password and the sessions follow by id.      *)
ReadToken(p, t) ==
    /\ reset[p].pc = "idle" /\ forgot[t] = "sent"
    /\ IF token[t].status = "EXPIRED" \/ t \in expired
       THEN /\ token' = [token EXCEPT ![t].status = IF @ = "PENDING" THEN "EXPIRED" ELSE @]
            /\ UNCHANGED reset
       ELSE /\ token[t].status = "PENDING"
            /\ account[token[t].user].there /\ account[token[t].user].active
            /\ reset' = [reset EXCEPT ![p] = [pc |-> "read", token |-> t]]
            /\ UNCHANGED token
    /\ UNCHANGED <<account, login, call, expired, forgot, renewed, cut, raced>>

(* Mutant: the token is spent by id.                                        *)
SpendAnyway(p) ==
    /\ reset[p].pc = "read"
    /\ token' = [token EXCEPT ![reset[p].token].status = "VERIFIED"]
    /\ reset' = [reset EXCEPT ![p].pc = "spent"]
    /\ UNCHANGED <<account, login, call, expired, forgot, renewed, cut, raced>>

SpendToken(p) ==
    /\ reset[p].pc = "read"
    /\ LET t == reset[p].token IN
       IF token[t].status = "PENDING" /\ t \notin expired
       THEN /\ token' = [token EXCEPT ![t].status = "VERIFIED"]
            /\ reset' = [reset EXCEPT ![p].pc = "spent"]
       ELSE reset' = [reset EXCEPT ![p] = NoReset] /\ UNCHANGED token
    /\ UNCHANGED <<account, login, call, expired, forgot, renewed, cut, raced>>

SetPassword(p) ==
    /\ reset[p].pc = "spent"
    /\ LET t == reset[p].token
           u == token[t].user IN
       IF account[u].there
       THEN /\ account[u].password < MaxPassword
            /\ account' = [account EXCEPT ![u].password = @ + 1]
            /\ renewed' = [renewed EXCEPT ![t] = @ + 1]
            /\ reset' = [reset EXCEPT ![p].pc = "changed"]
       ELSE reset' = [reset EXCEPT ![p] = NoReset] /\ UNCHANGED <<account, renewed>>
    /\ UNCHANGED <<login, call, token, expired, forgot, cut, raced>>

(* Mutant: the sessions of the old password live on.                        *)
KeepSessions(p) ==
    /\ reset[p].pc = "changed"
    /\ reset' = [reset EXCEPT ![p] = NoReset]
    /\ UNCHANGED <<account, login, call, token, expired, forgot, renewed, cut, raced>>

DropSessions(p) ==
    /\ reset[p].pc = "changed"
    /\ EndSessions(token[reset[p].token].user)
    /\ reset' = [reset EXCEPT ![p] = NoReset]
    /\ UNCHANGED <<account, call, token, expired, forgot, renewed, cut, raced>>

ResetDies(p) ==
    /\ reset[p].pc # "idle"
    /\ cut' = IF reset[p].pc = "changed" THEN cut \cup {token[reset[p].token].user} ELSE cut
    /\ reset' = [reset EXCEPT ![p] = NoReset]
    /\ UNCHANGED <<account, login, call, token, expired, forgot, renewed, raced>>

AccountNext ==
    \/ \E l \in Logins : (\E u \in Users : ReadUser(l, u)) \/ OpenSession(l) \/ Logout(l)
    \/ \E a \in AdminCalls :
          \/ \E by, u \in Users, change \in Patches \cup {Delete} : ReadTarget(a, by, u, change)
          \/ TakeAdminAway(a) \/ ChangeUser(a) \/ PurgeSessions(a) \/ CallDies(a)
    \/ \E t \in Tokens :
          (\E u \in Users : SupersedeTokens(t, u)) \/ CreateToken(t) \/ MailToken(t) \/ MailFails(t)
          \/ TokenExpires(t)
    \/ \E p \in Resets :
          (\E t \in Tokens : ReadToken(p, t)) \/ SpendToken(p) \/ SetPassword(p)
          \/ DropSessions(p) \/ ResetDies(p)

AccountSpec == AccountInit /\ [][AccountNext]_accountVars

-----------------------------------------------------------------------------
(* There is always an active admin, whoever deletes, demotes or disables    *)
(* whom at the same time, unless a call found its target no admin and the   *)
(* target became one before the write (admin/users/route.ts:42-76).         *)
AdminRemains == ActiveAdmins # {} \/ raced

(* A reset token changes a password once, however many calls hold it        *)
(* (auth-token-service.ts:432-452).                                         *)
TokenSpentOnce == \A t \in Tokens : renewed[t] <= 1

(* Who still owes the sessions of u their end.                              *)
Owing(u) ==
    \/ \E a \in AdminCalls : call[a].pc = "purge" /\ call[a].user = u
    \/ \E p \in Resets : reset[p].pc = "changed" /\ token[reset[p].token].user = u

(* A session outlives a change of its user's password or the disabling of   *)
(* its user only if its login had read the account before, or the change    *)
(* was cut off between its two writes (auth-token-service.ts:457-466).      *)
OldSessionsEnd ==
    \A l \in Logins : login[l].pc = "open" =>
        LET u == login[l].user IN
        \/ account[u].active /\ login[l].password = account[u].password
        \/ login[l].late \/ Owing(u) \/ u \in cut
=============================================================================
