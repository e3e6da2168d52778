------------------------------ MODULE MCAccess ------------------------------
(***************************************************************************)
(* One-time codes and accounts share no row, and what accounts do is       *)
(* looked at in three parts: a behaviour is one of the four, chosen at the *)
(* start.  The variables of the others rest.                               *)
(***************************************************************************)
EXTENDS Otp, Accounts, TLC

VARIABLE part

accessVars == <<part, otpVars, accountVars>>

AccessInit ==
    /\ part \in {"codes", "admins", "forgot", "reset"}
    /\ OtpInit
    /\ AccountInit

AccessNext ==
    /\ part' = part
    /\ \/ part = "codes" /\ OtpNext /\ UNCHANGED accountVars
       \/ part # "codes" /\ AccountNext /\ UNCHANGED otpVars

AccessSpec == AccessInit /\ [][AccessNext]_accessVars

ASSUME AccessConstantsOK == OtpConstantsOK /\ AccountConstantsOK

-----------------------------------------------------------------------------
Calling == {a \in AdminCalls : call[a] # NoCall}
LoggedIn == {l \in Logins : login[l] # NoLogin}
Resetting == {p \in Resets : reset[p] # NoReset}
Passwords(n) == \A u \in Users : account[u].password <= n

(* Admins: two admin calls and two logins, without passwords.  Forgot: one  *)
(* of each with a forgotten password, which no role matters to.  Reset: two *)
(* calls with one reset token, without admin calls.                         *)
OnePart ==
    /\ part = "admins" =>
          /\ \A t \in Tokens : forgot[t] = "idle"
          /\ \A a \in Calling : ~call[a].change.password
    /\ part = "forgot" =>
          /\ \A a \in Calling : call[a].change.role \in {"keep", "deleted"}
          /\ Cardinality(Calling) <= 1 /\ Cardinality(LoggedIn) <= 1
          /\ Cardinality(Resetting) <= 1 /\ Passwords(1)
    /\ part = "reset" => Calling = {} /\ Cardinality(LoggedIn) <= 1

(* Without the name of a role that changes nothing and without two changes  *)
(* in one call: each is a change that another call can make as well.        *)
OneChangeAtATime ==
    \A a \in Calling :
        \/ call[a].change.role = "deleted"
        \/ Cardinality({x \in {"role", "active"} : call[a].change[x] # "keep"})
               + (IF call[a].change.password THEN 1 ELSE 0) = 1

OneThingAtATime == OnePart /\ OneChangeAtATime

(* Calls of one kind differ only in what they read.                         *)
Symmetry == UNION {Permutations(Requests), Permutations(Checks),
                   Permutations(Logins), Permutations(AdminCalls), Permutations(Resets)}
=============================================================================
