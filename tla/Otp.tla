-------------------------------- MODULE Otp ---------------------------------
(***************************************************************************)
(* One-time codes for one client, destination and purpose: requestOtp and  *)
(* verifyOtp of src/lib/services/otp-service.ts, statement by statement.   *)
(*                                                                         *)
(* A request first expires the codes that are still PENDING, then creates  *)
(* its own and sends it; nothing holds the two statements together.  A     *)
(* check reads the newest PENDING code, decides on what it read, and then  *)
(* writes: the write that verifies is conditional, the one that counts a   *)
(* wrong guess goes by id.                                                 *)
(*                                                                         *)
(* Abstractions.  A code is named by its request.  Whether a guess is      *)
(* right is free, but only who got the code guesses it: a lucky guess is   *)
(* left out.  The webhooks of both operations have their own module        *)
(* (OutboundWebhooks): they change no code and their failure is swallowed. *)
(***************************************************************************)
EXTENDS Naturals, FiniteSets, Sequences

CONSTANTS
    Requests,     \* requestOtp calls; each makes at most one code
    Checks,       \* concurrent verifyOtp calls; each may be followed by more
    MaxAttempts   \* OTP_MAX_ATTEMPTS

OtpConstantsOK == IsFiniteSet(Checks) /\ MaxAttempts \in Nat \ {0}

VARIABLES
    code,      \* OtpVerification rows: status and attempts
    made,      \* the codes in the order of createdAt
    over,      \* the codes whose expiresAt has passed
    asking,    \* how far each request has come
    check,     \* for each check: the code it read and the write it owes
    reached,   \* history: the codes that got to the user
    uses,      \* history: how often a code was accepted
    crossed    \* history: two requests expired the codes before either had made its own

otpVars == <<code, made, over, asking, check, reached, uses, crossed>>

Absent == [status |-> "NONE", attempts |-> 0]
Idle == [owes |-> "nothing"]
Owes(write, c) == [owes |-> write, of |-> c]

Pending == {c \in Requests : code[c].status = "PENDING"}
SetStatus(c, s) == code' = [code EXCEPT ![c].status = s]
RequestIs(r, phase) == asking' = [asking EXCEPT ![r] = phase]
Answers(v) == check' = [check EXCEPT ![v] = Idle]

OtpTypeOK ==
    /\ code \in [Requests -> [status : {"NONE", "PENDING", "VERIFIED", "EXPIRED", "FAILED"},
                              attempts : Nat]]
    /\ made \in Seq(Requests) /\ over \subseteq Requests /\ reached \subseteq Requests
    /\ asking \in [Requests -> {"idle", "superseded", "created", "failed", "over"}]
    /\ check \in [Checks -> {Idle} \cup
           [owes : {"expire", "lock", "count", "verify"}, of : Requests]]
    /\ uses \in [Requests -> Nat] /\ crossed \in BOOLEAN

OtpInit ==
    /\ code = [r \in Requests |-> Absent]
    /\ made = <<>>
    /\ over = {}
    /\ asking = [r \in Requests |-> "idle"]
    /\ check = [v \in Checks |-> Idle]
    /\ reached = {}
    /\ uses = [r \in Requests |-> 0]
    /\ crossed = FALSE

-----------------------------------------------------------------------------
(* Mutant: a request leaves the codes before it alone.                      *)
SupersedeNothing(r) ==
    /\ asking[r] = "idle"
    /\ RequestIs(r, "superseded")
    /\ crossed' = (crossed \/ \E q \in Requests : asking[q] = "superseded")
    /\ UNCHANGED <<code, made, over, check, reached, uses>>

(* requestOtp.  Old codes are expired, whoever asked for them.              *)
Supersede(r) ==
    /\ asking[r] = "idle"
    /\ code' = [c \in Requests |-> IF c \in Pending THEN [code[c] EXCEPT !.status = "EXPIRED"]
                                                    ELSE code[c]]
    /\ RequestIs(r, "superseded")
    /\ crossed' = (crossed \/ \E q \in Requests : asking[q] = "superseded")
    /\ UNCHANGED <<made, over, check, reached, uses>>

Create(r) ==
    /\ asking[r] = "superseded"
    /\ code' = [code EXCEPT ![r] = [status |-> "PENDING", attempts |-> 0]]
    /\ made' = Append(made, r)
    /\ RequestIs(r, "created")
    /\ UNCHANGED <<over, check, reached, uses, crossed>>

(* The message or the email is accepted, and the caller learns it.          *)
Sent(r) ==
    /\ asking[r] = "created"
    /\ reached' = reached \cup {r}
    /\ RequestIs(r, "over")
    /\ UNCHANGED <<code, made, over, check, uses, crossed>>

(* The send throws or is answered FAILED: refused, or accepted although the *)
(* answer or its record was lost.                                           *)
SendFails(r) ==
    /\ asking[r] = "created"
    /\ reached' \in {reached, reached \cup {r}}
    /\ RequestIs(r, "failed")
    /\ UNCHANGED <<code, made, over, check, uses, crossed>>

(* The code is FAILED by id; an error of this write is swallowed.           *)
MarkFailed(r) ==
    /\ asking[r] = "failed"
    /\ SetStatus(r, "FAILED") \/ UNCHANGED code
    /\ RequestIs(r, "over")
    /\ UNCHANGED <<made, over, check, reached, uses, crossed>>

-----------------------------------------------------------------------------
(* verifyOtp.  findFirst by createdAt, newest first, among the PENDING; all *)
(* the checks that follow look at what it returned.                         *)
Newest(c) ==
    /\ c \in Pending
    /\ \A i, j \in DOMAIN made : made[i] = c /\ made[j] \in Pending => j <= i

(* Mutant: only the write that counts a guess looks at the limit.           *)
ReadBeyond(v, right) ==
    /\ check[v] = Idle
    /\ \E c \in Requests :
          /\ Newest(c)
          /\ right => c \in reached
          /\ check' = [check EXCEPT ![v] =
                 Owes(IF c \in over THEN "expire" ELSE IF right THEN "verify" ELSE "count", c)]
    /\ UNCHANGED <<code, made, over, asking, reached, uses, crossed>>

Read(v, right) ==
    /\ check[v] = Idle
    /\ \E c \in Requests :
          /\ Newest(c)
          /\ right => c \in reached
          /\ check' = [check EXCEPT ![v] =
                 Owes(CASE c \in over -> "expire"
                        [] c \notin over /\ code[c].attempts >= MaxAttempts -> "lock"
                        [] OTHER -> IF right THEN "verify" ELSE "count", c)]
    /\ UNCHANGED <<code, made, over, asking, reached, uses, crossed>>

(* updateMany where PENDING: an expired code, or one out of attempts.       *)
Close(v, write, status) ==
    /\ check[v].owes = write
    /\ LET c == check[v].of IN
       IF c \in Pending THEN SetStatus(c, status) ELSE UNCHANGED code
    /\ Answers(v)
    /\ UNCHANGED <<made, over, asking, reached, uses, crossed>>

(* A wrong guess is counted by id; the last one also locks the code.        *)
Count(v) ==
    /\ check[v].owes = "count"
    /\ LET c == check[v].of IN
       /\ code' = [code EXCEPT ![c].attempts = @ + 1]
       /\ check' = [check EXCEPT ![v] =
              IF code[c].attempts + 1 >= MaxAttempts THEN Owes("lock", c) ELSE Idle]
    /\ UNCHANGED <<made, over, asking, reached, uses, crossed>>

(* Mutant: the update that verifies goes by id.                             *)
VerifyAnyway(v) ==
    /\ check[v].owes = "verify"
    /\ SetStatus(check[v].of, "VERIFIED")
    /\ uses' = [uses EXCEPT ![check[v].of] = @ + 1]
    /\ Answers(v)
    /\ UNCHANGED <<made, over, asking, reached, crossed>>

(* The conditional update decides; who loses it is told ALREADY_USED.       *)
Verify(v) ==
    /\ check[v].owes = "verify"
    /\ LET c == check[v].of IN
       IF c \in Pending /\ code[c].attempts < MaxAttempts /\ c \notin over
       THEN /\ SetStatus(c, "VERIFIED")
            /\ uses' = [uses EXCEPT ![c] = @ + 1]
       ELSE UNCHANGED <<code, uses>>
    /\ Answers(v)
    /\ UNCHANGED <<made, over, asking, reached, crossed>>

-----------------------------------------------------------------------------
(* Time passes, and either call may be cut off between two statements.      *)
Expires(c) ==
    /\ code[c].status # "NONE"
    /\ c \notin over
    /\ over' = over \cup {c}
    /\ UNCHANGED <<code, made, asking, check, reached, uses, crossed>>

RequestDies(r) ==
    /\ asking[r] \in {"superseded", "created", "failed"}
    /\ RequestIs(r, "over")
    /\ UNCHANGED <<code, made, over, check, reached, uses, crossed>>

CheckDies(v) ==
    /\ check[v] # Idle
    /\ Answers(v)
    /\ UNCHANGED <<code, made, over, asking, reached, uses, crossed>>

OtpNext ==
    \/ \E r \in Requests :
          Supersede(r) \/ Create(r) \/ Sent(r) \/ SendFails(r) \/ MarkFailed(r)
          \/ Expires(r) \/ RequestDies(r)
    \/ \E v \in Checks :
          \/ \E right \in BOOLEAN : Read(v, right)
          \/ Close(v, "expire", "EXPIRED") \/ Close(v, "lock", "FAILED")
          \/ Count(v) \/ Verify(v) \/ CheckDies(v)

OtpSpec == OtpInit /\ [][OtpNext]_otpVars

-----------------------------------------------------------------------------
(* A code is accepted once, however many checks hold it at the same time    *)
(* and whatever its own request still writes (otp-service.ts:354-380).      *)
UsedOnce == \A c \in Requests : uses[c] <= 1

(* The limit of wrong guesses is read before the guess is counted, so that  *)
(* checks at the same moment may exceed it, but by no more than there are   *)
(* of them (otp-service.ts:305, 326).                                       *)
GuessesAreLimited ==
    \A c \in Requests : code[c].attempts <= MaxAttempts + Cardinality(Checks) - 1

(* A code that is accepted is the last one made, also for a check that read *)
(* it before the next was asked for, unless two requests crossed.           *)
NewestIsAccepted ==
    \A c \in Requests :
        code[c].status # "VERIFIED" /\ code'[c].status = "VERIFIED" =>
            c = made[Len(made)] \/ crossed

(* No step accepts an older code (otp-service.ts:267-275): a step that      *)
(* verifies one finds it pending, and only the last made is.                *)
NewestWins == [][NewestIsAccepted]_otpVars
=============================================================================
