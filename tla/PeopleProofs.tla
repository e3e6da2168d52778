----------------------------- MODULE PeopleProofs -----------------------------
(***************************************************************************)
(* One-time codes, accounts, consent, audiences and segments, each for     *)
(* every set of users, calls, contacts, runs and criteria.  The modules    *)
(* share no variable; each has a section of its own, with its inductive    *)
(* invariant.                                                              *)
(***************************************************************************)
EXTENDS Otp, Accounts, Segments, Consent, Audience, FiniteSetTheorems,
    WellFoundedInduction, TLAPS

-----------------------------------------------------------------------------
(* One-time codes (Otp).                                                    *)

(* A code that was accepted is closed for good, and a request that has not  *)
(* come to its code has none.                                               *)
AcceptedIsClosed ==
    /\ \A c \in Requests : uses[c] <= 1
    /\ \A c \in Requests : code[c].status \in {"NONE", "PENDING"} => uses[c] = 0
    /\ \A c \in Requests : asking[c] \in {"idle", "superseded"} => code[c].status = "NONE"

(* The checks that have read code c and have still to count a wrong guess.  *)
Counting(c) == {v \in Checks : check[v] = Owes("count", c)}

(* Each of them read the code below its limit; each may carry it further.   *)
GuessesCovered ==
    \A c \in Requests :
        code[c].attempts + Cardinality(Counting(c)) <= MaxAttempts + Cardinality(Checks) - 1

(* As long as no two requests crossed, one at most is between its two       *)
(* statements, with no code pending then; and what is pending is the last.  *)
OnePending ==
    ~crossed =>
        /\ \A q, r \in Requests : asking[q] = "superseded" /\ asking[r] = "superseded" => q = r
        /\ \A r \in Requests : asking[r] = "superseded" => Pending = {}
        /\ \A c \in Pending : made # <<>> /\ c = made[Len(made)]

OtpInv == OtpTypeOK /\ AcceptedIsClosed /\ GuessesCovered /\ OnePending

(* The checks are finitely many: those that count are, and no more.         *)
LEMMA CountingSize ==
    ASSUME OtpConstantsOK, NEW c \in Requests
    PROVE  /\ IsFiniteSet(Counting(c)) /\ Cardinality(Counting(c)) \in Nat
           /\ Cardinality(Checks) \in Nat /\ Cardinality(Counting(c)) <= Cardinality(Checks)
<1>1. Counting(c) \subseteq Checks
    BY DEF Counting
<1>2. QED
    BY <1>1, FS_Subset, FS_CardinalityType DEF OtpConstantsOK

(* A check that owes a write has read a code.                               *)
LEMMA OwesOf ==
    ASSUME OtpTypeOK, NEW v \in Checks, check[v] # Idle
    PROVE  /\ check[v].of \in Requests
           /\ check[v].owes \in {"expire", "lock", "count", "verify"}
           /\ check[v] = Owes(check[v].owes, check[v].of)
<1>1. check[v] \in [owes : {"expire", "lock", "count", "verify"}, of : Requests]
    BY DEF OtpTypeOK
<1>2. QED
    BY <1>1 DEF Owes

(* A write by id changes one row.                                           *)
LEMMA StatusWritten ==
    ASSUME OtpTypeOK, NEW c \in Requests, NEW s \in {"VERIFIED", "EXPIRED", "FAILED"},
           SetStatus(c, s)
    PROVE  /\ code' \in [Requests -> [status : {"NONE", "PENDING", "VERIFIED", "EXPIRED", "FAILED"},
                                      attempts : Nat]]
           /\ \A d \in Requests : code'[d].status = IF d = c THEN s ELSE code[d].status
           /\ \A d \in Requests : code'[d].attempts = code[d].attempts
           /\ Pending' = Pending \ {c}
<1>1. code \in [Requests -> [status : {"NONE", "PENDING", "VERIFIED", "EXPIRED", "FAILED"},
                             attempts : Nat]]
    BY DEF OtpTypeOK
<1>2. code' \in [Requests -> [status : {"NONE", "PENDING", "VERIFIED", "EXPIRED", "FAILED"},
                              attempts : Nat]]
    BY <1>1 DEF SetStatus
<1>3. \A d \in Requests : code'[d].status = IF d = c THEN s ELSE code[d].status
    BY <1>1 DEF SetStatus
<1>4. \A d \in Requests : code'[d].attempts = code[d].attempts
    BY <1>1 DEF SetStatus
<1>5. QED
    BY <1>2, <1>3, <1>4 DEF Pending

LEMMA GuessCounted ==
    ASSUME OtpTypeOK, NEW c \in Requests, code' = [code EXCEPT ![c].attempts = @ + 1]
    PROVE  /\ code' \in [Requests -> [status : {"NONE", "PENDING", "VERIFIED", "EXPIRED", "FAILED"},
                                      attempts : Nat]]
           /\ \A d \in Requests : code'[d].status = code[d].status
           /\ \A d \in Requests : code'[d].attempts =
                  IF d = c THEN code[d].attempts + 1 ELSE code[d].attempts
           /\ Pending' = Pending
<1>1. code \in [Requests -> [status : {"NONE", "PENDING", "VERIFIED", "EXPIRED", "FAILED"},
                             attempts : Nat]]
    BY DEF OtpTypeOK
<1>2. code' \in [Requests -> [status : {"NONE", "PENDING", "VERIFIED", "EXPIRED", "FAILED"},
                              attempts : Nat]]
    BY <1>1
<1>3. \A d \in Requests : code'[d].status = code[d].status
    BY <1>1
<1>4. \A d \in Requests : code'[d].attempts = IF d = c THEN code[d].attempts + 1 ELSE code[d].attempts
    BY <1>1
<1>5. QED
    BY <1>2, <1>3, <1>4 DEF Pending

(* Type correctness of one-time codes.                                      *)
LEMMA OtpTypeStep ==
    ASSUME OtpTypeOK, [OtpNext]_otpVars
    PROVE  OtpTypeOK'
<1> USE DEF OtpTypeOK, RequestIs
<1>1. CASE UNCHANGED otpVars
    BY <1>1 DEF otpVars
<1>2. ASSUME NEW r \in Requests, Supersede(r) PROVE OtpTypeOK'
    BY <1>2 DEF Supersede, Pending
<1>3. ASSUME NEW r \in Requests, Create(r) PROVE OtpTypeOK'
    BY <1>3 DEF Create
<1>4. ASSUME NEW r \in Requests, Sent(r) \/ SendFails(r) PROVE OtpTypeOK'
    BY <1>4 DEF Sent, SendFails
<1>5. ASSUME NEW r \in Requests, MarkFailed(r) PROVE OtpTypeOK'
    BY <1>5, StatusWritten DEF MarkFailed
<1>6. ASSUME NEW r \in Requests, Expires(r) \/ RequestDies(r) PROVE OtpTypeOK'
    BY <1>6 DEF Expires, RequestDies
<1>7. ASSUME NEW v \in Checks, NEW right \in BOOLEAN, Read(v, right) PROVE OtpTypeOK'
  <2>1. PICK c \in Requests, write \in {"expire", "lock", "count", "verify"} :
            check' = [check EXCEPT ![v] = Owes(write, c)]
    BY <1>7 DEF Read
  <2>2. QED
    BY <1>7, <2>1 DEF Read, Owes
<1>8. ASSUME NEW v \in Checks, NEW write \in {"expire", "lock"}, NEW s \in {"EXPIRED", "FAILED"},
             Close(v, write, s)
      PROVE  OtpTypeOK'
  <2>1. check[v] # Idle /\ check' = [check EXCEPT ![v] = Idle]
    BY <1>8 DEF Close, Answers, Idle
  <2>2. check[v].of \in Requests
    BY <2>1, OwesOf
  <2>3. code' \in [Requests -> [status : {"NONE", "PENDING", "VERIFIED", "EXPIRED", "FAILED"},
                                attempts : Nat]]
    BY <1>8, <2>2, StatusWritten DEF Close
  <2>4. QED
    BY <1>8, <2>1, <2>3 DEF Close
<1>9. ASSUME NEW v \in Checks, Count(v) PROVE OtpTypeOK'
  <2>1. check[v] # Idle
    BY <1>9 DEF Count, Idle
  <2>2. check[v].of \in Requests
    BY <2>1, OwesOf
  <2>3. check' \in [Checks -> {Idle} \cup
            [owes : {"expire", "lock", "count", "verify"}, of : Requests]]
    BY <1>9, <2>2 DEF Count, Owes
  <2>4. QED
    BY <1>9, <2>2, <2>3, GuessCounted DEF Count
<1>10. ASSUME NEW v \in Checks, Verify(v) PROVE OtpTypeOK'
  <2>1. check[v] # Idle /\ check' = [check EXCEPT ![v] = Idle]
    BY <1>10 DEF Verify, Answers, Idle
  <2>2. check[v].of \in Requests
    BY <2>1, OwesOf
  <2>3. code' \in [Requests -> [status : {"NONE", "PENDING", "VERIFIED", "EXPIRED", "FAILED"},
                                attempts : Nat]]
    BY <1>10, <2>2, StatusWritten DEF Verify
  <2>4. uses' \in [Requests -> Nat]
    <3>1. UNCHANGED uses \/ uses' = [uses EXCEPT ![check[v].of] = @ + 1]
      BY <1>10 DEF Verify
    <3>2. uses \in [Requests -> Nat]
      OBVIOUS
    <3> HIDE DEF OtpTypeOK
    <3>3. QED
      BY <2>2, <3>1, <3>2
  <2>5. QED
    BY <1>10, <2>1, <2>3, <2>4 DEF Verify
<1>11. ASSUME NEW v \in Checks, CheckDies(v) PROVE OtpTypeOK'
    BY <1>11 DEF CheckDies, Answers
<1>12. QED
    BY <1>1, <1>2, <1>3, <1>4, <1>5, <1>6, <1>7, <1>8, <1>9, <1>10, <1>11 DEF OtpNext

(* An accepted code stays closed: the one write that accepts is conditional *)
(* on the code being pending, and no write makes a closed code pending.     *)
LEMMA AcceptedIsClosedStep ==
    ASSUME OtpTypeOK, AcceptedIsClosed, [OtpNext]_otpVars
    PROVE  AcceptedIsClosed'
<1> USE DEF AcceptedIsClosed, RequestIs
<1>1. /\ uses \in [Requests -> Nat]
      /\ asking \in [Requests -> {"idle", "superseded", "created", "failed", "over"}]
      /\ code \in [Requests -> [status : {"NONE", "PENDING", "VERIFIED", "EXPIRED", "FAILED"},
                                attempts : Nat]]
    BY DEF OtpTypeOK
<1>2. CASE UNCHANGED otpVars
    BY <1>2 DEF otpVars
<1>3. ASSUME NEW r \in Requests, Supersede(r) PROVE AcceptedIsClosed'
    BY <1>1, <1>3 DEF Supersede, Pending
<1>4. ASSUME NEW r \in Requests, Create(r) PROVE AcceptedIsClosed'
    BY <1>1, <1>4 DEF Create
<1>5. ASSUME NEW r \in Requests, Sent(r) \/ SendFails(r) \/ Expires(r) \/ RequestDies(r)
      PROVE  AcceptedIsClosed'
    BY <1>1, <1>5 DEF Sent, SendFails, Expires, RequestDies
<1>6. ASSUME NEW r \in Requests, MarkFailed(r) PROVE AcceptedIsClosed'
  <2>1. CASE SetStatus(r, "FAILED")
    <3>1. \A d \in Requests : code'[d].status = IF d = r THEN "FAILED" ELSE code[d].status
      BY <2>1, StatusWritten
    <3>2. QED
      BY <1>1, <1>6, <3>1 DEF MarkFailed
  <2>2. CASE UNCHANGED code
    BY <1>1, <1>6, <2>2 DEF MarkFailed
  <2>3. QED
    BY <1>6, <2>1, <2>2 DEF MarkFailed
<1>7. ASSUME NEW v \in Checks, NEW right \in BOOLEAN, Read(v, right) \/ CheckDies(v)
      PROVE  AcceptedIsClosed'
    BY <1>7 DEF Read, CheckDies
<1>8. ASSUME NEW v \in Checks, NEW write \in {"expire", "lock"}, NEW s \in {"EXPIRED", "FAILED"},
             Close(v, write, s)
      PROVE  AcceptedIsClosed'
  <2>1. check[v].of \in Requests
    BY <1>8, OwesOf DEF Close, Idle
  <2>2. CASE check[v].of \in Pending
    <3>1. SetStatus(check[v].of, s)
      BY <1>8, <2>2 DEF Close
    <3>2. \A d \in Requests : code'[d].status = IF d = check[v].of THEN s ELSE code[d].status
      BY <2>1, <3>1, StatusWritten
    <3>3. QED
      BY <1>1, <1>8, <2>2, <3>2 DEF Close, Pending
  <2>3. CASE check[v].of \notin Pending
    BY <1>8, <2>3 DEF Close
  <2>4. QED
    BY <2>2, <2>3
<1>9. ASSUME NEW v \in Checks, Count(v) PROVE AcceptedIsClosed'
  <2>1. check[v].of \in Requests
    BY <1>9, OwesOf DEF Count, Idle
  <2>2. QED
    BY <1>9, <2>1, GuessCounted DEF Count
<1>10. ASSUME NEW v \in Checks, Verify(v) PROVE AcceptedIsClosed'
  <2>1. check[v].of \in Requests
    BY <1>10, OwesOf DEF Verify, Idle
  <2>2. CASE UNCHANGED <<code, uses>>
    BY <1>10, <2>2 DEF Verify
  <2>3. CASE /\ check[v].of \in Pending /\ SetStatus(check[v].of, "VERIFIED")
             /\ uses' = [uses EXCEPT ![check[v].of] = @ + 1]
    <3>1. \A d \in Requests :
              code'[d].status = IF d = check[v].of THEN "VERIFIED" ELSE code[d].status
      BY <2>1, <2>3, StatusWritten
    <3>2. uses[check[v].of] = 0 /\ asking[check[v].of] \notin {"idle", "superseded"}
      BY <2>1, <2>3 DEF Pending
    <3>3. QED
      BY <1>1, <1>10, <2>1, <2>3, <3>1, <3>2 DEF Verify
  <2>4. QED
    BY <1>10, <2>2, <2>3 DEF Verify
<1>11. QED
    BY <1>2, <1>3, <1>4, <1>5, <1>6, <1>7, <1>8, <1>9, <1>10 DEF OtpNext

(* What is pending and uncrossed stays the last code made.                  *)
LEMMA OnePendingStep ==
    ASSUME OtpTypeOK, AcceptedIsClosed, OnePending, [OtpNext]_otpVars
    PROVE  OnePending'
<1> USE DEF OnePending, RequestIs
<1>1. /\ made \in Seq(Requests) /\ crossed \in BOOLEAN
      /\ asking \in [Requests -> {"idle", "superseded", "created", "failed", "over"}]
      /\ code \in [Requests -> [status : {"NONE", "PENDING", "VERIFIED", "EXPIRED", "FAILED"},
                                attempts : Nat]]
    BY DEF OtpTypeOK
<1>2. CASE UNCHANGED otpVars
    BY <1>2 DEF otpVars, Pending
<1>3. ASSUME NEW r \in Requests, Supersede(r) PROVE OnePending'
  <2>1. Pending' = {}
    BY <1>1, <1>3 DEF Supersede, Pending
  <2>2. QED
    BY <1>1, <1>3, <2>1 DEF Supersede
<1>4. ASSUME NEW r \in Requests, Create(r) PROVE OnePending'
  <2>1. made' # <<>> /\ made'[Len(made')] = r
    <3>1. made' = Append(made, r)
      BY <1>4 DEF Create
    <3> HIDE DEF OnePending
    <3>2. QED
      BY <1>1, <3>1
  <2>2. ~crossed => Pending' = {r}
    BY <1>1, <1>4 DEF Create, Pending
  <2>3. ~crossed => \A q \in Requests : asking'[q] # "superseded"
    BY <1>1, <1>4 DEF Create
  <2>4. QED
    BY <1>4, <2>1, <2>2, <2>3 DEF Create
<1>5. ASSUME NEW r \in Requests, Sent(r) \/ SendFails(r) \/ Expires(r) \/ RequestDies(r)
      PROVE  OnePending'
    BY <1>1, <1>5 DEF Sent, SendFails, Expires, RequestDies, Pending
<1>6. ASSUME NEW r \in Requests, MarkFailed(r) PROVE OnePending'
  <2>1. Pending' \subseteq Pending
    BY <1>6, StatusWritten DEF MarkFailed, Pending
  <2>2. QED
    BY <1>1, <1>6, <2>1 DEF MarkFailed
<1>7. ASSUME NEW v \in Checks, NEW right \in BOOLEAN, Read(v, right) \/ CheckDies(v)
      PROVE  OnePending'
    BY <1>7 DEF Read, CheckDies, Pending
<1>8. ASSUME NEW v \in Checks, NEW write \in {"expire", "lock"}, NEW s \in {"EXPIRED", "FAILED"},
             Close(v, write, s)
      PROVE  OnePending'
  <2>1. check[v].of \in Requests
    BY <1>8, OwesOf DEF Close, Idle
  <2>2. UNCHANGED code \/ SetStatus(check[v].of, s)
    BY <1>8 DEF Close
  <2>3. Pending' \subseteq Pending
    BY <2>1, <2>2, StatusWritten DEF Pending
  <2>4. QED
    BY <1>8, <2>3 DEF Close
<1>9. ASSUME NEW v \in Checks, Count(v) PROVE OnePending'
  <2>1. check[v].of \in Requests
    BY <1>9, OwesOf DEF Count, Idle
  <2>2. Pending' = Pending
    BY <1>9, <2>1, GuessCounted DEF Count
  <2>3. QED
    BY <1>9, <2>2 DEF Count
<1>10. ASSUME NEW v \in Checks, Verify(v) PROVE OnePending'
  <2>1. check[v].of \in Requests
    BY <1>10, OwesOf DEF Verify, Idle
  <2>2. UNCHANGED code \/ SetStatus(check[v].of, "VERIFIED")
    BY <1>10 DEF Verify
  <2>3. Pending' \subseteq Pending
    BY <2>1, <2>2, StatusWritten DEF Pending
  <2>4. QED
    BY <1>10, <2>3 DEF Verify
<1>11. QED
    BY <1>2, <1>3, <1>4, <1>5, <1>6, <1>7, <1>8, <1>9, <1>10 DEF OtpNext

(* A guess is counted by a check that has read the code below its limit:    *)
(* the reader is one more that counts, and who counts is one less.          *)
LEMMA GuessesCoveredStep ==
    ASSUME OtpConstantsOK, OtpTypeOK, GuessesCovered, [OtpNext]_otpVars
    PROVE  GuessesCovered'
<1>1. /\ code \in [Requests -> [status : {"NONE", "PENDING", "VERIFIED", "EXPIRED", "FAILED"},
                                attempts : Nat]]
      /\ MaxAttempts \in Nat \ {0} /\ Cardinality(Checks) \in Nat
    BY FS_CardinalityType DEF OtpTypeOK, OtpConstantsOK
<1>2. \A c \in Requests : /\ IsFiniteSet(Counting(c)) /\ Cardinality(Counting(c)) \in Nat
                           /\ Cardinality(Counting(c)) <= Cardinality(Checks)
    BY CountingSize
<1>3. ASSUME NEW c \in Requests, Counting(c)' \subseteq Counting(c)
      PROVE  Cardinality(Counting(c)') \in Nat /\ Cardinality(Counting(c)') <= Cardinality(Counting(c))
    BY <1>3, <1>2, FS_Subset, FS_CardinalityType
<1>4. ASSUME \A c \in Requests : code'[c].attempts = code[c].attempts /\ Counting(c)' \subseteq Counting(c)
      PROVE  GuessesCovered'
    BY <1>1, <1>2, <1>3, <1>4 DEF GuessesCovered
<1>5. CASE UNCHANGED otpVars
    BY <1>5, <1>4 DEF otpVars, Counting
<1>6. ASSUME NEW r \in Requests, Supersede(r) PROVE GuessesCovered'
    BY <1>1, <1>6, <1>4 DEF Supersede, Counting
<1>7. ASSUME NEW r \in Requests, Create(r) PROVE GuessesCovered'
  <2>1. \A c \in Requests : Counting(c)' = Counting(c)
    BY <1>7 DEF Create, Counting
  <2>2. \A c \in Requests : code'[c].attempts = IF c = r THEN 0 ELSE code[c].attempts
    BY <1>1, <1>7 DEF Create
  <2>3. QED
    BY <1>1, <1>2, <2>1, <2>2 DEF GuessesCovered
<1>8. ASSUME NEW r \in Requests, Sent(r) \/ SendFails(r) \/ Expires(r) \/ RequestDies(r)
      PROVE  GuessesCovered'
    BY <1>8, <1>4 DEF Sent, SendFails, Expires, RequestDies, Counting
<1>9. ASSUME NEW r \in Requests, MarkFailed(r) PROVE GuessesCovered'
  <2>1. \A c \in Requests : code'[c].attempts = code[c].attempts
    BY <1>9, StatusWritten DEF MarkFailed
  <2>2. QED
    BY <1>9, <2>1, <1>4 DEF MarkFailed, Counting
<1>10. ASSUME NEW v \in Checks, NEW right \in BOOLEAN, Read(v, right) PROVE GuessesCovered'
  <2>1. PICK c \in Requests : check' = [check EXCEPT ![v] =
                 Owes(CASE c \in over -> "expire"
                        [] c \notin over /\ code[c].attempts >= MaxAttempts -> "lock"
                        [] OTHER -> IF right THEN "verify" ELSE "count", c)]
    BY <1>10 DEF Read
  <2> DEFINE write == CASE c \in over -> "expire"
                        [] c \notin over /\ code[c].attempts >= MaxAttempts -> "lock"
                        [] OTHER -> IF right THEN "verify" ELSE "count"
  <2>2. /\ check' = [check EXCEPT ![v] = Owes(write, c)]
        /\ write = "count" => ~(code[c].attempts >= MaxAttempts)
    BY <2>1
  <2> HIDE DEF write
  <2>3. \A d \in Requests : d # c => Counting(d)' \subseteq Counting(d)
    BY <2>2 DEF Counting, Owes
  <2>4. write # "count" => Counting(c)' \subseteq Counting(c)
    BY <2>2 DEF Counting, Owes
  <2>5. UNCHANGED code
    BY <1>10 DEF Read
  <2>6. CASE write # "count"
    BY <1>4, <2>3, <2>4, <2>5, <2>6
  <2>7. CASE write = "count"
    <3>1. Counting(c)' \subseteq Checks
      BY DEF Counting
    <3>2. Cardinality(Counting(c)') \in Nat /\ Cardinality(Counting(c)') <= Cardinality(Checks)
      BY <3>1, FS_Subset, FS_CardinalityType DEF OtpConstantsOK
    <3>3. code[c].attempts \in Nat /\ code[c].attempts < MaxAttempts
      BY <1>1, <2>2, <2>7
    <3>4. code'[c].attempts + Cardinality(Counting(c)') <= MaxAttempts + Cardinality(Checks) - 1
      BY <1>1, <2>5, <3>2, <3>3
    <3>5. ASSUME NEW d \in Requests, d # c
          PROVE  code'[d].attempts + Cardinality(Counting(d)') <= MaxAttempts + Cardinality(Checks) - 1
      BY <1>1, <1>2, <1>3, <2>3, <2>5, <3>5 DEF GuessesCovered
    <3>6. QED
      BY <3>4, <3>5 DEF GuessesCovered
  <2>8. QED
    BY <2>6, <2>7
<1>11. ASSUME NEW v \in Checks, NEW write \in {"expire", "lock"}, NEW s \in {"EXPIRED", "FAILED"},
             Close(v, write, s)
      PROVE  GuessesCovered'
  <2>1. check[v].of \in Requests
    BY <1>11, OwesOf DEF Close, Idle
  <2>2. \A c \in Requests : code'[c].attempts = code[c].attempts
    BY <1>11, <2>1, StatusWritten DEF Close
  <2>3. \A c \in Requests : Counting(c)' \subseteq Counting(c)
    BY <1>11 DEF Close, Answers, Counting, Idle, Owes
  <2>4. QED
    BY <2>2, <2>3, <1>4
<1>12. ASSUME NEW v \in Checks, Count(v) PROVE GuessesCovered'
  <2>1. PICK c \in Requests : c = check[v].of /\ check[v] = Owes("count", c)
    BY <1>12, OwesOf DEF Count, Idle
  <2>2. PICK next \in {Owes("lock", c), Idle} : check' = [check EXCEPT ![v] = next]
    BY <1>12, <2>1 DEF Count
  <2>3. check \in [Checks -> {Idle} \cup [owes : {"expire", "lock", "count", "verify"}, of : Requests]]
    BY DEF OtpTypeOK
  <2>4. \A d \in Requests : next # Owes("count", d)
    BY DEF Owes, Idle
  <2>5. v \in Counting(c) /\ Counting(c)' = Counting(c) \ {v}
    BY <2>1, <2>2, <2>3, <2>4 DEF Counting
  <2>6. \A d \in Requests : d # c => Counting(d)' \subseteq Counting(d)
    BY <2>2, <2>3, <2>4 DEF Counting
  <2>7. Cardinality(Counting(c)') = Cardinality(Counting(c)) - 1
    BY <1>2, <2>1, <2>5, FS_RemoveElement
  <2>8. \A d \in Requests : code'[d].attempts = IF d = c THEN code[d].attempts + 1 ELSE code[d].attempts
    <3>1. code' = [code EXCEPT ![c].attempts = @ + 1]
      BY <1>12, <2>1 DEF Count
    <3>2. QED
      BY <3>1, GuessCounted
  <2>9. code'[c].attempts + Cardinality(Counting(c)') <= MaxAttempts + Cardinality(Checks) - 1
    BY <1>1, <1>2, <2>1, <2>7, <2>8 DEF GuessesCovered
  <2>10. ASSUME NEW d \in Requests, d # c
        PROVE  code'[d].attempts + Cardinality(Counting(d)') <= MaxAttempts + Cardinality(Checks) - 1
    BY <1>1, <1>2, <1>3, <2>6, <2>8, <2>10 DEF GuessesCovered
  <2>11. QED
    BY <2>9, <2>10 DEF GuessesCovered
<1>13. ASSUME NEW v \in Checks, Verify(v) PROVE GuessesCovered'
  <2>1. check[v].of \in Requests
    BY <1>13, OwesOf DEF Verify, Idle
  <2>2. \A c \in Requests : code'[c].attempts = code[c].attempts
    BY <1>13, <2>1, StatusWritten DEF Verify
  <2>3. \A c \in Requests : Counting(c)' \subseteq Counting(c)
    BY <1>13 DEF Verify, Answers, Counting, Idle, Owes
  <2>4. QED
    BY <2>2, <2>3, <1>4
<1>14. ASSUME NEW v \in Checks, CheckDies(v) PROVE GuessesCovered'
    BY <1>14, <1>4 DEF CheckDies, Answers, Counting, Idle, Owes
<1>15. QED
    BY <1>5, <1>6, <1>7, <1>8, <1>9, <1>10, <1>11, <1>12, <1>13, <1>14 DEF OtpNext

(* The inductive invariant of one-time codes.                               *)
THEOREM CodesInvariantHolds ==
    ASSUME OtpConstantsOK
    PROVE  OtpSpec => []OtpInv
<1>1. OtpInit => OtpInv
  <2> SUFFICES ASSUME OtpInit PROVE OtpInv
    OBVIOUS
  <2>1. OtpTypeOK
    <3>1. made \in Seq(Requests)
      BY DEF OtpInit
    <3>2. code \in [Requests -> [status : {"NONE", "PENDING", "VERIFIED", "EXPIRED", "FAILED"},
                                 attempts : Nat]]
      BY DEF OtpInit, Absent
    <3>3. QED
      BY <3>1, <3>2 DEF OtpInit, OtpTypeOK
  <2>2. AcceptedIsClosed /\ OnePending
    BY DEF OtpInit, AcceptedIsClosed, OnePending, Pending, Absent
  <2>3. \A c \in Requests : code[c].attempts = 0
    BY DEF OtpInit, Absent
  <2>4. MaxAttempts \in Nat \ {0}
    BY DEF OtpConstantsOK
  <2>5. GuessesCovered
    BY <2>3, <2>4, CountingSize DEF GuessesCovered
  <2>6. QED
    BY <2>1, <2>2, <2>5 DEF OtpInv
<1>2. OtpInv /\ [OtpNext]_otpVars => OtpInv'
    BY OtpTypeStep, AcceptedIsClosedStep, OnePendingStep, GuessesCoveredStep DEF OtpInv
<1>3. QED
    BY <1>1, <1>2, PTL DEF OtpSpec

-----------------------------------------------------------------------------
(* Accounts, admins, sessions and reset tokens (Accounts).                  *)

(* The call that spent token t and has not ended the sessions yet.          *)
Spends(p, t) == reset[p].pc \in {"spent", "changed"} /\ reset[p].token = t

(* A token is pending from its creation until one call spends it; nobody    *)
(* has changed a password with it then, and only that one call ever will.   *)
TokensInHand ==
    /\ \A t \in Tokens : forgot[t] \in {"idle", "superseded"} =>
           token[t].status = "NONE" /\ renewed[t] = 0
    /\ \A t \in Tokens : forgot[t] # "idle" => token[t].user \in Users
    /\ \A p \in Resets : reset[p].pc # "idle" => forgot[reset[p].token] \in {"sent", "failed"}
    /\ \A t \in Tokens : token[t].status = "PENDING" =>
           renewed[t] = 0 /\ \A p \in Resets : ~Spends(p, t)
    /\ \A p, q \in Resets, t \in Tokens : Spends(p, t) /\ Spends(q, t) => p = q
    /\ \A p \in Resets : reset[p].pc = "spent" => renewed[reset[p].token] = 0
    /\ \A t \in Tokens : renewed[t] <= 1

AccountInv == AccountTypeOK /\ AdminRemains /\ TokensInHand /\ OldSessionsEnd

(* A call under way is what its type says.                                  *)
LEMMA InHand ==
    ASSUME AccountTypeOK
    PROVE  /\ \A l \in Logins : login[l].pc # "idle" => login[l] \in LoginCall
           /\ \A a \in AdminCalls : call[a].pc # "idle" => call[a] \in AdminCall
           /\ \A p \in Resets : reset[p].pc # "idle" => reset[p] \in ResetCall
    BY DEF AccountTypeOK, NoLogin, NoCall, NoReset, LoginCall, AdminCall, ResetCall

(* A change of a row makes a row.                                           *)
LEMMA ChangedRow ==
    ASSUME NEW row \in UserRow, NEW change \in Patches \cup {Delete}, MaxPassword \in Nat,
           change.password => row.password < MaxPassword
    PROVE  Changed(row, change) \in UserRow
<1>1. CASE change = Delete
    BY <1>1 DEF Changed, Gone, UserRow
<1>2. CASE change # Delete
  <2>1. change \in Patches
    BY <1>2
  <2> DEFINE role == IF change.role = "keep" THEN row.role ELSE change.role
             active == IF change.active = "keep" THEN row.active ELSE change.active = "yes"
             password == IF change.password THEN row.password + 1 ELSE row.password
  <2>2. role \in {"ADMIN", "VIEWER"}
    BY <2>1 DEF Patches, UserRow
  <2>3. active \in BOOLEAN
    BY <2>1 DEF Patches, UserRow
  <2>4. password \in 0..MaxPassword
    BY <2>1 DEF Patches, UserRow
  <2>5. Changed(row, change) =
            [there |-> row.there, role |-> role, active |-> active, password |-> password]
    BY <1>2 DEF Changed, UserRow
  <2> HIDE DEF role, active, password
  <2>6. QED
    BY <2>2, <2>3, <2>4, <2>5 DEF UserRow
<1>3. QED
    BY <1>1, <1>2

(* Ending the sessions of u leaves the others as they are.                  *)
LEMMA SessionsEnded ==
    ASSUME AccountTypeOK, NEW u, EndSessions(u)
    PROVE  /\ login' \in [Logins -> {NoLogin} \cup LoginCall]
           /\ \A l \in Logins : login'[l].pc = "open" => login'[l] = login[l] /\ login[l].user # u
    BY DEF AccountTypeOK, EndSessions, NoLogin, LoginCall

(* Type correctness of accounts.                                            *)
LEMMA AccountTypeStep ==
    ASSUME AccountConstantsOK, AccountTypeOK, TokensInHand, [AccountNext]_accountVars
    PROVE  AccountTypeOK'
<1>1. MaxPassword \in Nat
    BY DEF AccountConstantsOK
<1> USE DEF AccountTypeOK
<1>2. CASE UNCHANGED accountVars
    BY <1>2 DEF accountVars
<1>3. ASSUME NEW l \in Logins, NEW u \in Users, ReadUser(l, u) PROVE AccountTypeOK'
  <2>1. [pc |-> "read", user |-> u, late |-> FALSE, password |-> account[u].password] \in LoginCall
    BY DEF LoginCall, UserRow
  <2>2. QED
    BY <1>3, <2>1 DEF ReadUser
<1>4. ASSUME NEW l \in Logins, OpenSession(l) PROVE AccountTypeOK'
  <2>1. login[l] \in LoginCall
    BY <1>4, InHand DEF OpenSession
  <2>2. \A late \in BOOLEAN : [login[l] EXCEPT !.pc = "open", !.late = late] \in LoginCall
    BY <2>1 DEF LoginCall
  <2>3. \E new \in {NoLogin} \cup LoginCall : login' = [login EXCEPT ![l] = new]
    BY <1>4, <2>2 DEF OpenSession
  <2>4. QED
    BY <1>4, <2>3 DEF OpenSession
<1>5. ASSUME NEW l \in Logins, Logout(l) PROVE AccountTypeOK'
    BY <1>5 DEF Logout
<1>6. ASSUME NEW a \in AdminCalls, NEW by, NEW u \in Users, NEW change \in Patches \cup {Delete},
             ReadTarget(a, by, u, change)
      PROVE  AccountTypeOK'
  <2>1. \A path \in {"guarded", "plain"} : [pc |-> path, user |-> u, change |-> change] \in AdminCall
    BY DEF AdminCall
  <2>2. \E new \in AdminCall : call' = [call EXCEPT ![a] = new]
    BY <1>6, <2>1 DEF ReadTarget
  <2>3. QED
    BY <1>6, <2>2 DEF ReadTarget
<1>7. ASSUME NEW a \in AdminCalls, TakeAdminAway(a) PROVE AccountTypeOK'
  <2>1. call[a] \in AdminCall
    BY <1>7, InHand DEF TakeAdminAway
  <2>2. Changed(account[call[a].user], call[a].change) \in UserRow
    BY <1>1, <1>7, <2>1, ChangedRow DEF TakeAdminAway, Fits, AdminCall
  <2>3. account' \in [Users -> UserRow]
    BY <1>7, <2>1, <2>2 DEF TakeAdminAway, AdminCall
  <2>4. login' \in [Logins -> {NoLogin} \cup LoginCall]
    BY <1>7, SessionsEnded DEF TakeAdminAway
  <2>5. QED
    BY <1>7, <2>3, <2>4 DEF TakeAdminAway
<1>8. ASSUME NEW a \in AdminCalls, ChangeUser(a) PROVE AccountTypeOK'
  <2>1. call[a] \in AdminCall
    BY <1>8, InHand DEF ChangeUser
  <2>2. Changed(account[call[a].user], call[a].change) \in UserRow
    BY <1>1, <1>8, <2>1, ChangedRow DEF ChangeUser, Fits, AdminCall
  <2>3. account' \in [Users -> UserRow]
    BY <1>8, <2>1, <2>2 DEF ChangeUser, AdminCall
  <2>4. login' \in [Logins -> {NoLogin} \cup LoginCall]
    BY <1>8, SessionsEnded DEF ChangeUser
  <2>5. [call[a] EXCEPT !.pc = "purge"] \in AdminCall
    BY <2>1 DEF AdminCall
  <2>6. call' \in [AdminCalls -> {NoCall} \cup AdminCall]
    BY <1>8, <2>5 DEF ChangeUser
  <2>7. raced' \in BOOLEAN
    BY <1>8 DEF ChangeUser
  <2>8. QED
    BY <1>8, <2>3, <2>4, <2>6, <2>7 DEF ChangeUser
<1>9. ASSUME NEW a \in AdminCalls, PurgeSessions(a) PROVE AccountTypeOK'
    BY <1>9, SessionsEnded DEF PurgeSessions
<1>10. ASSUME NEW a \in AdminCalls, CallDies(a) PROVE AccountTypeOK'
  <2>1. call[a] \in AdminCall
    BY <1>10, InHand DEF CallDies
  <2>2. QED
    BY <1>10, <2>1 DEF CallDies, AdminCall
<1>11. ASSUME NEW t \in Tokens, NEW u \in Users, SupersedeTokens(t, u) PROVE AccountTypeOK'
  <2>1. token' \in [Tokens -> TokenRow]
    BY <1>11 DEF SupersedeTokens, TokenRow
  <2>2. QED
    BY <1>11, <2>1 DEF SupersedeTokens
<1>12. ASSUME NEW t \in Tokens, CreateToken(t) \/ MailFails(t) PROVE AccountTypeOK'
  <2>1. token' \in [Tokens -> TokenRow]
    BY <1>12 DEF CreateToken, MailFails, TokenRow
  <2>2. QED
    BY <1>12, <2>1 DEF CreateToken, MailFails
<1>13. ASSUME NEW t \in Tokens, MailToken(t) \/ TokenExpires(t) PROVE AccountTypeOK'
    BY <1>13 DEF MailToken, TokenExpires
<1>14. ASSUME NEW p \in Resets, NEW t \in Tokens, ReadToken(p, t) PROVE AccountTypeOK'
  <2>1. token' \in [Tokens -> TokenRow]
    BY <1>14 DEF ReadToken, TokenRow
  <2>2. [pc |-> "read", token |-> t] \in ResetCall
    BY DEF ResetCall
  <2>3. QED
    BY <1>14, <2>1, <2>2 DEF ReadToken
<1>15. ASSUME NEW p \in Resets, SpendToken(p) PROVE AccountTypeOK'
  <2>1. reset[p] \in ResetCall
    BY <1>15, InHand DEF SpendToken
  <2>2. token' \in [Tokens -> TokenRow]
    BY <1>15, <2>1 DEF SpendToken, TokenRow, ResetCall
  <2>3. reset' \in [Resets -> {NoReset} \cup ResetCall]
    BY <1>15, <2>1 DEF SpendToken, ResetCall
  <2>4. QED
    BY <1>15, <2>2, <2>3 DEF SpendToken
<1>16. ASSUME NEW p \in Resets, SetPassword(p) PROVE AccountTypeOK'
  <2>1. reset[p] \in ResetCall
    BY <1>16, InHand DEF SetPassword
  <2>2. account' \in [Users -> UserRow]
    BY <1>1, <1>16, <2>1 DEF SetPassword, UserRow, ResetCall
  <2>3. reset' \in [Resets -> {NoReset} \cup ResetCall]
    BY <1>16, <2>1 DEF SetPassword, ResetCall
  <2>4. renewed' \in [Tokens -> Nat]
    BY <1>16, <2>1 DEF SetPassword, ResetCall
  <2>5. QED
    BY <1>16, <2>2, <2>3, <2>4 DEF SetPassword
<1>17. ASSUME NEW p \in Resets, DropSessions(p) PROVE AccountTypeOK'
    BY <1>17, SessionsEnded DEF DropSessions
<1>18. ASSUME NEW p \in Resets, ResetDies(p) PROVE AccountTypeOK'
  <2>1. reset[p] \in ResetCall /\ reset[p].pc # "idle"
    BY <1>18, InHand DEF ResetDies
  <2>2. token[reset[p].token].user \in Users
    BY <2>1 DEF ResetCall, TokensInHand
  <2>3. QED
    BY <1>18, <2>2 DEF ResetDies
<1>19. QED
    BY <1>2, <1>3, <1>4, <1>5, <1>6, <1>7, <1>8, <1>9, <1>10, <1>11, <1>12, <1>13, <1>14, <1>15,
       <1>16, <1>17, <1>18 DEF AccountNext

(* A change of one field of a token's row.                                  *)
LEMMA TokenWritten ==
    ASSUME AccountTypeOK, NEW t \in Tokens,
           NEW s \in {"NONE", "PENDING", "VERIFIED", "EXPIRED", "FAILED"},
           token' = [token EXCEPT ![t].status = s]
    PROVE  /\ \A q \in Tokens : token'[q].status = IF q = t THEN s ELSE token[q].status
           /\ \A q \in Tokens : token'[q].user = token[q].user
<1>1. token \in [Tokens -> TokenRow]
    BY DEF AccountTypeOK
<1>2. QED
    BY <1>1 DEF TokenRow

(* What is known of reset tokens is kept.                                   *)
LEMMA TokensInHandStep ==
    ASSUME AccountTypeOK, TokensInHand, [AccountNext]_accountVars
    PROVE  TokensInHand'
<1> USE DEF TokensInHand, Spends
<1>1. /\ token \in [Tokens -> TokenRow]
      /\ forgot \in [Tokens -> {"idle", "superseded", "created", "sent", "failed"}]
      /\ reset \in [Resets -> {NoReset} \cup ResetCall]
      /\ renewed \in [Tokens -> Nat]
    BY DEF AccountTypeOK
<1>2. \A p \in Resets : reset[p].pc # "idle" => reset[p].token \in Tokens
    BY InHand DEF ResetCall
<1>3. CASE UNCHANGED <<token, forgot, reset, renewed>>
    BY <1>3
<1>4. ASSUME NEW t \in Tokens, NEW u \in Users, SupersedeTokens(t, u) PROVE TokensInHand'
  <2>1. \A s \in Tokens :
            /\ token'[s].status \in {token[s].status, "EXPIRED", "NONE"}
            /\ s # t => token'[s].user = token[s].user
            /\ s # t /\ token[s].status = "NONE" => token'[s].status = "NONE"
            /\ s = t => token'[s].status = "NONE" /\ token'[s].user = u
    BY <1>1, <1>4 DEF SupersedeTokens, TokenRow
  <2>2. \A p \in Resets : reset[p].pc # "idle" => reset[p].token # t
    BY <1>4 DEF SupersedeTokens
  <2>3. \A s \in Tokens : forgot'[s] = IF s = t THEN "superseded" ELSE forgot[s]
    BY <1>1, <1>4 DEF SupersedeTokens
  <2>4. UNCHANGED <<reset, renewed>> /\ renewed[t] = 0
    BY <1>4 DEF SupersedeTokens
  <2>5. QED
    BY <1>2, <2>1, <2>2, <2>3, <2>4
<1>5. ASSUME NEW t \in Tokens, CreateToken(t) PROVE TokensInHand'
  <2>1. /\ \A q \in Tokens : token'[q].status = IF q = t THEN "PENDING" ELSE token[q].status
        /\ \A q \in Tokens : token'[q].user = token[q].user
    BY <1>5, TokenWritten DEF CreateToken
  <2>2. \A s \in Tokens : forgot'[s] = IF s = t THEN "created" ELSE forgot[s]
    BY <1>1, <1>5 DEF CreateToken
  <2>3. \A p \in Resets : reset[p].pc # "idle" => reset[p].token # t
    BY <1>5 DEF CreateToken
  <2>4. UNCHANGED <<reset, renewed>> /\ renewed[t] = 0 /\ forgot[t] = "superseded"
    BY <1>5 DEF CreateToken
  <2>5. QED
    BY <1>2, <2>1, <2>2, <2>3, <2>4
<1>6. ASSUME NEW t \in Tokens, MailToken(t) PROVE TokensInHand'
  <2>1. \A s \in Tokens : forgot'[s] = IF s = t THEN "sent" ELSE forgot[s]
    BY <1>1, <1>6 DEF MailToken
  <2>2. UNCHANGED <<token, reset, renewed>> /\ forgot[t] = "created"
    BY <1>6 DEF MailToken
  <2>3. QED
    BY <1>2, <2>1, <2>2
<1>7. ASSUME NEW t \in Tokens, MailFails(t) PROVE TokensInHand'
  <2>1. /\ \A q \in Tokens : token'[q].status = IF q = t THEN "FAILED" ELSE token[q].status
        /\ \A q \in Tokens : token'[q].user = token[q].user
    BY <1>7, TokenWritten DEF MailFails
  <2>2. \A s \in Tokens : forgot'[s] = IF s = t THEN "failed" ELSE forgot[s]
    BY <1>1, <1>7 DEF MailFails
  <2>3. UNCHANGED <<reset, renewed>> /\ forgot[t] \in {"created", "sent"}
    BY <1>7 DEF MailFails
  <2>4. QED
    BY <1>2, <2>1, <2>2, <2>3
<1>8. ASSUME NEW p \in Resets, NEW t \in Tokens, ReadToken(p, t) PROVE TokensInHand'
  <2>1. CASE UNCHANGED reset
    <3>1. \A q \in Tokens : /\ token'[q].user = token[q].user
                            /\ \/ token'[q].status = token[q].status
                               \/ q = t /\ token'[q].status = "EXPIRED"
      <4> DEFINE s == IF token[t].status = "PENDING" THEN "EXPIRED" ELSE token[t].status
      <4>1. token' = [token EXCEPT ![t].status = s] \/ UNCHANGED token
        BY <1>8 DEF ReadToken
      <4>2. s \in {"NONE", "PENDING", "VERIFIED", "EXPIRED", "FAILED"} /\ s \in {token[t].status, "EXPIRED"}
        BY <1>1 DEF TokenRow
      <4> HIDE DEF s
      <4>3. CASE UNCHANGED token
        BY <4>3
      <4>4. CASE token' = [token EXCEPT ![t].status = s]
        BY <4>2, <4>4, TokenWritten
      <4>5. QED
        BY <4>1, <4>3, <4>4
    <3>2. UNCHANGED <<forgot, renewed>> /\ forgot[t] = "sent"
      BY <1>8 DEF ReadToken
    <3>3. QED
      BY <1>2, <2>1, <3>1, <3>2
  <2>2. CASE reset' = [reset EXCEPT ![p] = [pc |-> "read", token |-> t]] /\ UNCHANGED token
    <3>1. UNCHANGED <<forgot, renewed>> /\ forgot[t] = "sent"
      BY <1>8 DEF ReadToken
    <3>2. \A q \in Resets : reset'[q] = IF q = p THEN [pc |-> "read", token |-> t] ELSE reset[q]
      BY <1>1, <2>2
    <3>3. QED
      BY <2>2, <3>1, <3>2
  <2>3. QED
    BY <1>8, <2>1, <2>2 DEF ReadToken
<1>9. ASSUME NEW p \in Resets, SpendToken(p) PROVE TokensInHand'
  <2>1. reset[p] \in ResetCall /\ reset[p].pc = "read"
    BY <1>9, InHand DEF SpendToken
  <2>2. PICK t \in Tokens : t = reset[p].token
    BY <2>1 DEF ResetCall
  <2>3. UNCHANGED <<forgot, renewed>>
    BY <1>9 DEF SpendToken
  <2>4. CASE /\ token[t].status = "PENDING" /\ token' = [token EXCEPT ![t].status = "VERIFIED"]
             /\ reset' = [reset EXCEPT ![p].pc = "spent"]
    <3>1. /\ \A q \in Tokens : token'[q].status = IF q = t THEN "VERIFIED" ELSE token[q].status
          /\ \A q \in Tokens : token'[q].user = token[q].user
      BY <2>4, TokenWritten
    <3>2. [reset[p] EXCEPT !.pc = "spent"] = [pc |-> "spent", token |-> t]
      BY <2>1, <2>2 DEF ResetCall
    <3>3. \A q \in Resets : reset'[q] = IF q = p THEN [pc |-> "spent", token |-> t] ELSE reset[q]
      BY <1>1, <2>4, <3>2
    <3>4. renewed[t] = 0 /\ \A q \in Resets : ~Spends(q, t)
      BY <2>4
    <3>5. forgot[t] \in {"sent", "failed"}
      BY <2>1, <2>2
    <3>6. QED
      BY <2>3, <2>4, <3>1, <3>3, <3>4, <3>5
  <2>5. CASE reset' = [reset EXCEPT ![p] = NoReset] /\ UNCHANGED token
    <3>1. \A q \in Resets : reset'[q] = IF q = p THEN NoReset ELSE reset[q]
      BY <1>1, <2>5
    <3>2. QED
      BY <2>3, <2>5, <3>1 DEF NoReset
  <2>6. QED
    BY <1>9, <2>2, <2>4, <2>5 DEF SpendToken
<1>10. ASSUME NEW p \in Resets, SetPassword(p) PROVE TokensInHand'
  <2>1. reset[p] \in ResetCall /\ reset[p].pc = "spent"
    BY <1>10, InHand DEF SetPassword
  <2>2. PICK t \in Tokens : t = reset[p].token
    BY <2>1 DEF ResetCall
  <2>3. UNCHANGED <<forgot, token>>
    BY <1>10 DEF SetPassword
  <2>4. CASE /\ renewed' = [renewed EXCEPT ![t] = @ + 1]
             /\ reset' = [reset EXCEPT ![p].pc = "changed"]
    <3>1. [reset[p] EXCEPT !.pc = "changed"] = [pc |-> "changed", token |-> t]
      BY <2>1, <2>2 DEF ResetCall
    <3>2. \A q \in Resets : reset'[q] = IF q = p THEN [pc |-> "changed", token |-> t] ELSE reset[q]
      BY <1>1, <2>4, <3>1
    <3>3. Spends(p, t) /\ renewed[t] = 0 /\ forgot[t] \in {"sent", "failed"}
      BY <2>1, <2>2
    <3>4. token[t].status # "PENDING" /\ \A q \in Resets : Spends(q, t) => q = p
      BY <3>3
    <3>5. \A q \in Tokens : renewed'[q] = IF q = t THEN 1 ELSE renewed[q]
      BY <1>1, <2>4, <3>3
    <3>6. QED
      BY <1>2, <2>3, <3>2, <3>3, <3>4, <3>5
  <2>5. CASE reset' = [reset EXCEPT ![p] = NoReset] /\ UNCHANGED renewed
    <3>1. \A q \in Resets : reset'[q] = IF q = p THEN NoReset ELSE reset[q]
      BY <1>1, <2>5
    <3>2. QED
      BY <2>3, <2>5, <3>1 DEF NoReset
  <2>6. QED
    BY <1>10, <2>2, <2>4, <2>5 DEF SetPassword
<1>11. ASSUME NEW p \in Resets, DropSessions(p) \/ ResetDies(p) PROVE TokensInHand'
  <2>1. UNCHANGED <<forgot, token, renewed>> /\ reset' = [reset EXCEPT ![p] = NoReset]
    BY <1>11 DEF DropSessions, ResetDies
  <2>2. \A q \in Resets : reset'[q] = IF q = p THEN NoReset ELSE reset[q]
    BY <1>1, <2>1
  <2>3. QED
    BY <2>1, <2>2 DEF NoReset
<1>12. ASSUME NEW l \in Logins, NEW u \in Users, ReadUser(l, u) \/ OpenSession(l) \/ Logout(l)
       PROVE  TokensInHand'
    BY <1>3, <1>12 DEF ReadUser, OpenSession, Logout
<1>13. ASSUME NEW a \in AdminCalls, NEW by, NEW u, NEW change, ReadTarget(a, by, u, change)
       PROVE  TokensInHand'
    BY <1>3, <1>13 DEF ReadTarget
<1>14. ASSUME NEW a \in AdminCalls,
              TakeAdminAway(a) \/ ChangeUser(a) \/ PurgeSessions(a) \/ CallDies(a)
       PROVE  TokensInHand'
    BY <1>3, <1>14 DEF TakeAdminAway, ChangeUser, PurgeSessions, CallDies
<1>15. ASSUME NEW t \in Tokens, TokenExpires(t) PROVE TokensInHand'
    BY <1>3, <1>15 DEF TokenExpires
<1>16. CASE UNCHANGED accountVars
    BY <1>3, <1>16 DEF accountVars
<1>17. ASSUME NEW l \in Logins, OpenSession(l) \/ Logout(l) PROVE TokensInHand'
    BY <1>3, <1>17 DEF OpenSession, Logout
<1>18. QED
    BY <1>4, <1>5, <1>6, <1>7, <1>8, <1>9, <1>10, <1>11, <1>12, <1>13, <1>14, <1>15, <1>16, <1>17
       DEF AccountNext

(* Taking one of several away leaves another.                               *)
LEMMA AnotherRemains ==
    ASSUME NEW S, IsFiniteSet(S), Cardinality(S) > 1, NEW u
    PROVE  \E x \in S : x # u
<1>1. SUFFICES ASSUME S \subseteq {u} PROVE FALSE
    OBVIOUS
<1>2. Cardinality(S) <= Cardinality({u}) /\ Cardinality({u}) = 1 /\ Cardinality(S) \in Nat
    BY <1>1, FS_Subset, FS_Singleton, FS_CardinalityType
<1>3. QED
    BY <1>2

(* Only a change that takes away makes an admin none.                       *)
LEMMA AdminsKept ==
    ASSUME NEW row \in UserRow, NEW change \in Patches \cup {Delete}, ~TakesAway(change),
           row.there, row.active, row.role = "ADMIN"
    PROVE  LET new == Changed(row, change) IN new.there /\ new.active /\ new.role = "ADMIN"
<1>1. change \in Patches /\ change # Delete
    BY DEF TakesAway, Delete
<1>2. change.role \in {"keep", "ADMIN"} /\ change.active \in {"keep", "yes"}
    BY <1>1 DEF TakesAway, Patches
<1>3. QED
    BY <1>1, <1>2 DEF Changed, UserRow

(* An admin remains: the count under the lock is of the present rows.       *)
LEMMA AdminRemainsStep ==
    ASSUME AccountConstantsOK, AccountTypeOK, AdminRemains, [AccountNext]_accountVars
    PROVE  AdminRemains'
<1>1. /\ account \in [Users -> UserRow] /\ raced \in BOOLEAN
    BY DEF AccountTypeOK
<1>2. ASSUME UNCHANGED <<account, raced>> PROVE AdminRemains'
    BY <1>2 DEF AdminRemains, ActiveAdmins
<1>3. ASSUME NEW x \in ActiveAdmins, account'[x] = account[x] PROVE AdminRemains'
    BY <1>3 DEF AdminRemains, ActiveAdmins
<1>4. ASSUME NEW a \in AdminCalls, TakeAdminAway(a) PROVE AdminRemains'
  <2>1. call[a] \in AdminCall
    BY <1>4, InHand DEF TakeAdminAway
  <2>2. PICK u \in Users : u = call[a].user
    BY <2>1 DEF AdminCall
  <2>3. CASE Cardinality(ActiveAdmins) > 1 /\ account' = [account EXCEPT ![u] = Changed(@, call[a].change)]
    <3>1. IsFiniteSet(ActiveAdmins)
      BY FS_Subset DEF ActiveAdmins, AccountConstantsOK
    <3>2. PICK x \in ActiveAdmins : x # u
      BY <2>3, <3>1, AnotherRemains
    <3>3. account'[x] = account[x]
      BY <1>1, <2>3, <3>2
    <3>4. QED
      BY <1>3, <3>3
  <2>4. CASE UNCHANGED account
    BY <1>2, <1>4, <2>4 DEF TakeAdminAway
  <2>5. QED
    BY <1>4, <2>2, <2>3, <2>4 DEF TakeAdminAway
<1>5. ASSUME NEW a \in AdminCalls, ChangeUser(a) PROVE AdminRemains'
  <2>1. call[a] \in AdminCall
    BY <1>5, InHand DEF ChangeUser
  <2>2. PICK u \in Users, change \in Patches \cup {Delete} : u = call[a].user /\ change = call[a].change
    BY <2>1 DEF AdminCall
  <2>3. CASE UNCHANGED account
    <3>1. raced => raced'
      BY <1>5 DEF ChangeUser
    <3>2. QED
      BY <2>3, <3>1 DEF AdminRemains, ActiveAdmins
  <2>4. CASE account' = [account EXCEPT ![u] = Changed(@, change)] /\ ~UNCHANGED account
    <3>1. raced' = (raced \/ (u \in ActiveAdmins /\ TakesAway(change)))
      BY <1>5, <2>2 DEF ChangeUser
    <3>2. CASE raced'
      BY <3>2 DEF AdminRemains
    <3>3. CASE ~raced'
      <4>1. PICK x \in ActiveAdmins : TRUE
        BY <3>1, <3>3 DEF AdminRemains
      <4>2. CASE x = u
        <5>1. ~TakesAway(change)
          BY <3>1, <3>3, <4>1, <4>2
        <5>2. LET new == Changed(account[u], change) IN new.there /\ new.active /\ new.role = "ADMIN"
          BY <1>1, <2>2, <4>1, <4>2, <5>1, AdminsKept DEF ActiveAdmins
        <5>3. account'[u] = Changed(account[u], change)
          BY <1>1, <2>4
        <5>4. u \in ActiveAdmins'
          BY <5>2, <5>3 DEF ActiveAdmins
        <5>5. QED
          BY <5>4 DEF AdminRemains
      <4>3. CASE x # u
        <5>1. account'[x] = account[x]
          BY <1>1, <2>4, <4>1, <4>3
        <5>2. QED
          BY <1>3, <5>1
      <4>4. QED
        BY <4>2, <4>3
    <3>4. QED
      BY <3>2, <3>3
  <2>5. QED
    BY <1>5, <2>2, <2>3, <2>4 DEF ChangeUser
<1>6. ASSUME NEW p \in Resets, SetPassword(p) PROVE AdminRemains'
  <2>1. UNCHANGED raced
    BY <1>6 DEF SetPassword
  <2>2. \A x \in Users : /\ account'[x].there = account[x].there
                         /\ account'[x].active = account[x].active
                         /\ account'[x].role = account[x].role
    <3>1. CASE UNCHANGED account
      BY <3>1
    <3>2. CASE account' = [account EXCEPT ![token[reset[p].token].user].password = @ + 1]
      BY <1>1, <3>2 DEF UserRow
    <3>3. QED
      BY <1>6, <3>1, <3>2 DEF SetPassword
  <2>3. ActiveAdmins' = ActiveAdmins
    BY <2>2 DEF ActiveAdmins
  <2>4. QED
    BY <2>1, <2>3 DEF AdminRemains
<1>7. ASSUME NEW l \in Logins, NEW u \in Users, ReadUser(l, u) \/ OpenSession(l) \/ Logout(l)
      PROVE  AdminRemains'
    BY <1>2, <1>7 DEF ReadUser, OpenSession, Logout
<1>8. ASSUME NEW l \in Logins, OpenSession(l) \/ Logout(l) PROVE AdminRemains'
    BY <1>2, <1>8 DEF OpenSession, Logout
<1>9. ASSUME NEW a \in AdminCalls, NEW by, NEW u, NEW change, ReadTarget(a, by, u, change)
      PROVE  AdminRemains'
    BY <1>2, <1>9 DEF ReadTarget
<1>10. ASSUME NEW a \in AdminCalls, PurgeSessions(a) \/ CallDies(a) PROVE AdminRemains'
    BY <1>2, <1>10 DEF PurgeSessions, CallDies
<1>11. ASSUME NEW t \in Tokens, NEW u, SupersedeTokens(t, u) PROVE AdminRemains'
    BY <1>2, <1>11 DEF SupersedeTokens
<1>12. ASSUME NEW t \in Tokens, CreateToken(t) \/ MailToken(t) \/ MailFails(t) \/ TokenExpires(t)
       PROVE  AdminRemains'
    BY <1>2, <1>12 DEF CreateToken, MailToken, MailFails, TokenExpires
<1>13. ASSUME NEW p \in Resets, NEW t, ReadToken(p, t) PROVE AdminRemains'
    BY <1>2, <1>13 DEF ReadToken
<1>14. ASSUME NEW p \in Resets, SpendToken(p) \/ DropSessions(p) \/ ResetDies(p) PROVE AdminRemains'
    BY <1>2, <1>14 DEF SpendToken, DropSessions, ResetDies
<1>15. CASE UNCHANGED accountVars
    BY <1>2, <1>15 DEF accountVars
<1>16. QED
    BY <1>4, <1>5, <1>6, <1>7, <1>8, <1>9, <1>10, <1>11, <1>12, <1>13, <1>14, <1>15 DEF AccountNext

(* A session is old only with a reason that is still there: a change of     *)
(* the row that the session depends on leaves a call that owes its end.     *)
Explained(l) ==
    LET u == login[l].user IN
    \/ account[u].active /\ login[l].password = account[u].password
    \/ login[l].late \/ Owing(u) \/ u \in cut

(* Old sessions end: for every step, which sessions it leaves and why.      *)
LEMMA OldSessionsEndStep ==
    ASSUME AccountTypeOK, TokensInHand, OldSessionsEnd, [AccountNext]_accountVars
    PROVE  OldSessionsEnd'
<1>1. /\ account \in [Users -> UserRow]
      /\ login \in [Logins -> {NoLogin} \cup LoginCall]
      /\ call \in [AdminCalls -> {NoCall} \cup AdminCall]
      /\ token \in [Tokens -> TokenRow]
      /\ reset \in [Resets -> {NoReset} \cup ResetCall]
    BY DEF AccountTypeOK
<1>2. \A l \in Logins : login[l].pc = "open" => Explained(l)
    BY DEF OldSessionsEnd, Explained
<1>3. SUFFICES ASSUME NEW l \in Logins, login'[l].pc = "open" PROVE Explained(l)'
    BY DEF OldSessionsEnd, Explained
<1>4. ASSUME login'[l] = login[l],
             \/ account'[login[l].user] = account[login[l].user]
             \/ /\ account'[login[l].user].active = account[login[l].user].active
                /\ account'[login[l].user].password = account[login[l].user].password
             \/ Owing(login[l].user)',
             Owing(login[l].user) => Owing(login[l].user)' \/ login[l].user \in cut',
             cut \subseteq cut'
      PROVE  Explained(l)'
    BY <1>2, <1>3, <1>4 DEF Explained
<1>5. ASSUME UNCHANGED <<call, reset>>,
             \A p \in Resets : reset[p].pc = "changed" =>
                 token'[reset[p].token].user = token[reset[p].token].user
      PROVE  \A u : Owing(u)' <=> Owing(u)
    BY <1>5 DEF Owing
<1>6. ASSUME NEW k \in Logins, NEW u \in Users, ReadUser(k, u) PROVE Explained(l)'
  <2>1. login'[l] = login[l]
    BY <1>1, <1>6, <1>3 DEF ReadUser
  <2>2. QED
    BY <1>6, <1>4, <1>5, <2>1 DEF ReadUser
<1>7. ASSUME NEW k \in Logins, OpenSession(k) PROVE Explained(l)'
  <2>1. CASE k # l
    <3>1. login'[l] = login[l]
      BY <1>1, <1>7, <2>1 DEF OpenSession
    <3>2. QED
      BY <1>7, <1>4, <1>5, <3>1 DEF OpenSession
  <2>2. CASE k = l
    <3>1. login[l] \in LoginCall
      BY <1>7, <2>2, InHand DEF OpenSession
    <3>2. PICK u \in Users : u = login[l].user
      BY <3>1 DEF LoginCall
    <3> DEFINE late == ~account[u].active \/ account[u].password # login[l].password
    <3>3. login'[l] = [login[l] EXCEPT !.pc = "open", !.late = late]
      BY <1>1, <1>7, <1>3, <2>2, <3>2 DEF OpenSession, NoLogin
    <3> HIDE DEF late
    <3>4. login'[l].user = u /\ login'[l].password = login[l].password /\ login'[l].late = late
      BY <3>1, <3>2, <3>3 DEF LoginCall
    <3>5. UNCHANGED account
      BY <1>7 DEF OpenSession
    <3>6. QED
      BY <1>1, <3>2, <3>4, <3>5 DEF Explained, late, UserRow
  <2>3. QED
    BY <2>1, <2>2
<1>8. ASSUME NEW k \in Logins, Logout(k) PROVE Explained(l)'
  <2>1. login'[l] = login[l]
    BY <1>1, <1>8, <1>3 DEF Logout, NoLogin
  <2>2. QED
    BY <1>8, <1>4, <1>5, <2>1 DEF Logout
<1>9. ASSUME NEW a \in AdminCalls, NEW by, NEW u \in Users, NEW change \in Patches \cup {Delete},
             ReadTarget(a, by, u, change)
      PROVE  Explained(l)'
  <2>1. call[a].pc = "idle" /\ \A b \in AdminCalls : b # a => call'[b] = call[b]
    BY <1>1, <1>9 DEF ReadTarget
  <2>2. \A v : Owing(v) => Owing(v)'
    BY <1>9, <2>1 DEF Owing, ReadTarget
  <2>3. QED
    BY <1>9, <1>4, <2>2 DEF ReadTarget
<1>10. ASSUME NEW a \in AdminCalls, TakeAdminAway(a) PROVE Explained(l)'
  <2>1. call[a] \in AdminCall /\ call[a].pc = "guarded"
    BY <1>10, InHand DEF TakeAdminAway
  <2>2. \A v : Owing(v) => Owing(v)'
    BY <1>1, <1>10, <2>1 DEF Owing, TakeAdminAway
  <2>3. CASE UNCHANGED <<account, login>>
    BY <1>10, <1>4, <2>2, <2>3 DEF TakeAdminAway
  <2>4. CASE /\ account' = [account EXCEPT ![call[a].user] = Changed(@, call[a].change)]
             /\ EndSessions(call[a].user)
    <3>1. login'[l] = login[l] /\ login[l].user # call[a].user
      BY <1>3, <2>4, SessionsEnded
    <3>2. login[l].user \in Users
      BY <1>1, <1>3, <3>1 DEF LoginCall, NoLogin
    <3>3. account'[login[l].user] = account[login[l].user]
      BY <1>1, <2>4, <3>1, <3>2
    <3>4. QED
      BY <1>10, <1>4, <2>2, <3>1, <3>3 DEF TakeAdminAway
  <2>5. QED
    BY <1>10, <2>3, <2>4 DEF TakeAdminAway
<1>11. ASSUME NEW a \in AdminCalls, ChangeUser(a) PROVE Explained(l)'
  <2>1. call[a] \in AdminCall /\ call[a].pc = "plain"
    BY <1>11, InHand DEF ChangeUser
  <2>2. PICK u \in Users, change \in Patches \cup {Delete} : u = call[a].user /\ change = call[a].change
    BY <2>1 DEF AdminCall
  <2>3. \A v : Owing(v) => Owing(v)'
    BY <1>1, <1>11, <2>1 DEF Owing, ChangeUser
  <2>4. CASE UNCHANGED <<account, login>>
    BY <1>11, <1>4, <2>3, <2>4 DEF ChangeUser
  <2>5. CASE account' = [account EXCEPT ![u] = Changed(@, change)] /\ change = Delete /\ EndSessions(u)
    <3>1. login'[l] = login[l] /\ login[l].user # u
      BY <1>3, <2>5, SessionsEnded
    <3>2. login[l].user \in Users
      BY <1>1, <1>3, <3>1 DEF LoginCall, NoLogin
    <3>3. account'[login[l].user] = account[login[l].user]
      BY <1>1, <2>5, <3>1, <3>2
    <3>4. QED
      BY <1>11, <1>4, <2>3, <3>1, <3>3 DEF ChangeUser
  <2>6. CASE /\ account' = [account EXCEPT ![u] = Changed(@, change)]
             /\ change # Delete /\ UNCHANGED login
             /\ call' = [call EXCEPT ![a] =
                    IF change.active = "no" \/ change.role # "keep" \/ change.password
                    THEN [@ EXCEPT !.pc = "purge"] ELSE NoCall]
    <3>1. login[l].user \in Users
      BY <1>1, <1>3, <2>6 DEF LoginCall, NoLogin
    <3>2. CASE login[l].user # u
      <4>1. account'[login[l].user] = account[login[l].user]
        BY <1>1, <2>6, <3>1, <3>2
      <4>2. QED
        BY <1>11, <1>4, <2>3, <2>6, <4>1 DEF ChangeUser
    <3>3. CASE login[l].user = u /\ (change.active = "no" \/ change.role # "keep" \/ change.password)
      <4>1. call'[a] = [call[a] EXCEPT !.pc = "purge"]
        BY <1>1, <2>6, <3>3
      <4>2. call'[a].pc = "purge" /\ call'[a].user = u
        BY <2>1, <2>2, <4>1 DEF AdminCall
      <4>3. Owing(u)'
        BY <4>2 DEF Owing
      <4>4. QED
        BY <1>11, <1>4, <2>3, <2>6, <3>3, <4>3 DEF ChangeUser
    <3>4. CASE login[l].user = u /\ change.active # "no" /\ change.role = "keep" /\ ~change.password
      <4>1. account'[u] = Changed(account[u], change)
        BY <1>1, <2>6
      <4>2. change \in Patches
        BY <2>6
      <4>3. /\ account'[u].password = account[u].password
            /\ account[u].active => account'[u].active
        BY <1>1, <2>6, <3>4, <4>1, <4>2 DEF Changed, UserRow, Patches
      <4>4. Explained(l) /\ login'[l] = login[l] /\ UNCHANGED cut
        BY <1>2, <1>11, <1>3, <2>6 DEF ChangeUser
      <4>5. QED
        BY <2>3, <3>4, <4>3, <4>4 DEF Explained
    <3>5. QED
      BY <3>2, <3>3, <3>4
  <2>7. QED
    BY <1>11, <2>2, <2>4, <2>5, <2>6 DEF ChangeUser
<1>12. ASSUME NEW a \in AdminCalls, PurgeSessions(a) PROVE Explained(l)'
  <2>1. login'[l] = login[l] /\ login[l].user # call[a].user
    BY <1>12, <1>3, SessionsEnded DEF PurgeSessions
  <2>2. Owing(login[l].user) => Owing(login[l].user)'
    BY <1>1, <1>12, <2>1 DEF Owing, PurgeSessions
  <2>3. QED
    BY <1>12, <1>4, <2>1, <2>2 DEF PurgeSessions
<1>13. ASSUME NEW a \in AdminCalls, CallDies(a) PROVE Explained(l)'
  <2>1. \A v : Owing(v) => Owing(v)' \/ v \in cut'
    BY <1>1, <1>13 DEF Owing, CallDies
  <2>2. cut \subseteq cut'
    BY <1>13 DEF CallDies
  <2>3. QED
    BY <1>13, <1>4, <2>1, <2>2 DEF CallDies
<1>14. ASSUME NEW t \in Tokens, NEW u \in Users, SupersedeTokens(t, u) PROVE Explained(l)'
  <2>1. \A p \in Resets : reset[p].pc = "changed" => reset[p].token \in Tokens /\ reset[p].token # t
    BY <1>14, InHand DEF SupersedeTokens, TokensInHand, ResetCall
  <2>2. \A s \in Tokens : s # t => token'[s].user = token[s].user
    BY <1>1, <1>14 DEF SupersedeTokens, TokenRow
  <2>3. QED
    BY <1>14, <1>4, <1>5, <2>1, <2>2 DEF SupersedeTokens
<1>15. ASSUME NEW t \in Tokens, CreateToken(t) \/ MailToken(t) \/ MailFails(t) \/ TokenExpires(t)
       PROVE  Explained(l)'
  <2>1. \A s \in Tokens : token'[s].user = token[s].user
    BY <1>15, TokenWritten DEF CreateToken, MailToken, MailFails, TokenExpires
  <2>2. \A p \in Resets : reset[p].pc = "changed" => reset[p].token \in Tokens
    BY InHand DEF ResetCall
  <2>3. UNCHANGED <<account, login, call, reset, cut>>
    BY <1>15 DEF CreateToken, MailToken, MailFails, TokenExpires
  <2>4. QED
    BY <1>4, <1>5, <2>1, <2>2, <2>3
<1>16. ASSUME NEW p \in Resets, NEW t \in Tokens, ReadToken(p, t) PROVE Explained(l)'
  <2>1. \A q \in Resets : reset[q].pc = "changed" => reset'[q] = reset[q] /\ reset[q].token \in Tokens
    BY <1>1, <1>16, InHand DEF ReadToken, ResetCall
  <2>2. \A s \in Tokens : token'[s].user = token[s].user
    BY <1>1, <1>16 DEF ReadToken, TokenRow
  <2>3. UNCHANGED <<account, login, call, cut>>
    BY <1>16 DEF ReadToken
  <2>4. \A v : Owing(v) => Owing(v)'
    BY <2>1, <2>2, <2>3 DEF Owing
  <2>5. QED
    BY <1>4, <2>3, <2>4
<1>17. ASSUME NEW p \in Resets, SpendToken(p) PROVE Explained(l)'
  <2>1. reset[p] \in ResetCall /\ reset[p].pc = "read"
    BY <1>17, InHand DEF SpendToken
  <2>2. \A q \in Resets : reset[q].pc = "changed" => reset'[q] = reset[q] /\ reset[q].token \in Tokens
    BY <1>1, <1>17, <2>1, InHand DEF SpendToken, ResetCall
  <2>3. \A s \in Tokens : token'[s].user = token[s].user
    BY <1>1, <1>17, <2>1, TokenWritten DEF SpendToken, ResetCall
  <2>4. UNCHANGED <<account, login, call, cut>>
    BY <1>17 DEF SpendToken
  <2>5. \A v : Owing(v) => Owing(v)'
    BY <2>2, <2>3, <2>4 DEF Owing
  <2>6. QED
    BY <1>4, <2>4, <2>5
<1>18. ASSUME NEW p \in Resets, SetPassword(p) PROVE Explained(l)'
  <2>1. reset[p] \in ResetCall /\ reset[p].pc = "spent"
    BY <1>18, InHand DEF SetPassword
  <2>2. \A q \in Resets : reset[q].pc = "changed" => reset'[q] = reset[q]
    BY <1>1, <1>18, <2>1 DEF SetPassword
  <2>3. UNCHANGED <<login, call, token, cut>>
    BY <1>18 DEF SetPassword
  <2>4. \A v : Owing(v) => Owing(v)'
    BY <2>2, <2>3 DEF Owing
  <2>5. CASE UNCHANGED account
    BY <1>4, <2>3, <2>4, <2>5
  <2>6. CASE /\ account' = [account EXCEPT ![token[reset[p].token].user].password = @ + 1]
             /\ reset' = [reset EXCEPT ![p].pc = "changed"]
    <3>1. reset'[p].pc = "changed" /\ reset'[p].token = reset[p].token
      BY <1>1, <2>1, <2>6 DEF ResetCall
    <3>2. PICK u : u = token[reset[p].token].user
      OBVIOUS
    <3>3. Owing(u)'
      BY <2>3, <3>2, <3>1 DEF Owing
    <3>4. login[l].user \in Users
      BY <1>1, <1>3, <2>3 DEF LoginCall, NoLogin
    <3>5. login[l].user # u => account'[login[l].user] = account[login[l].user]
      BY <1>1, <2>6, <3>2, <3>4
    <3>6. login[l].user = u => Owing(login[l].user)'
      BY <2>3, <3>3
    <3>7. QED
      BY <1>4, <2>3, <2>4, <3>5, <3>6
  <2>7. QED
    BY <1>18, <2>5, <2>6 DEF SetPassword
<1>19. ASSUME NEW p \in Resets, DropSessions(p) PROVE Explained(l)'
  <2>1. login'[l] = login[l] /\ login[l].user # token[reset[p].token].user
    BY <1>19, <1>3, SessionsEnded DEF DropSessions
  <2>2. Owing(login[l].user) => Owing(login[l].user)'
    BY <1>1, <1>19, <2>1 DEF Owing, DropSessions
  <2>3. QED
    BY <1>19, <1>4, <2>1, <2>2 DEF DropSessions
<1>20. ASSUME NEW p \in Resets, ResetDies(p) PROVE Explained(l)'
  <2>1. \A v : Owing(v) => Owing(v)' \/ v \in cut'
    BY <1>1, <1>20 DEF Owing, ResetDies
  <2>2. cut \subseteq cut'
    BY <1>20 DEF ResetDies
  <2>3. QED
    BY <1>20, <1>4, <2>1, <2>2 DEF ResetDies
<1>21. CASE UNCHANGED accountVars
    BY <1>4, <1>5, <1>21 DEF accountVars
<1>22. QED
    BY <1>6, <1>7, <1>8, <1>9, <1>10, <1>11, <1>12, <1>13, <1>14, <1>15, <1>16, <1>17, <1>18, <1>19,
       <1>20, <1>21 DEF AccountNext

(* The inductive invariant of accounts.                                     *)
THEOREM AccountsInvariantHolds ==
    ASSUME AccountConstantsOK
    PROVE  AccountSpec => []AccountInv
<1>1. AccountInit => AccountInv
  <2> SUFFICES ASSUME AccountInit PROVE AccountInv
    OBVIOUS
  <2>1. account \in [Users -> UserRow]
    BY DEF AccountInit, UserRow, AccountConstantsOK
  <2>2. AccountTypeOK
    BY <2>1 DEF AccountInit, AccountTypeOK, TokenRow, NoLogin, NoCall, NoReset
  <2>3. FirstAdmin \in ActiveAdmins
    BY DEF AccountInit, ActiveAdmins, AccountConstantsOK
  <2>4. TokensInHand
    BY DEF AccountInit, TokensInHand, Spends, NoReset
  <2>5. OldSessionsEnd
    BY DEF AccountInit, OldSessionsEnd, NoLogin
  <2>6. QED
    BY <2>2, <2>3, <2>4, <2>5 DEF AccountInv, AdminRemains
<1>2. AccountInv /\ [AccountNext]_accountVars => AccountInv'
    BY AccountTypeStep, AdminRemainsStep, TokensInHandStep, OldSessionsEndStep DEF AccountInv
<1>3. QED
    BY <1>1, <1>2, PTL DEF AccountSpec

-----------------------------------------------------------------------------
(* What the codes and the accounts promise.                                 *)

(* A code is accepted once, for any number of requests and checks: the      *)
(* write that accepts it finds it pending, and nothing makes it so again.   *)
THEOREM CodesAreUsedOnce ==
    ASSUME OtpConstantsOK
    PROVE  OtpSpec => []UsedOnce
<1>1. OtpInv => UsedOnce
    BY DEF OtpInv, AcceptedIsClosed, UsedOnce
<1>2. QED
    BY <1>1, CodesInvariantHolds, PTL

(* Wrong guesses exceed their limit only by the checks that are under way.  *)
THEOREM WrongGuessesAreLimited ==
    ASSUME OtpConstantsOK
    PROVE  OtpSpec => []GuessesAreLimited
<1>1. OtpInv => GuessesAreLimited
  <2>1. ASSUME OtpInv, NEW c \in Requests
        PROVE  code[c].attempts <= MaxAttempts + Cardinality(Checks) - 1
    <3>1. code[c].attempts \in Nat
      BY <2>1 DEF OtpInv, OtpTypeOK
    <3>2. MaxAttempts \in Nat
      BY DEF OtpConstantsOK
    <3>3. QED
      BY <2>1, <3>1, <3>2, CountingSize DEF OtpInv, GuessesCovered
  <2>2. QED
    BY <2>1 DEF GuessesAreLimited
<1>2. QED
    BY <1>1, CodesInvariantHolds, PTL

(* The code that is accepted is the newest, for any number of requests and  *)
(* checks at once: who verifies one finds it pending, and only the last is. *)
THEOREM TheNewestWins ==
    ASSUME OtpConstantsOK
    PROVE  OtpSpec => NewestWins
<1>1. OtpInv /\ [OtpNext]_otpVars => [NewestIsAccepted]_otpVars
  <2> SUFFICES ASSUME OtpInv, OtpNext, NEW c \in Requests,
                      code[c].status # "VERIFIED", code'[c].status = "VERIFIED"
               PROVE  c = made[Len(made)] \/ crossed
    BY DEF NewestIsAccepted
  <2>1. OtpTypeOK /\ OnePending
    BY DEF OtpInv
  <2>2. code \in [Requests -> [status : {"NONE", "PENDING", "VERIFIED", "EXPIRED", "FAILED"},
                              attempts : Nat]]
    BY <2>1 DEF OtpTypeOK
  <2>3. ASSUME NEW r \in Requests, Supersede(r) \/ Create(r) PROVE FALSE
    BY <2>2, <2>3 DEF Supersede, Create, Pending
  <2>4. ASSUME NEW r \in Requests, MarkFailed(r) PROVE FALSE
    BY <2>1, <2>4, StatusWritten DEF MarkFailed
  <2>5. ASSUME NEW v \in Checks, NEW write \in {"expire", "lock"}, NEW s \in {"EXPIRED", "FAILED"},
               Close(v, write, s)
        PROVE  FALSE
    BY <2>1, <2>5, OwesOf, StatusWritten DEF Close, Idle
  <2>6. ASSUME NEW v \in Checks, Count(v) PROVE FALSE
    BY <2>1, <2>6, OwesOf, GuessCounted DEF Count, Idle
  <2>7. ASSUME NEW v \in Checks, Verify(v) PROVE c = made[Len(made)] \/ crossed
    <3>1. check[v].of \in Requests
      BY <2>1, <2>7, OwesOf DEF Verify, Idle
    <3>2. check[v].of \in Pending /\ SetStatus(check[v].of, "VERIFIED")
      BY <2>7 DEF Verify
    <3>3. c = check[v].of
      BY <2>1, <3>1, <3>2, StatusWritten
    <3>4. QED
      BY <2>1, <3>2, <3>3 DEF OnePending
  <2>8. UNCHANGED code \/ c = made[Len(made)] \/ crossed
    BY <2>3, <2>4, <2>5, <2>6, <2>7
       DEF OtpNext, Sent, SendFails, Expires, RequestDies, Read, CheckDies
  <2>9. QED
    BY <2>8
<1>2. QED
    BY <1>1, CodesInvariantHolds, PTL DEF OtpSpec, NewestWins

(* A reset token changes a password once, however many calls hold it.       *)
THEOREM TokensAreSpentOnce ==
    ASSUME AccountConstantsOK
    PROVE  AccountSpec => []TokenSpentOnce
<1>1. AccountInv => TokenSpentOnce
    BY DEF AccountInv, TokensInHand, TokenSpentOnce
<1>2. QED
    BY <1>1, AccountsInvariantHolds, PTL

(* An active admin remains, however many calls remove admins at once.       *)
THEOREM AnAdminRemains ==
    ASSUME AccountConstantsOK
    PROVE  AccountSpec => []AdminRemains
<1>1. AccountInv => AdminRemains
    BY DEF AccountInv
<1>2. QED
    BY <1>1, AccountsInvariantHolds, PTL

(* No session of an older password or a disabled user is left without a     *)
(* call that owes its end.                                                  *)
THEOREM SessionsEndWithTheirPassword ==
    ASSUME AccountConstantsOK
    PROVE  AccountSpec => []OldSessionsEnd
<1>1. AccountInv => OldSessionsEnd
    BY DEF AccountInv
<1>2. QED
    BY <1>1, AccountsInvariantHolds, PTL

-----------------------------------------------------------------------------
(* Consent and suppression (Consent).                                       *)

(* What a list of statements may be: what follows a suppression comes       *)
(* behind it, and the contact is told right after it.                       *)
Proper(q) ==
    /\ q \in Seq(Statements)
    /\ \A i \in 1..Len(q) :
          /\ q[i].does \in {"cascade", "mark", "return"} => \E j \in 1..(i - 1) : q[j].does = "bar"
          /\ q[i].does = "bar" => i + 1 \in 1..Len(q) /\ q[i + 1].does = "cascade"

(* The same for what is left of it, once the suppression was written or was *)
(* lifted meanwhile.                                                        *)
StatementsTied ==
    \A o \in Ops : \A i \in 1..Len(op[o]) :
        /\ op[o][i].does \in {"cascade", "mark", "return"} =>
               o \in lifted \/ barred.there \/ \E j \in 1..(i - 1) : op[o][j].does = "bar"
        /\ op[o][i].does = "bar" => i + 1 \in 1..Len(op[o]) /\ op[o][i + 1].does = "cascade"

ReturnedIsBarred == out => barred.there

(* The address is suppressed, or a mail was looked at while it was.         *)
Watched == barred.there \/ \E s \in Sends : send[s].phase = "looked" /\ send[s].late

(* The consent of a suppressed address has an explanation, also after the   *)
(* suppression was lifted as long as such a mail is under way.              *)
ConsentExplained == Watched /\ contact.there /\ contact.consent => why # "nothing" \/ Untold

(* A mail that passed its look after an opt-out was misspelt.               *)
LooksTrue ==
    \A s \in Sends : send[s].phase = "looked" =>
        send[s].kind = "promotional" /\ (send[s].late => send[s].misspelt)

ConsentInv ==
    /\ ConsentTypeOK /\ StatementsTied /\ ReturnedIsBarred
    /\ ConsentExplained /\ LooksTrue /\ OptOutHonoured

(* What a statement carries.                                                *)
LEMMA StatementFields ==
    ASSUME NEW x \in Statements
    PROVE  /\ x.does \in {"off", "cascade", "mark"} => x.status \in Statuses
           /\ x.does = "bar" => x.as \in Spellings
           /\ x.does = "write" => x.consent \in Choice /\ x.status \in Statuses \cup {"keep"}
           /\ x.does = "copy" => x.agreed \in BOOLEAN /\ x.said \in BOOLEAN
           /\ x.does = "insert" => x.agreed \in BOOLEAN /\ x.as \in Spellings
    BY DEF Statements, Return

(* The statements that operations are made of.                              *)
LEMMA StatementsMade ==
    /\ \A status \in Statuses : /\ Off(status) \in Statements /\ Cascade(status) \in Statements
                                /\ Mark(status) \in Statements
    /\ \A as \in Spellings : Bar(as) \in Statements
    /\ Return \in Statements
    /\ \A consent \in Choice, status \in Statuses \cup {"keep"} : Write(consent, status) \in Statements
    /\ \A agreed, said \in BOOLEAN : Copy(agreed, said) \in Statements
    /\ \A agreed \in BOOLEAN, as \in Spellings : Insert(agreed, as) \in Statements
    BY DEF Statements, Off, Cascade, Mark, Bar, Return, Write, Copy, Insert

(* One statement that is neither a suppression nor what follows one.        *)
LEMMA OneStatement ==
    ASSUME NEW x \in Statements, x.does \in {"write", "copy", "insert"}
    PROVE  Proper(<<x>>)
    BY DEF Proper

(* Lists of three and four statements.                                      *)
LEMMA ListOfFour ==
    ASSUME NEW S, NEW a \in S, NEW b \in S, NEW c \in S, NEW d \in S
    PROVE  <<a, b, c, d>> \in Seq(S)
    OBVIOUS

LEMMA ListOfThree ==
    ASSUME NEW S, NEW a \in S, NEW b \in S, NEW c \in S
    PROVE  <<a, b, c>> \in Seq(S)
    OBVIOUS

(* Suppressing, from wherever it is done.                                   *)
LEMMA SuppressingStatements ==
    ASSUME NEW as \in Spellings, NEW status \in Statuses, NEW told \in Statuses
    PROVE  /\ Proper(<<Off(status), Bar(as), Cascade(status), Return>>)
           /\ Proper(<<Bar(as), Cascade(told), Mark(status), Return>>)
           /\ Proper(<<Bar(as), Cascade(told), Return>>)
<1>1. /\ Off(status) \in Statements /\ Bar(as) \in Statements /\ Cascade(status) \in Statements
      /\ Cascade(told) \in Statements /\ Mark(status) \in Statements /\ Return \in Statements
    BY StatementsMade
<1>2. PICK q : q = <<Off(status), Bar(as), Cascade(status), Return>>
    OBVIOUS
<1>3. PICK r : r = <<Bar(as), Cascade(told), Mark(status), Return>>
    OBVIOUS
<1>4. PICK s : s = <<Bar(as), Cascade(told), Return>>
    OBVIOUS
<1>5. Proper(q)
  <2>1. q \in Seq(Statements)
    BY <1>1, <1>2, ListOfFour
  <2>2. Len(q) = 4 /\ q[1].does = "off" /\ q[2].does = "bar" /\ q[3].does = "cascade" /\ q[4].does = "return"
    BY <1>2 DEF Off, Bar, Cascade, Return
  <2>3. \A i \in 1..Len(q) : i \in {1, 2, 3, 4}
    BY <2>2
  <2>4. QED
    BY <2>1, <2>2, <2>3 DEF Proper
<1>6. Proper(r)
  <2>1. r \in Seq(Statements)
    BY <1>1, <1>3, ListOfFour
  <2>2. Len(r) = 4 /\ r[1].does = "bar" /\ r[2].does = "cascade" /\ r[3].does = "mark" /\ r[4].does = "return"
    BY <1>3 DEF Mark, Bar, Cascade, Return
  <2>3. \A i \in 1..Len(r) : i \in {1, 2, 3, 4}
    BY <2>2
  <2>4. QED
    BY <2>1, <2>2, <2>3 DEF Proper
<1>7. Proper(s)
  <2>1. s \in Seq(Statements)
    BY <1>1, <1>4, ListOfThree
  <2>2. Len(s) = 3 /\ s[1].does = "bar" /\ s[2].does = "cascade" /\ s[3].does = "return"
    BY <1>4 DEF Bar, Cascade, Return
  <2>3. \A i \in 1..Len(s) : i \in {1, 2, 3}
    BY <2>2
  <2>4. QED
    BY <2>1, <2>2, <2>3 DEF Proper
<1>8. QED
    BY <1>2, <1>3, <1>4, <1>5, <1>6, <1>7

(* Whatever is begun is proper.                                             *)
LEMMA BegunIsProper ==
    ASSUME ConsentTypeOK, NEW o \in Ops, NEW as \in Spellings
    PROVE  /\ Unsubscribe(o) => \E q : Proper(q) /\ Undertake(o, q)
           /\ \A status \in {"SUPPRESSED", "UNSUBSCRIBED"} :
                 Report(o, as, status) => \E q : Proper(q) /\ Undertake(o, q)
           /\ AddSuppression(o, as) => \E q : Proper(q) /\ Undertake(o, q)
           /\ \A consent \in Choice, status \in {"keep", "SUBSCRIBED"} :
                 UpdateContact(o, consent, status) => \E q : Proper(q) /\ Undertake(o, q)
           /\ \A consent \in Choice :
                 ImportContact(o, consent, as) => \E q : Proper(q) /\ Undertake(o, q)
           /\ \A consent \in BOOLEAN :
                 CreateContact(o, consent, as) => \E q : Proper(q) /\ Undertake(o, q)
<1>1. {"SUPPRESSED", "UNSUBSCRIBED", "SUBSCRIBED"} \subseteq Statuses
    BY DEF Statuses
<1>2. contact.as \in Spellings /\ contact.consent \in BOOLEAN
    BY DEF ConsentTypeOK
<1>3. Unsubscribe(o) => \E q : Proper(q) /\ Undertake(o, q)
    BY <1>1, <1>2, SuppressingStatements DEF Unsubscribe
<1>4. ASSUME NEW status \in {"SUPPRESSED", "UNSUBSCRIBED"}, Report(o, as, status)
      PROVE  \E q : Proper(q) /\ Undertake(o, q)
  <2> DEFINE told == IF status = "UNSUBSCRIBED" THEN status ELSE "SUPPRESSED"
  <2>1. told \in Statuses /\ status \in Statuses
    BY <1>1
  <2>2. Undertake(o, <<Bar(as), Cascade(told), Mark(status), Return>>)
    BY <1>4 DEF Report
  <2> HIDE DEF told
  <2>3. QED
    BY <2>1, <2>2, SuppressingStatements
<1>5. AddSuppression(o, as) => \E q : Proper(q) /\ Undertake(o, q)
    BY <1>1, SuppressingStatements DEF AddSuppression
<1>6. ASSUME NEW consent \in Choice, NEW status \in {"keep", "SUBSCRIBED"},
             UpdateContact(o, consent, status)
      PROVE  \E q : Proper(q) /\ Undertake(o, q)
  <2> DEFINE said == CASE consent = "yes" /\ ~ contact.consent -> "SUBSCRIBED"
                       [] consent = "no" /\ contact.consent -> "UNSUBSCRIBED"
                       [] OTHER -> status
  <2>1. said \in Statuses \cup {"keep"}
    BY <1>1
  <2>2. Undertake(o, <<Write(consent, said)>>)
    BY <1>6 DEF UpdateContact
  <2> HIDE DEF said
  <2>3. Write(consent, said) \in Statements /\ Write(consent, said).does = "write"
    BY <2>1, StatementsMade DEF Write
  <2>4. QED
    BY <2>2, <2>3, OneStatement
<1>7. ASSUME NEW consent \in Choice, ImportContact(o, consent, as)
      PROVE  \E q : Proper(q) /\ Undertake(o, q)
  <2> DEFINE agreed == IF consent = "keep" THEN contact.consent ELSE consent = "yes"
             said == consent # "keep"
             wants == consent = "yes"
             x == IF contact.there THEN Copy(agreed, said) ELSE Insert(wants, as)
  <2>1. agreed \in BOOLEAN /\ said \in BOOLEAN /\ wants \in BOOLEAN
    BY <1>2
  <2>2. Undertake(o, <<x>>)
    BY <1>7 DEF ImportContact
  <2> HIDE DEF agreed, said, wants
  <2>3. x \in Statements /\ x.does \in {"copy", "insert"}
    BY <2>1, StatementsMade DEF Copy, Insert
  <2> HIDE DEF x
  <2>4. QED
    BY <2>2, <2>3, OneStatement
<1>8. ASSUME NEW consent \in BOOLEAN, CreateContact(o, consent, as)
      PROVE  \E q : Proper(q) /\ Undertake(o, q)
  <2>1. Insert(consent, as) \in Statements /\ Insert(consent, as).does = "insert"
    BY StatementsMade DEF Insert
  <2>2. QED
    BY <1>8, <2>1, OneStatement DEF CreateContact
<1>9. QED
    BY <1>3, <1>4, <1>5, <1>6, <1>7, <1>8

(* The next statement and what is left behind it.                           *)
LEMMA NextStatement ==
    ASSUME ConsentTypeOK, NEW o \in Ops, op[o] # <<>>
    PROVE  /\ Head(op[o]) = op[o][1] /\ op[o][1] \in Statements /\ 1 \in 1..Len(op[o])
           /\ Tail(op[o]) \in Seq(Statements) /\ Len(Tail(op[o])) = Len(op[o]) - 1
           /\ Len(op[o]) \in Nat
           /\ \A i \in 1..(Len(op[o]) - 1) : Tail(op[o])[i] = op[o][i + 1]
<1>1. op[o] \in Seq(Statements)
    BY DEF ConsentTypeOK
<1>2. QED
    BY <1>1

(* Beginning an operation.                                                  *)
LEMMA UndertakeStep ==
    ASSUME ConsentConstantsOK, ConsentInv, NEW o \in Ops, NEW q, Proper(q), Undertake(o, q)
    PROVE  ConsentInv'
<1> USE DEF ConsentInv
<1>1. /\ op' = [op EXCEPT ![o] = q] /\ q \in Seq(Statements) /\ op[o] = <<>>
      /\ lifted' = lifted \ {o} /\ UNCHANGED <<contact, barred, send, out, why>>
    BY DEF Undertake, Proper
<1>2. op \in [Ops -> Seq(Statements)]
    BY DEF ConsentTypeOK
<1>3. \A p \in Ops : op'[p] = IF p = o THEN q ELSE op[p]
    BY <1>1, <1>2
<1>4. ConsentTypeOK'
  <2>1. op' \in [Ops -> Seq(Statements)]
    BY <1>1, <1>2
  <2>2. begun' \in 0..MaxOps /\ lifted' \subseteq Ops
    BY DEF Undertake, ConsentTypeOK, ConsentConstantsOK
  <2>3. QED
    BY <1>1, <2>1, <2>2 DEF ConsentTypeOK
<1>5. StatementsTied'
  <2> SUFFICES ASSUME NEW p \in Ops, NEW i \in 1..Len(op'[p])
               PROVE  /\ op'[p][i].does \in {"cascade", "mark", "return"} =>
                            p \in lifted' \/ barred'.there \/ \E j \in 1..(i - 1) : op'[p][j].does = "bar"
                      /\ op'[p][i].does = "bar" => i + 1 \in 1..Len(op'[p]) /\ op'[p][i + 1].does = "cascade"
    BY DEF StatementsTied
  <2>1. CASE p = o
    BY <1>3, <2>1 DEF Proper
  <2>2. CASE p # o
    BY <1>1, <1>3, <2>2 DEF StatementsTied
  <2>3. QED
    BY <2>1, <2>2
<1>6. Untold => Untold'
    BY <1>1, <1>3 DEF Untold, Says
<1>7. ReturnedIsBarred' /\ ConsentExplained' /\ LooksTrue' /\ OptOutHonoured'
    BY <1>1, <1>6 DEF ReturnedIsBarred, ConsentExplained, Watched, LooksTrue, OptOutHonoured
<1>8. QED
    BY <1>4, <1>5, <1>7

(* Making a statement: what is left of the operation stays proper when a    *)
(* suppression that is made is there, and so is what it had still to tell.  *)
LEMMA MadeStep ==
    ASSUME ConsentTypeOK, StatementsTied, NEW o \in Ops, op[o] # <<>>, Made(o),
           barred.there => barred'.there, op[o][1].does = "bar" => barred'.there
    PROVE  /\ op' \in [Ops -> Seq(Statements)]
           /\ StatementsTied'
           /\ Untold => Untold' \/ op[o][1].does = "cascade"
           /\ op[o][1].does = "bar" => Untold'
<1>1. op \in [Ops -> Seq(Statements)] /\ UNCHANGED <<send, begun, lifted>>
    BY DEF ConsentTypeOK, Made
<1>2. \A p \in Ops : op'[p] = IF p = o THEN Tail(op[o]) ELSE op[p]
    BY <1>1 DEF Made
<1>3. op' \in [Ops -> Seq(Statements)]
    BY <1>1, NextStatement DEF Made
<1>4. /\ Len(op[o]) \in Nat /\ Len(op'[o]) = Len(op[o]) - 1
      /\ \A i \in 1..(Len(op[o]) - 1) : op'[o][i] = op[o][i + 1]
    BY <1>2, NextStatement
<1>5. StatementsTied'
  <2> SUFFICES ASSUME NEW p \in Ops, NEW i \in 1..Len(op'[p])
               PROVE  /\ op'[p][i].does \in {"cascade", "mark", "return"} =>
                            p \in lifted \/ barred'.there \/ \E j \in 1..(i - 1) : op'[p][j].does = "bar"
                      /\ op'[p][i].does = "bar" => i + 1 \in 1..Len(op'[p]) /\ op'[p][i + 1].does = "cascade"
    BY <1>1 DEF StatementsTied
  <2>1. CASE p # o
    BY <1>2, <2>1 DEF StatementsTied
  <2>2. CASE p = o
    <3>1. Len(op[o]) \in Nat /\ i \in 1..(Len(op[o]) - 1) /\ op'[p][i] = op[o][i + 1]
      BY <1>4, <2>2
    <3>2. i + 1 \in 1..Len(op[o])
      BY <3>1
    <3>3. ASSUME op'[p][i].does = "bar"
          PROVE  i + 1 \in 1..Len(op'[p]) /\ op'[p][i + 1].does = "cascade"
      <4>1. i + 2 \in 1..Len(op[o]) /\ op[o][i + 2].does = "cascade"
        BY <3>1, <3>2, <3>3 DEF StatementsTied
      <4>2. op'[p][i + 1] = op[o][i + 2]
        BY <1>4, <2>2, <3>1, <4>1
      <4>3. QED
        BY <1>4, <2>2, <3>1, <4>1, <4>2
    <3>4. ASSUME op'[p][i].does \in {"cascade", "mark", "return"}
          PROVE  p \in lifted \/ barred'.there \/ \E j \in 1..(i - 1) : op'[p][j].does = "bar"
      <4>1. o \in lifted \/ barred.there \/ \E j \in 1..i : op[o][j].does = "bar"
        BY <3>1, <3>2, <3>4 DEF StatementsTied
      <4>2. ASSUME NEW j \in 1..i, op[o][j].does = "bar"
            PROVE  barred'.there \/ \E k \in 1..(i - 1) : op'[p][k].does = "bar"
        <5>1. CASE j = 1
          BY <4>2, <5>1
        <5>2. CASE j # 1
          <6>1. j - 1 \in 1..(i - 1) /\ j - 1 \in 1..(Len(op[o]) - 1)
            BY <3>1, <5>2
          <6>2. op'[p][j - 1] = op[o][j]
            BY <1>4, <2>2, <3>1, <6>1
          <6>3. QED
            BY <4>2, <6>1, <6>2
        <5>3. QED
          BY <5>1, <5>2
      <4>3. QED
        BY <2>2, <4>1, <4>2
    <3>5. QED
      BY <3>3, <3>4
  <2>3. QED
    BY <2>1, <2>2
<1>6. ASSUME Untold, op[o][1].does # "cascade" PROVE Untold'
    BY <1>2, <1>6, NextStatement DEF Untold, Says
<1>7. ASSUME op[o][1].does = "bar" PROVE Untold'
  <2>1. 2 \in 1..Len(op[o]) /\ op[o][2].does = "cascade"
    BY <1>7, NextStatement DEF StatementsTied
  <2>2. op'[o] # <<>> /\ Head(op'[o]) = op[o][2]
    BY <1>2, <1>3, <2>1, NextStatement
  <2>3. QED
    BY <2>1, <2>2 DEF Untold, Says
<1>8. QED
    BY <1>3, <1>5, <1>6, <1>7

(* Each statement keeps the invariant.                                      *)
LEMMA StatementSteps ==
    ASSUME ConsentInv, NEW o \in Ops,
           \/ TakeConsent(o) \/ WriteSuppression(o) \/ OptOutReturns(o) \/ WriteContact(o)
           \/ CopyConsent(o) \/ InsertContact(o) \/ SwallowError(o)
    PROVE  ConsentInv'
<1>1. ConsentTypeOK /\ StatementsTied /\ ReturnedIsBarred /\ ConsentExplained /\ LooksTrue /\ OptOutHonoured
    BY DEF ConsentInv
<1>2. op[o] # <<>> /\ Made(o)
    BY DEF TakeConsent, WriteSuppression, OptOutReturns, WriteContact, CopyConsent, InsertContact,
           SwallowError, Says
<1>3. Head(op[o]) = op[o][1] /\ op[o][1] \in Statements /\ 1 \in 1..Len(op[o])
    BY <1>1, <1>2, NextStatement
<1>4. UNCHANGED <<send, begun, lifted>>
    BY <1>2 DEF Made
<1>5. /\ contact \in [there : BOOLEAN, consent : BOOLEAN, status : Statuses, as : Spellings]
      /\ barred \in [there : BOOLEAN, as : Spellings]
      /\ out \in BOOLEAN /\ why \in {"nothing", "granted", "torn", "missed"}
    BY <1>1 DEF ConsentTypeOK
<1>6. LooksTrue' /\ OptOutHonoured'
    BY <1>1, <1>4 DEF LooksTrue, OptOutHonoured
<1>7. SUFFICES /\ contact' \in [there : BOOLEAN, consent : BOOLEAN, status : Statuses, as : Spellings]
               /\ barred' \in [there : BOOLEAN, as : Spellings]
               /\ out' \in BOOLEAN /\ why' \in {"nothing", "granted", "torn", "missed"}
               /\ barred.there => barred'.there
               /\ op[o][1].does = "bar" => barred'.there
               /\ ReturnedIsBarred' /\ ConsentExplained'
  <2>1. op' \in [Ops -> Seq(Statements)] /\ StatementsTied'
    BY <1>1, <1>2, <1>7, MadeStep
  <2>2. ConsentTypeOK'
    BY <1>1, <1>4, <1>7, <2>1 DEF ConsentTypeOK
  <2>3. QED
    BY <1>6, <1>7, <2>1, <2>2 DEF ConsentInv
<1>8. ASSUME barred.there => barred'.there, op[o][1].does = "bar" => barred'.there
      PROVE  /\ Untold => Untold' \/ op[o][1].does = "cascade"
             /\ op[o][1].does = "bar" => Untold'
    BY <1>1, <1>2, <1>8, MadeStep
<1>9. CASE TakeConsent(o)
  <2>1. op[o][1].does \in {"off", "cascade", "mark"} /\ UNCHANGED <<barred, out>>
    BY <1>3, <1>9 DEF TakeConsent, Says
  <2>2. op[o][1].status \in Statuses
    BY <1>3, <2>1, StatementFields
  <2>3. /\ contact' \in [there : BOOLEAN, consent : BOOLEAN, status : Statuses, as : Spellings]
        /\ contact'.there => ~contact'.consent
        /\ why' = "nothing"
    BY <1>3, <1>5, <1>9, <2>2 DEF TakeConsent
  <2>4. QED
    BY <1>1, <1>5, <2>1, <2>3 DEF ReturnedIsBarred, ConsentExplained
<1>10. CASE WriteSuppression(o)
  <2>1. op[o][1].does = "bar" /\ UNCHANGED <<contact, out>> /\ why' = "nothing" /\ barred'.there
    BY <1>3, <1>10 DEF WriteSuppression, Says
  <2>2. op[o][1].as \in Spellings
    BY <1>3, <2>1, StatementFields
  <2>3. barred' \in [there : BOOLEAN, as : Spellings]
    BY <1>3, <1>5, <1>10, <2>2 DEF WriteSuppression
  <2>4. Untold'
    BY <1>8, <2>1
  <2>5. QED
    BY <1>5, <2>1, <2>3, <2>4 DEF ReturnedIsBarred, ConsentExplained
<1>11. CASE OptOutReturns(o)
  <2>1. op[o][1].does = "return" /\ UNCHANGED <<contact, barred, why>> /\ out' = (out \/ o \notin lifted)
    BY <1>3, <1>11 DEF OptOutReturns, Says
  <2>2. o \in lifted \/ barred.there
    BY <1>1, <1>3, <2>1 DEF StatementsTied
  <2>3. Untold => Untold'
    BY <1>8, <2>1
  <2>4. Watched' => Watched
    BY <1>4, <2>1 DEF Watched
  <2>5. QED
    BY <1>1, <1>5, <2>1, <2>2, <2>3, <2>4 DEF ReturnedIsBarred, ConsentExplained
<1>12. CASE WriteContact(o)
  <2>1. op[o][1].does = "write" /\ UNCHANGED <<barred, out>>
    BY <1>3, <1>12 DEF WriteContact, Says
  <2>2. PICK w \in Statements : w = op[o][1] /\ w.consent \in Choice /\ w.status \in Statuses \cup {"keep"}
    BY <1>3, <2>1, StatementFields
  <2>3. /\ contact' = [contact EXCEPT !.consent = IF w.consent = "keep" THEN @ ELSE w.consent = "yes",
                                      !.status = IF w.status = "keep" THEN @ ELSE w.status]
        /\ why' = IF w.consent = "yes" THEN "granted" ELSE why
    BY <1>3, <1>12, <2>2 DEF WriteContact
  <2>4. /\ contact' \in [there : BOOLEAN, consent : BOOLEAN, status : Statuses, as : Spellings]
        /\ contact'.there = contact.there
        /\ contact'.consent => contact.consent \/ w.consent = "yes"
    BY <1>5, <2>2, <2>3 DEF Choice
  <2>5. Untold => Untold'
    BY <1>8, <2>1
  <2>6. Watched' => Watched
    BY <1>4, <2>1 DEF Watched
  <2>7. QED
    BY <1>1, <1>5, <2>1, <2>3, <2>4, <2>5, <2>6 DEF ReturnedIsBarred, ConsentExplained
<1>13. CASE CopyConsent(o)
  <2>1. op[o][1].does = "copy" /\ UNCHANGED <<barred, out>>
    BY <1>3, <1>13 DEF CopyConsent, Says
  <2>2. PICK c \in Statements : c = op[o][1] /\ c.agreed \in BOOLEAN /\ c.said \in BOOLEAN
    BY <1>3, <2>1, StatementFields
  <2>3. /\ contact' = [contact EXCEPT !.consent = c.agreed]
        /\ why' = CASE c.agreed /\ c.said -> "granted"
                    [] c.agreed /\ ~ c.said /\ ~ contact.consent -> "torn"
                    [] OTHER -> why
    BY <1>3, <1>13, <2>2 DEF CopyConsent
  <2>4. /\ contact' \in [there : BOOLEAN, consent : BOOLEAN, status : Statuses, as : Spellings]
        /\ contact'.there = contact.there /\ contact'.consent = c.agreed
    BY <1>5, <2>2, <2>3
  <2>5. why' \in {"nothing", "granted", "torn", "missed"}
    BY <1>5, <2>3
  <2>6. c.agreed => why' \in {"granted", "torn"} \/ (contact.consent /\ why' = why)
    BY <2>2, <2>3
  <2>7. Untold => Untold'
    BY <1>8, <2>1
  <2>8. Watched' => Watched
    BY <1>4, <2>1 DEF Watched
  <2>9. QED
    BY <1>1, <1>5, <2>1, <2>4, <2>5, <2>6, <2>7, <2>8 DEF ReturnedIsBarred, ConsentExplained
<1>14. CASE InsertContact(o)
  <2>1. op[o][1].does = "insert" /\ UNCHANGED <<barred, out>>
    BY <1>3, <1>14 DEF InsertContact, Says
  <2>2. PICK c \in Statements : c = op[o][1] /\ c.agreed \in BOOLEAN /\ c.as \in Spellings
    BY <1>3, <2>1, StatementFields
  <2>3. Untold => Untold'
    BY <1>8, <2>1
  <2>4. Watched' => Watched
    BY <1>4, <2>1 DEF Watched
  <2>5. CASE UNCHANGED <<contact, why>>
    BY <1>1, <1>5, <2>1, <2>3, <2>4, <2>5 DEF ReturnedIsBarred, ConsentExplained
  <2>6. CASE /\ contact' = NewContact(c.agreed, c.as)
             /\ why' = IF c.agreed THEN "granted" ELSE why
    <3>1. /\ contact' \in [there : BOOLEAN, consent : BOOLEAN, status : Statuses, as : Spellings]
          /\ contact'.consent = c.agreed
      BY <2>2, <2>6 DEF NewContact, Statuses
    <3>2. QED
      BY <1>1, <1>5, <2>1, <2>6, <3>1 DEF ReturnedIsBarred, ConsentExplained
  <2>7. QED
    BY <1>3, <1>14, <2>2, <2>5, <2>6 DEF InsertContact
<1>15. CASE SwallowError(o)
  <2>1. op[o][1].does = "cascade" /\ UNCHANGED <<contact, barred, out>> /\ why' = "missed"
    BY <1>3, <1>15 DEF SwallowError, Says
  <2>2. QED
    BY <1>1, <1>5, <2>1 DEF ReturnedIsBarred, ConsentExplained
<1>16. QED
    BY <1>9, <1>10, <1>11, <1>12, <1>13, <1>14, <1>15

(* An operation that ends early, or is ended by a deletion.                 *)
LEMMA EndedStep ==
    ASSUME ConsentInv, (\E o \in Ops : OperationDies(o)) \/ DeleteContact \/ LiftSuppression
    PROVE  ConsentInv'
<1>1. ConsentTypeOK /\ StatementsTied /\ ReturnedIsBarred /\ ConsentExplained /\ LooksTrue /\ OptOutHonoured
    BY DEF ConsentInv
<1>2. /\ contact \in [there : BOOLEAN, consent : BOOLEAN, status : Statuses, as : Spellings]
      /\ barred \in [there : BOOLEAN, as : Spellings] /\ op \in [Ops -> Seq(Statements)]
      /\ out \in BOOLEAN /\ why \in {"nothing", "granted", "torn", "missed"}
    BY <1>1 DEF ConsentTypeOK
<1>3. ASSUME NEW o \in Ops, OperationDies(o) PROVE ConsentInv'
  <2>1. \A p \in Ops : op'[p] = IF p = o THEN <<>> ELSE op[p]
    BY <1>2, <1>3 DEF OperationDies
  <2>2. UNCHANGED <<contact, barred, send, begun, lifted, out>> /\ why' \in {why, "missed"}
    BY <1>3 DEF OperationDies
  <2>3. op' \in [Ops -> Seq(Statements)]
    BY <1>2, <1>3 DEF OperationDies
  <2>4. ConsentTypeOK'
    BY <1>1, <2>2, <2>3 DEF ConsentTypeOK
  <2>5. StatementsTied'
    BY <1>1, <2>1, <2>2 DEF StatementsTied
  <2>6. Untold => Untold' \/ why' = "missed"
    BY <1>3, <2>1 DEF Untold, Says, OperationDies
  <2>7. ConsentExplained'
    BY <1>1, <2>2, <2>6 DEF ConsentExplained, Watched
  <2>8. ReturnedIsBarred' /\ LooksTrue' /\ OptOutHonoured'
    BY <1>1, <2>2 DEF ReturnedIsBarred, LooksTrue, OptOutHonoured
  <2>9. QED
    BY <2>4, <2>5, <2>7, <2>8 DEF ConsentInv
<1>4. CASE DeleteContact
  <2>1. \A p \in Ops : op'[p] \in {op[p], <<>>}
    BY <1>2, <1>4 DEF DeleteContact
  <2>2. UNCHANGED <<barred, begun, lifted, out, why>> /\ contact' = NoContact(contact.as)
    BY <1>4 DEF DeleteContact
  <2>3. op' = [p \in Ops |-> op'[p]]
    BY <1>4 DEF DeleteContact
  <2>4. op' \in [Ops -> Seq(Statements)]
    <3>1. <<>> \in Seq(Statements)
      OBVIOUS
    <3>2. QED
      BY <1>2, <2>1, <2>3, <3>1
  <2>5. contact' \in [there : BOOLEAN, consent : BOOLEAN, status : Statuses, as : Spellings]
    BY <1>2, <2>2 DEF NoContact, Statuses
  <2>6. \A s \in Sends : send'[s] \in {send[s], NoSend}
    BY <1>4 DEF DeleteContact
  <2>7. send' = [s \in Sends |-> send'[s]]
    BY <1>4 DEF DeleteContact
  <2>8. ConsentTypeOK'
    BY <1>1, <2>2, <2>4, <2>5, <2>6, <2>7 DEF ConsentTypeOK
  <2>9. StatementsTied'
    BY <1>1, <2>1, <2>2 DEF StatementsTied
  <2>10. ConsentExplained'
    BY <2>2 DEF ConsentExplained, NoContact
  <2>11. LooksTrue' /\ OptOutHonoured'
    BY <1>1, <2>6 DEF LooksTrue, OptOutHonoured, NoSend
  <2>12. ReturnedIsBarred'
    BY <1>1, <2>2 DEF ReturnedIsBarred
  <2>13. QED
    BY <2>8, <2>9, <2>10, <2>11, <2>12 DEF ConsentInv
<1>5. CASE LiftSuppression
  <2>1. UNCHANGED <<contact, op, send, begun, why>> /\ ~out' /\ lifted' = {o \in Ops : op[o] # <<>>}
    BY <1>5 DEF LiftSuppression
  <2>2. barred' \in [there : BOOLEAN, as : Spellings] /\ ~barred'.there
    BY <1>2, <1>5 DEF LiftSuppression, NotBarred
  <2>3. ConsentTypeOK'
    BY <1>1, <1>5, <2>1, <2>2 DEF ConsentTypeOK, LiftSuppression
  <2>4. \A o \in Ops : o \in lifted' \/ Len(op[o]) = 0
    BY <2>1
  <2>5. StatementsTied'
    BY <1>1, <2>1, <2>4 DEF StatementsTied
  <2>6. ConsentExplained'
    BY <1>1, <2>1, <2>2 DEF ConsentExplained, Watched, Untold, Says
  <2>7. ReturnedIsBarred' /\ LooksTrue' /\ OptOutHonoured'
    BY <1>1, <2>1 DEF ReturnedIsBarred, LooksTrue, OptOutHonoured
  <2>8. QED
    BY <2>3, <2>5, <2>6, <2>7 DEF ConsentInv
<1>6. QED
    BY <1>3, <1>4, <1>5

(* A mail that was let through, or is on its way, as its type says.         *)
Mails == [phase : {"asked", "queued", "looked", "cleared", "refused"},
          kind : {"promotional", "transactional", "campaign", "journey"}, to : Spellings,
          late : BOOLEAN, blind : BOOLEAN, misspelt : BOOLEAN, excused : BOOLEAN]

(* A mail moves on: what it must be to keep the invariant.                  *)
LEMMA MoveStep ==
    ASSUME ConsentInv, NEW s \in Sends, NEW mail \in Mails, Move(s, mail),
           mail.phase = "looked" =>
               mail.kind = "promotional" /\ (mail.late => mail.misspelt /\ (out \/ Watched)),
           mail.phase = "cleared" /\ mail.late =>
               \/ mail.blind
               \/ mail.kind = "transactional" /\ mail.misspelt
               \/ mail.kind = "promotional" /\ mail.misspelt /\ mail.excused
    PROVE  ConsentInv'
<1>1. ConsentTypeOK /\ StatementsTied /\ ReturnedIsBarred /\ ConsentExplained /\ LooksTrue /\ OptOutHonoured
    BY DEF ConsentInv
<1>2. UNCHANGED <<contact, barred, op, begun, lifted, out, why>> /\ send' = [send EXCEPT ![s] = mail]
    BY DEF Move
<1>3. send \in [Sends -> {NoSend} \cup Mails]
    BY <1>1 DEF ConsentTypeOK, Mails
<1>4. \A r \in Sends : send'[r] = IF r = s THEN mail ELSE send[r]
    BY <1>2, <1>3
<1>5. ConsentTypeOK'
  <2>1. send' \in [Sends -> {NoSend} \cup Mails]
    BY <1>2, <1>3
  <2>2. QED
    BY <1>1, <1>2, <2>1 DEF ConsentTypeOK, Mails
<1>6. StatementsTied' /\ ReturnedIsBarred'
    BY <1>1, <1>2 DEF StatementsTied, ReturnedIsBarred
<1>7. Watched' => Watched
    BY <1>1, <1>2, <1>4 DEF Watched, ReturnedIsBarred
<1>8. ConsentExplained'
    BY <1>1, <1>2, <1>7 DEF ConsentExplained, Untold, Says
<1>9. LooksTrue' /\ OptOutHonoured'
    BY <1>1, <1>4 DEF LooksTrue, OptOutHonoured
<1>10. QED
    BY <1>5, <1>6, <1>8, <1>9 DEF ConsentInv

(* What is found is true of the mail.                                       *)
LEMMA FindingFields ==
    ASSUME ConsentTypeOK, NEW s \in Sends, send[s].phase # "idle",
           NEW phase \in {"looked", "cleared"}
    PROVE  /\ send[s] \in Mails /\ Finding(s, phase) \in Mails
           /\ Finding(s, phase).phase = phase /\ Finding(s, phase).kind = send[s].kind
           /\ Finding(s, phase).late = out /\ Finding(s, phase).blind = send[s].blind
           /\ Finding(s, phase).misspelt = (barred.there /\ barred.as # send[s].to)
           /\ [Finding(s, phase) EXCEPT !.blind = TRUE] \in Mails
           /\ [Finding(s, phase) EXCEPT !.blind = TRUE].blind
           /\ [Finding(s, phase) EXCEPT !.blind = TRUE].phase = phase
<1>1. send[s] \in Mails
    BY DEF ConsentTypeOK, Mails, NoSend
<1>2. out \in BOOLEAN /\ barred.there \in BOOLEAN /\ Excused \in BOOLEAN
    BY DEF ConsentTypeOK, Excused, Untold
<1>3. QED
    BY <1>1, <1>2 DEF Finding, Mails

(* Each step of a mail keeps the invariant.                                 *)
LEMMA MailingStep ==
    ASSUME ConsentInv, NEW s \in Sends, Mailing(s)
    PROVE  ConsentInv'
<1>1. ConsentTypeOK /\ ReturnedIsBarred /\ ConsentExplained /\ LooksTrue
    BY DEF ConsentInv
<1>2. contact.as \in Spellings /\ out \in BOOLEAN /\ contact.there \in BOOLEAN /\ contact.consent \in BOOLEAN
    BY <1>1 DEF ConsentTypeOK
<1>3. \A phase \in {"asked", "queued"}, kind \in {"promotional", "transactional", "campaign", "journey"},
        to \in Spellings : Mail(kind, phase, to) \in Mails /\ Mail(kind, phase, to).phase = phase
    BY DEF Mail, Mails
<1>4. send[s].phase # "idle" => send[s] \in Mails
    BY <1>1 DEF ConsentTypeOK, Mails, NoSend
<1>5. ASSUME NEW phase \in {"queued", "refused"}, send[s].phase # "idle",
             Move(s, [send[s] EXCEPT !.phase = phase])
      PROVE  ConsentInv'
  <2>1. /\ [send[s] EXCEPT !.phase = phase] \in Mails
        /\ [send[s] EXCEPT !.phase = phase].phase = phase
    BY <1>4, <1>5 DEF Mails
  <2>2. PICK mail \in Mails : mail = [send[s] EXCEPT !.phase = phase] /\ mail.phase = phase
    BY <2>1
  <2>3. Move(s, mail)
    BY <1>5, <2>2
  <2>4. QED
    BY <2>2, <2>3, MoveStep
<1>6. ASSUME send[s].phase # "idle", Refuse(s) PROVE ConsentInv'
    BY <1>5, <1>6 DEF Refuse
<1>7. ASSUME NEW to \in Spellings, PostAsks(s, to) \/ PostTransactional(s, to) PROVE ConsentInv'
  <2>1. PICK mail \in Mails : mail.phase \in {"asked", "queued"} /\ Move(s, mail)
    BY <1>3, <1>7 DEF PostAsks, PostTransactional, SetOut
  <2>2. QED
    BY <2>1, MoveStep
<1>8. CASE PageReads(s) \/ Enroll(s)
  <2>1. PICK mail \in Mails : mail.phase \in {"asked", "queued"} /\ Move(s, mail)
    BY <1>2, <1>3, <1>8 DEF PageReads, Enroll, SetOut
  <2>2. QED
    BY <2>1, MoveStep
<1>9. CASE PostAdmits(s) \/ SnapshotAdmits(s) \/ EnrollAdmits(s)
  <2>1. send[s].phase # "idle"
    BY <1>9 DEF PostAdmits, SnapshotAdmits, EnrollAdmits, At
  <2>2. Refuse(s) \/ Move(s, [send[s] EXCEPT !.phase = "queued"])
    BY <1>9 DEF PostAdmits, SnapshotAdmits, EnrollAdmits
  <2>3. QED
    BY <1>5, <1>6, <2>1, <2>2
<1>10. CASE ExecutorLooks(s)
  <2>1. send[s].phase = "queued" /\ send[s].kind \in {"promotional", "transactional"}
    BY <1>10 DEF ExecutorLooks
  <2>2. CASE Refuse(s)
    BY <1>6, <2>1, <2>2
  <2>3. CASE /\ ~(barred.there /\ barred.as = send[s].to)
             /\ Move(s, Finding(s, IF send[s].kind = "promotional" THEN "looked" ELSE "cleared"))
    <3>1. PICK phase \in {"looked", "cleared"} :
              phase = IF send[s].kind = "promotional" THEN "looked" ELSE "cleared"
      OBVIOUS
    <3>2. PICK mail \in Mails : /\ mail = Finding(s, phase) /\ mail.phase = phase
                                /\ mail.kind = send[s].kind /\ mail.late = out
                                /\ mail.misspelt = (barred.there /\ barred.as # send[s].to)
      BY <1>1, <2>1, FindingFields
    <3>3. Move(s, mail)
      BY <2>3, <3>1, <3>2
    <3>4. mail.late => mail.misspelt
      BY <1>1, <2>3, <3>2 DEF ReturnedIsBarred
    <3>5. QED
      BY <2>1, <3>1, <3>2, <3>3, <3>4, MoveStep
  <2>4. QED
    BY <1>10, <2>2, <2>3 DEF ExecutorLooks
<1>11. CASE ExecutorAsks(s)
  <2>1. send[s].phase = "looked" /\ send[s] \in Mails
    BY <1>4, <1>11 DEF ExecutorAsks
  <2>2. CASE Refuse(s)
    BY <1>6, <2>1, <2>2
  <2>3. CASE Admits /\ Move(s, [send[s] EXCEPT !.phase = "cleared", !.excused = Excused])
    <3>1. Excused \in BOOLEAN
      BY <1>2 DEF Excused, Untold
    <3>2. PICK excused \in BOOLEAN : excused = Excused
      BY <3>1
    <3>3. PICK mail : mail = [send[s] EXCEPT !.phase = "cleared", !.excused = excused]
      OBVIOUS
    <3>4. /\ mail \in Mails
          /\ mail.phase = "cleared" /\ mail.kind = send[s].kind
          /\ mail.late = send[s].late /\ mail.misspelt = send[s].misspelt
          /\ mail.excused = Excused
      BY <2>1, <3>2, <3>3 DEF Mails
    <3>5. Move(s, mail)
      BY <2>3, <3>2, <3>3
    <3>6. mail.kind = "promotional" /\ (mail.late => mail.misspelt)
      BY <1>1, <2>1, <3>4 DEF LooksTrue
    <3>7. mail.late => Excused
      BY <1>1, <2>1, <2>3, <3>4 DEF ConsentExplained, Watched, Excused, Admits
    <3>8. QED
      BY <3>4, <3>5, <3>6, <3>7, MoveStep
  <2>4. QED
    BY <1>11, <2>2, <2>3 DEF ExecutorAsks
<1>12. CASE RecipientLooks(s)
  <2>1. send[s].phase = "queued"
    BY <1>12 DEF RecipientLooks
  <2>2. CASE Refuse(s)
    BY <1>6, <2>1, <2>2
  <2>3. CASE ~barred.there /\ Move(s, Finding(s, "cleared"))
    <3>1. PICK mail \in Mails : mail = Finding(s, "cleared") /\ mail.phase = "cleared" /\ mail.late = out
      BY <1>1, <2>1, FindingFields
    <3>2. Move(s, mail) /\ ~mail.late
      BY <1>1, <2>3, <3>1 DEF ReturnedIsBarred
    <3>3. QED
      BY <3>1, <3>2, MoveStep
  <2>4. CASE Move(s, [Finding(s, "cleared") EXCEPT !.blind = TRUE])
    <3>1. PICK mail \in Mails : mail = [Finding(s, "cleared") EXCEPT !.blind = TRUE]
                                /\ mail.phase = "cleared" /\ mail.blind
      BY <1>1, <2>1, FindingFields
    <3>2. Move(s, mail)
      BY <2>4, <3>1
    <3>3. QED
      BY <3>1, <3>2, MoveStep
  <2>5. QED
    BY <1>12, <2>2, <2>3, <2>4 DEF RecipientLooks
<1>13. QED
    BY <1>7, <1>8, <1>9, <1>10, <1>11, <1>12 DEF Mailing

(* The inductive invariant of consent.                                      *)
THEOREM ConsentInvariantHolds ==
    ASSUME ConsentConstantsOK
    PROVE  ConsentSpec => []ConsentInv
<1>1. ConsentInit => ConsentInv
  <2> SUFFICES ASSUME ConsentInit PROVE ConsentInv
    OBVIOUS
  <2>1. PICK as \in Spellings : /\ contact \in {NoContact(as), NewContact(TRUE, as), NewContact(FALSE, as)}
                                /\ barred = NotBarred(as)
    BY DEF ConsentInit
  <2>2. contact \in [there : BOOLEAN, consent : BOOLEAN, status : Statuses, as : Spellings]
    <3>1. /\ NoContact(as) \in [there : BOOLEAN, consent : BOOLEAN, status : Statuses, as : Spellings]
          /\ \A agreed \in BOOLEAN :
                NewContact(agreed, as) \in [there : BOOLEAN, consent : BOOLEAN, status : Statuses, as : Spellings]
      BY DEF NoContact, NewContact, Statuses
    <3>2. QED
      BY <2>1, <3>1
  <2>3. barred \in [there : BOOLEAN, as : Spellings] /\ ~barred.there
    BY <2>1 DEF NotBarred
  <2>4. op \in [Ops -> Seq(Statements)] /\ \A o \in Ops : Len(op[o]) = 0
    BY DEF ConsentInit
  <2>5. ConsentTypeOK
    <3>1. send = [s \in Sends |-> NoSend]
      BY DEF ConsentInit
    <3>2. lifted = {} /\ out = FALSE /\ why = "nothing"
      BY DEF ConsentInit
    <3>3. begun \in 0..MaxOps
      BY DEF ConsentInit, ConsentConstantsOK
    <3>4. QED
      BY <2>2, <2>3, <2>4, <3>1, <3>2, <3>3 DEF ConsentTypeOK
  <2>6. StatementsTied
    BY <2>4 DEF StatementsTied
  <2>7. ReturnedIsBarred /\ ConsentExplained /\ LooksTrue /\ OptOutHonoured
    BY <2>3 DEF ConsentInit, ReturnedIsBarred, ConsentExplained, Watched, LooksTrue, OptOutHonoured, NoSend
  <2>8. QED
    BY <2>5, <2>6, <2>7 DEF ConsentInv
<1>2. ConsentInv /\ [ConsentNext]_consentVars => ConsentInv'
  <2> SUFFICES ASSUME ConsentInv, [ConsentNext]_consentVars PROVE ConsentInv'
    OBVIOUS
  <2>1. ASSUME NEW o \in Ops, Operation(o) PROVE ConsentInv'
    <3>1. ConsentTypeOK
      BY DEF ConsentInv
    <3>2. ASSUME NEW q, Proper(q), Undertake(o, q) PROVE ConsentInv'
      BY <3>2, UndertakeStep
    <3>3. CASE Unsubscribe(o)
      BY <3>1, <3>2, <3>3, BegunIsProper DEF ConsentConstantsOK
    <3>4. ASSUME NEW as \in Spellings, NEW status \in {"SUPPRESSED", "UNSUBSCRIBED"},
                 Report(o, as, status)
          PROVE  ConsentInv'
      BY <3>1, <3>2, <3>4, BegunIsProper
    <3>5. ASSUME NEW as \in Spellings, AddSuppression(o, as) PROVE ConsentInv'
      BY <3>1, <3>2, <3>5, BegunIsProper
    <3>6. ASSUME NEW consent \in Choice, NEW status \in {"keep", "SUBSCRIBED"},
                 UpdateContact(o, consent, status)
          PROVE  ConsentInv'
      BY <3>1, <3>2, <3>6, BegunIsProper DEF ConsentConstantsOK
    <3>7. ASSUME NEW consent \in Choice, NEW as \in Spellings, ImportContact(o, consent, as)
          PROVE  ConsentInv'
      BY <3>1, <3>2, <3>7, BegunIsProper
    <3>8. ASSUME NEW consent \in BOOLEAN, NEW as \in Spellings, CreateContact(o, consent, as)
          PROVE  ConsentInv'
      BY <3>1, <3>2, <3>8, BegunIsProper
    <3>9. QED
      BY <2>1, <3>3, <3>4, <3>5, <3>6, <3>7, <3>8, StatementSteps, EndedStep DEF Operation
  <2>2. CASE UNCHANGED consentVars
    BY <2>2 DEF consentVars, ConsentInv, ConsentTypeOK, StatementsTied, ReturnedIsBarred,
       ConsentExplained, Watched, Untold, Says, LooksTrue, OptOutHonoured
  <2>3. QED
    BY <2>1, <2>2, MailingStep, EndedStep DEF ConsentNext
<1>3. QED
    BY <1>1, <1>2, PTL DEF ConsentSpec

(* An opt-out that has returned is honoured by every kind of mail, up to    *)
(* the exceptions that it names, however many operations and mails there    *)
(* are at once.                                                             *)
THEOREM OptOutsAreHonoured ==
    ASSUME ConsentConstantsOK
    PROVE  ConsentSpec => []OptOutHonoured
<1>1. ConsentInv => OptOutHonoured
    BY DEF ConsentInv
<1>2. QED
    BY <1>1, ConsentInvariantHolds, PTL

(* The suppression and the contact never disagree without an explanation.   *)
THEOREM SuppressionAndContactAgree ==
    ASSUME ConsentConstantsOK
    PROVE  ConsentSpec => []SuppressedHasNoConsent
<1>1. ConsentInv => SuppressedHasNoConsent
    BY DEF ConsentInv, ConsentExplained, Watched, SuppressedHasNoConsent
<1>2. QED
    BY <1>1, ConsentInvariantHolds, PTL

-----------------------------------------------------------------------------
(* Audiences (Audience).                                                    *)

(* The lock is held from the second look on, nobody else has it meanwhile,  *)
(* and whoever has passed that look found no recipients.                    *)
Begins == {"idle", "locking", "checking", "over"}
LockHeld ==
    /\ \A r \in Runs \ Previews : run[r].phase \notin {"idle", "locking", "over"} => lock = HeldBy(r)
    /\ \A r \in Runs \ Previews : run[r].phase \notin Begins => recipients = {}
    /\ \A r \in Previews : run[r].phase \notin {"locking", "checking"}

(* What a run has in hand as long as it has not read a page, and between    *)
(* two pages; the walk it is on is one it was asked for.                    *)
OnItsWay(w) ==
    /\ w.phase \in Begins \cup {"target"} => w.drafts = {} /\ w.seen = {} /\ w.cursor = Start
    /\ w.phase \in Begins \cup {"target"} => ~ w.wide /\ ~ w.slipped
    /\ w.phase \notin {"filterList", "filterSegment"} => w.fit = {}
    /\ w.phase \in {"list", "filterList"} => HasList
    /\ w.phase \in {"segment", "filterSegment"} => w.wants

(* What its history says of the contacts as they are now.                   *)
Observed(w, all) ==
    w.phase \notin Begins =>
        w.steady \subseteq Qualified(all, w.wants) /\ Qualified(all, w.wants) \subseteq w.ever

(* What it found has qualified; what is still to be filtered has, or is     *)
(* barred, and stays so.                                                    *)
Justified(w, all) ==
    ~ w.wide =>
        /\ w.drafts \subseteq Who(w.ever)
        /\ \A c \in w.fit : all[c].barred \/ c \in Who(w.ever)

(* Whoever has qualified all along and was passed is in hand.               *)
Passed(w, part, last) ==
    \A c \in Contacts : c <= last /\ As(c, part) \in w.steady => c \in w.drafts \cup w.fit
Covers(w) ==
    ~ w.slipped /\ ~ w.wide =>
        /\ Who(w.steady) \cap w.seen \subseteq w.drafts \cup w.fit
        /\ w.phase = "list" => Passed(w, "list", w.cursor)
        /\ w.phase = "filterList" => Passed(w, "list", IF w.more THEN w.cursor ELSE MaxContact)
        /\ w.phase \in {"segment", "filterSegment", "commit"} => Passed(w, "list", MaxContact)
        /\ w.phase = "segment" => Passed(w, "segment", w.cursor)
        /\ w.phase = "filterSegment" => Passed(w, "segment", IF w.more THEN w.cursor ELSE MaxContact)
        /\ w.phase = "commit" => Passed(w, "segment", MaxContact)

Sound(w, all) == OnItsWay(w) /\ Observed(w, all) /\ Justified(w, all) /\ Covers(w)
AllSound == \A r \in Runs : Sound(run[r], people)

AudienceInv == AudienceTypeOK /\ LockHeld /\ AllSound

(* A set of numbers that is not empty has a least one, and a set of         *)
(* contacts has a greatest one.                                             *)
LEMMA LeastOne ==
    ASSUME NEW T, T \subseteq Nat, T # {}
    PROVE  \E x \in T : \A y \in T : x <= y
<1> DEFINE Before == {ss \in Nat \X Nat : ss[1] < ss[2]}
<1>1. IsWellFoundedOn(Before, Nat)
    BY NatLessThanWellFounded DEF OpToRel
<1>2. PICK x \in T : \A y \in T : ~ (<<y, x>> \in Before)
    BY <1>1, WFMin
<1>3. \A y \in T : ~ y < x
    BY <1>2
<1>4. QED
    BY <1>3

LEMMA ContactsAreNumbers == Contacts \subseteq Nat
    BY DEF Contacts

LEMMA GreatestOne ==
    ASSUME MaxContact \in Nat, NEW T, T \subseteq Contacts, T # {}
    PROVE  Greatest(T) \in T /\ \A d \in T : d <= Greatest(T)
<1> DEFINE From == {MaxContact - x : x \in T}
<1>1. From \subseteq Nat /\ From # {}
  <2>1. \A x \in T : MaxContact - x \in Nat
      BY DEF Contacts
  <2>2. QED
      BY <2>1
<1>2. PICK y \in From : \A z \in From : y <= z
    BY <1>1, LeastOne
<1>3. PICK x \in T : y = MaxContact - x
    BY <1>2
<1>4. \A d \in T : d <= x
  <2>1. SUFFICES ASSUME NEW d \in T PROVE d <= x
      OBVIOUS
  <2>2. MaxContact - x <= MaxContact - d
      BY <1>2, <1>3
  <2>3. QED
      BY <2>2, ContactsAreNumbers
<1>5. QED
    BY <1>3, <1>4 DEF Greatest

(* Contacts are finitely many, and so is every set of some of them.         *)
LEMMA SomeContacts ==
    ASSUME MaxContact \in Nat, NEW T, T \subseteq Contacts
    PROVE  IsFiniteSet(T) /\ Cardinality(T) \in Nat
<1>1. IsFiniteSet(Contacts)
    BY FS_Interval DEF Contacts
<1>2. QED
    BY <1>1, FS_Subset, FS_CardinalityType

(* The first of some contacts: they are among them; if they are not a full  *)
(* page they are all; and nobody before the last of them is left out.       *)
Firsts(left) == {c \in left : Cardinality({d \in left : d < c}) < BatchSize}

LEMMA FirstsAreFirst ==
    ASSUME AudienceConstantsOK, NEW left, left \subseteq Contacts,
           NEW c \in left, NEW e \in Firsts(left), c <= e
    PROVE  c \in Firsts(left)
<1> DEFINE Before(x) == {d \in left : d < x}
<1>1. Before(c) \subseteq Before(e) /\ Before(e) \subseteq Contacts
  <2>1. e \in left /\ e \in Nat /\ c \in Nat /\ left \subseteq Nat
      BY ContactsAreNumbers DEF Firsts
  <2>2. \A d \in left : d < c => d < e
      BY <2>1
  <2>3. QED
      BY <2>2
<1>2. Cardinality(Before(c)) <= Cardinality(Before(e))
    BY <1>1, SomeContacts, FS_Subset DEF AudienceConstantsOK
<1>3. Cardinality(Before(c)) \in Nat /\ Cardinality(Before(e)) \in Nat
    BY <1>1, SomeContacts DEF AudienceConstantsOK
<1>4. Cardinality(Before(e)) < BatchSize
    BY DEF Firsts
<1>5. Cardinality(Before(c)) < BatchSize
    BY <1>2, <1>3, <1>4 DEF AudienceConstantsOK
<1>6. QED
    BY <1>5 DEF Firsts

LEMMA OneMore ==
    ASSUME NEW S, NEW x, IsFiniteSet(S), Cardinality(S) \in Nat
    PROVE  /\ IsFiniteSet(S \cup {x}) /\ Cardinality(S \cup {x}) \in Nat
           /\ Cardinality(S \cup {x}) <= Cardinality(S) + 1
<1>1. CASE x \in S
  <2>1. S \cup {x} = S
      BY <1>1
  <2>2. Cardinality(S \cup {x}) = Cardinality(S) /\ IsFiniteSet(S \cup {x})
      BY <2>1, Zenon
  <2>3. QED
      BY <2>2
<1>2. CASE x \notin S
  <2>1. /\ IsFiniteSet(S \cup {x})
        /\ Cardinality(S \cup {x}) = IF x \in S THEN Cardinality(S) ELSE Cardinality(S) + 1
      BY FS_AddElement, Zenon
  <2>2. QED
      BY <1>2, <2>1
<1>3. QED
    BY <1>1, <1>2

LEMMA ShortPageIsLast ==
    ASSUME AudienceConstantsOK, NEW left, left \subseteq Contacts,
           Cardinality(Firsts(left)) # BatchSize
    PROVE  left \subseteq Firsts(left)
<1> DEFINE Before(x) == {d \in left : d < x}
<1> DEFINE rest == left \ Firsts(left)
<1>1. SUFFICES ASSUME rest # {} PROVE FALSE
    OBVIOUS
<1>2. PICK c \in rest : \A d \in rest : c <= d
  <2>1. rest \subseteq Nat
      BY ContactsAreNumbers
  <2>2. QED
      BY <1>1, <2>1, LeastOne
<1>3. Firsts(left) = Before(c)
  <2>1. \A d \in left : d < c => d \in Firsts(left)
      BY <1>2 DEF Contacts, AudienceConstantsOK
  <2>2. \A d \in Firsts(left) : d < c
    <3>1. SUFFICES ASSUME NEW d \in Firsts(left), ~ d < c PROVE FALSE
        OBVIOUS
    <3>2. c \in left /\ c <= d
        BY <1>2, <3>1 DEF Firsts, Contacts, AudienceConstantsOK
    <3>3. c \in Firsts(left)
        BY <3>2, FirstsAreFirst
    <3>4. QED
        BY <3>3, <1>2
  <2>3. QED
      BY <2>1, <2>2 DEF Firsts
<1>4. Cardinality(Before(c)) \in Nat /\ Before(c) \subseteq Contacts
    BY SomeContacts DEF AudienceConstantsOK
<1>5. ~ Cardinality(Before(c)) < BatchSize
    BY <1>2 DEF Firsts
<1>6. Cardinality(Before(c)) > BatchSize
    BY <1>3, <1>4, <1>5 DEF AudienceConstantsOK
<1>7. PICK g \in Before(c) : \A d \in Before(c) : d <= g
  <2>1. Before(c) # {}
      BY <1>6, FS_EmptySet DEF AudienceConstantsOK
  <2>2. QED
      BY <1>4, <2>1, GreatestOne DEF AudienceConstantsOK
<1>8. Before(c) \subseteq Before(g) \cup {g}
    BY <1>4, <1>7 DEF Contacts, AudienceConstantsOK
<1>9. /\ IsFiniteSet(Before(g)) /\ Cardinality(Before(g)) \in Nat
      /\ IsFiniteSet(Before(g) \cup {g}) /\ Cardinality(Before(g) \cup {g}) \in Nat
      /\ Cardinality(Before(g) \cup {g}) <= Cardinality(Before(g)) + 1
  <2>1. Before(g) \subseteq Contacts
      OBVIOUS
  <2>2. IsFiniteSet(Before(g)) /\ Cardinality(Before(g)) \in Nat
      BY <2>1, SomeContacts DEF AudienceConstantsOK
  <2>3. QED
      BY <2>2, OneMore
<1>10. Cardinality(Before(c)) <= Cardinality(Before(g)) + 1
  <2>1. Cardinality(Before(c)) <= Cardinality(Before(g) \cup {g})
      BY <1>8, <1>9, FS_Subset
  <2>2. QED
      BY <2>1, <1>9, <1>4
<1>11. Cardinality(Before(g)) < BatchSize
  <2>1. g \in Firsts(left)
      BY <1>3, <1>7
  <2>2. QED
      BY <2>1 DEF Firsts
<1>12. QED
    BY <1>4, <1>6, <1>9, <1>10, <1>11 DEF AudienceConstantsOK

(* What is behind the cursor, unless its row is gone.                       *)
LEMMA BehindTheCursor ==
    ASSUME AudienceConstantsOK, NEW rows, rows \subseteq Contacts, NEW cursor \in Contacts \cup {Start}
    PROVE  /\ Behind(rows, cursor) \subseteq rows
           /\ FirstOf(rows, cursor) = Firsts(Behind(rows, cursor))
           /\ (\A c \in rows : people[c].there) /\ (cursor = Start \/ cursor \in rows) =>
                  Behind(rows, cursor) = {c \in rows : c > cursor}
<1>1. Behind(rows, cursor) \subseteq rows
    BY DEF Behind
<1>2. FirstOf(rows, cursor) = Firsts(Behind(rows, cursor))
    BY DEF FirstOf, Firsts
<1>3. ASSUME \A c \in rows : people[c].there, cursor = Start \/ cursor \in rows
      PROVE  Behind(rows, cursor) = {c \in rows : c > cursor}
  <2>1. rows \subseteq Nat /\ \A c \in rows : c > Start
      BY ContactsAreNumbers DEF Contacts, Start
  <2>2. CASE cursor = Start
      BY <2>1, <2>2 DEF Behind
  <2>3. CASE cursor # Start
    <3>1. cursor \in rows /\ cursor \in Nat
        BY <1>3, <2>1, <2>3
    <3>2. DEFINE from == {c \in rows : c >= cursor}
    <3>3. Behind(rows, cursor) = {c \in from : \E d \in from : d < c}
        BY <1>3, <2>3, <3>1 DEF Behind
    <3>4. \A c \in rows : c > cursor <=> c \in from /\ \E d \in from : d < c
      <4>1. cursor \in from
          BY <3>1
      <4>2. QED
          BY <2>1, <3>1, <4>1
    <3>5. QED
        BY <3>3, <3>4
  <2>4. QED
      BY <2>2, <2>3
<1>4. QED
    BY <1>1, <1>2, <1>3

(* A page has rows only; a page that is not full leaves nobody out, and no  *)
(* page leaves out anybody it goes past.                                    *)
LEMMA PageRead ==
    ASSUME AudienceConstantsOK, NEW rows, rows \subseteq Contacts, \A c \in rows : people[c].there,
           NEW cursor \in Contacts \cup {Start},
           NEW page, page = FirstOf(rows, cursor)
    PROVE  /\ page \subseteq rows
           /\ page # {} => Greatest(page) \in page
           /\ Cardinality(page) = BatchSize => page # {}
           /\ cursor = Start \/ cursor \in rows =>
                /\ Cardinality(page) # BatchSize => \A c \in rows : c > cursor => c \in page
                /\ page # {} => \A c \in rows : c > cursor /\ c <= Greatest(page) => c \in page
<1> DEFINE left == Behind(rows, cursor)
<1>1. left \subseteq rows /\ left \subseteq Contacts /\ page = Firsts(left)
    BY BehindTheCursor
<1>2. page \subseteq rows /\ page \subseteq Contacts
    BY <1>1 DEF Firsts
<1>3. page # {} => Greatest(page) \in page
    BY <1>2, GreatestOne DEF AudienceConstantsOK
<1>4. Cardinality(page) = BatchSize => page # {}
    BY FS_EmptySet DEF AudienceConstantsOK
<1>5. ASSUME cursor = Start \/ cursor \in rows
      PROVE  /\ Cardinality(page) # BatchSize => \A c \in rows : c > cursor => c \in page
             /\ page # {} => \A c \in rows : c > cursor /\ c <= Greatest(page) => c \in page
  <2>1. \A c \in rows : c > cursor => c \in left
      BY <1>5, BehindTheCursor
  <2>2. Cardinality(page) # BatchSize => left \subseteq page
      BY <1>1, ShortPageIsLast
  <2>3. ASSUME page # {}, NEW c \in left, c <= Greatest(page) PROVE c \in page
      BY <1>1, <1>3, <2>3, FirstsAreFirst
  <2>4. QED
      BY <2>1, <2>2, <2>3
<1>6. QED
    BY <1>2, <1>3, <1>4, <1>5

(* Those who qualify are found by the walks: in the list, in the segment.   *)
LEMMA QualifiedFor ==
    ASSUME NEW all, NEW seg, NEW c \in Contacts
    PROVE  /\ As(c, "list") \in Qualified(all, seg) <=>
                  /\ all[c].there /\ all[c].allowed /\ ~ all[c].barred
                  /\ HasList /\ all[c].member
           /\ As(c, "segment") \in Qualified(all, seg) <=>
                  /\ all[c].there /\ all[c].allowed /\ ~ all[c].barred
                  /\ seg /\ all[c].matches
    BY DEF Qualified, As

LEMMA QualifiedAreFound ==
    ASSUME NEW all, NEW seg
    PROVE  /\ Qualified(all, seg) \subseteq Found
           /\ \A f \in Qualified(all, seg) : \E c \in Contacts : f = As(c, "list") \/ f = As(c, "segment")
    BY DEF Qualified, As, Found

(* A walk at its beginning.                                                 *)
LEMMA BegunIsSound ==
    ASSUME AudienceTypeOK, NEW seg \in BOOLEAN
    PROVE  Begun(seg) \in RunRow /\ Sound(Begun(seg), people)
<1>1. Qualified(people, seg) \subseteq Found
    BY QualifiedAreFound
<1>2. PICK w : w = Begun(seg)
    OBVIOUS
<1>3. /\ w \in RunRow
      /\ w.phase = "target" /\ w.wants = seg /\ ~ w.wide /\ ~ w.slipped /\ w.cursor = Start
      /\ w.seen = {} /\ w.fit = {} /\ w.drafts = {}
      /\ w.steady = Qualified(people, seg) /\ w.ever = Qualified(people, seg)
    BY <1>1, <1>2 DEF Begun, NoRun, RunRow
<1>4. Sound(w, people)
    BY <1>3 DEF Sound, OnItsWay, Observed, Justified, Covers, Begins
<1>5. QED
    BY <1>2, <1>3, <1>4

(* A run that is not on its way has nothing in hand.                        *)
LEMMA NoRunIsSound ==
    ASSUME NEW seg \in BOOLEAN, NEW ph \in Begins, NEW all
    PROVE  LET w == [NoRun EXCEPT !.wants = seg, !.phase = ph] IN w \in RunRow /\ Sound(w, all)
<1>1. PICK w : w = [NoRun EXCEPT !.wants = seg, !.phase = ph]
    OBVIOUS
<1>2. /\ w \in RunRow
      /\ w.phase = ph /\ w.phase \in {"idle", "locking", "checking", "over"}
      /\ w.wants = seg /\ ~ w.wide /\ ~ w.slipped /\ w.cursor = Start
      /\ w.seen = {} /\ w.fit = {} /\ w.drafts = {} /\ w.steady = {} /\ w.ever = {}
    BY <1>1 DEF NoRun, RunRow, Begins
<1>3. Sound(w, all)
    BY <1>2 DEF Sound, OnItsWay, Observed, Justified, Covers, Begins, Who
<1>4. QED
    BY <1>1, <1>2, <1>3

LEMMA OverIsSound ==
    ASSUME NEW all, NEW w, w = [NoRun EXCEPT !.phase = "over"]
    PROVE  w \in RunRow /\ Sound(w, all) /\ w.phase = "over"
<1>1. /\ w \in RunRow
      /\ w.phase = "over" /\ ~ w.wide /\ ~ w.slipped /\ w.cursor = Start
      /\ w.seen = {} /\ w.fit = {} /\ w.drafts = {} /\ w.steady = {} /\ w.ever = {}
    BY DEF NoRun, RunRow
<1>2. QED
    BY <1>1 DEF Sound, OnItsWay, Observed, Justified, Covers, Begins, Who

(* A page turned: what it went past is in hand, or was before.              *)
LEMMA TurnedIsSound ==
    ASSUME AudienceConstantsOK, AudienceTypeOK, NEW v \in RunRow, Sound(v, people),
           NEW rows, NEW part, NEW then,
           \/ /\ v.phase = "list" /\ part = "list" /\ then = "filterList"
              /\ rows = {c \in Contacts : Member(c)}
           \/ /\ v.phase = "segment" /\ part = "segment" /\ then = "filterSegment"
              /\ rows = {c \in Contacts : IF v.wide THEN people[c].there ELSE Matches(c)},
           NEW w, w = Turned(v, rows, then)
    PROVE  w \in RunRow /\ Sound(w, people) /\ w.phase = then
<1>1. PICK page : page = FirstOf(rows, v.cursor)
    OBVIOUS
<1>2. PICK fresh : fresh = page \ v.seen
    OBVIOUS
<1>3. rows \subseteq Contacts /\ \A c \in rows : people[c].there
    BY DEF Member, Matches
<1>4. v.cursor \in Contacts \cup {Start}
    BY DEF RunRow
<1>5. /\ page \subseteq rows
      /\ page # {} => Greatest(page) \in page
      /\ Cardinality(page) = BatchSize => page # {}
      /\ v.cursor = Start \/ v.cursor \in rows =>
           /\ Cardinality(page) # BatchSize => \A c \in rows : c > v.cursor => c \in page
           /\ page # {} => \A c \in rows : c > v.cursor /\ c <= Greatest(page) => c \in page
    BY <1>1, <1>3, <1>4, PageRead
<1>6. w = [v EXCEPT
            !.phase = then,
            !.cursor = IF page = {} THEN Start ELSE Greatest(page),
            !.page = fresh,
            !.fit = {c \in fresh : people[c].allowed},
            !.seen = IF v.wants THEN v.seen \cup fresh ELSE v.seen,
            !.more = Cardinality(page) = BatchSize,
            !.slipped = v.slipped \/ (v.cursor # Start /\ v.cursor \notin rows)]
    BY <1>1, <1>2 DEF Turned
<1>7. /\ w.phase = then /\ w.wants = v.wants /\ w.wide = v.wide
      /\ w.cursor = IF page = {} THEN Start ELSE Greatest(page)
      /\ w.fit = {c \in fresh : people[c].allowed}
      /\ w.seen = IF v.wants THEN v.seen \cup fresh ELSE v.seen
      /\ w.more <=> Cardinality(page) = BatchSize
      /\ w.slipped <=> v.slipped \/ (v.cursor # Start /\ v.cursor \notin rows)
      /\ w.drafts = v.drafts /\ w.steady = v.steady /\ w.ever = v.ever
    BY <1>6 DEF RunRow
<1>8. w \in RunRow
  <2>1. page \subseteq Contacts /\ fresh \subseteq Contacts /\ (page # {} => Greatest(page) \in Contacts)
      BY <1>2, <1>3, <1>5
  <2>2. PICK cursor, fit, seen, more, slipped :
            /\ cursor = IF page = {} THEN Start ELSE Greatest(page)
            /\ fit = {c \in fresh : people[c].allowed}
            /\ seen = IF v.wants THEN v.seen \cup fresh ELSE v.seen
            /\ more = (Cardinality(page) = BatchSize)
            /\ slipped = (v.slipped \/ (v.cursor # Start /\ v.cursor \notin rows))
      OBVIOUS
  <2>3. /\ cursor \in Contacts \cup {Start} /\ fit \subseteq Contacts /\ seen \subseteq Contacts
        /\ more \in BOOLEAN /\ slipped \in BOOLEAN
      BY <2>1, <2>2 DEF RunRow
  <2>4. w = [v EXCEPT !.phase = then, !.cursor = cursor, !.page = fresh, !.fit = fit,
                      !.seen = seen, !.more = more, !.slipped = slipped]
      BY <1>6, <2>2
  <2>5. then \in {"filterList", "filterSegment"}
      OBVIOUS
  <2>6. QED
      <3>1. fresh \in SUBSET Contacts /\ fit \in SUBSET Contacts /\ seen \in SUBSET Contacts
          BY <2>1, <2>3
      <3>2. cursor \in Contacts \cup {Start} /\ more \in BOOLEAN /\ slipped \in BOOLEAN
          BY <2>3
      <3>3. QED
          BY ONLY <2>4, <2>5, <3>1, <3>2, v \in RunRow DEF RunRow
<1>9. /\ v.phase = "list" => HasList /\ v.fit = {}
      /\ v.phase = "segment" => v.wants /\ v.fit = {}
    BY DEF Sound, OnItsWay
<1>10. OnItsWay(w)
    BY <1>7, <1>9 DEF OnItsWay, Begins
<1>11. Observed(w, people) /\ Qualified(people, v.wants) \subseteq v.ever
                           /\ v.steady \subseteq Qualified(people, v.wants)
    BY <1>7 DEF Observed, Sound, Begins
<1>12. Justified(w, people)
  <2>1. SUFFICES ASSUME ~ w.wide, NEW c \in w.fit, ~ people[c].barred
                 PROVE  c \in Who(w.ever)
      BY <1>7 DEF Justified, Sound
  <2>2. c \in Contacts /\ c \in rows /\ people[c].allowed
      BY <1>2, <1>3, <1>5, <1>7, <2>1
  <2>3. As(c, part) \in Qualified(people, v.wants)
      BY <1>3, <1>7, <1>9, <2>1, <2>2, QualifiedFor DEF Member, Matches
  <2>4. As(c, part) \in w.ever /\ As(c, part).who = c
      BY <1>7, <1>11, <2>3 DEF As
  <2>5. QED
      BY <2>4 DEF Who
<1>13. Covers(w)
  <2>1. SUFFICES ASSUME ~ w.slipped, ~ w.wide
                 PROVE  /\ Who(w.steady) \cap w.seen \subseteq w.drafts \cup w.fit
                        /\ Passed(w, part, IF w.more THEN w.cursor ELSE MaxContact)
                        /\ part = "segment" => Passed(w, "list", MaxContact)
    <3>1. \/ w.phase = "filterList" /\ part = "list"
          \/ w.phase = "filterSegment" /\ part = "segment"
        BY <1>7
    <3>2. QED
        BY <2>1, <3>1 DEF Covers
  <2>2. /\ v.cursor = Start \/ v.cursor \in rows
        /\ Who(v.steady) \cap v.seen \subseteq v.drafts
        /\ Passed(v, part, v.cursor)
        /\ part = "segment" => Passed(v, "list", MaxContact)
        /\ v.fit = {}
      BY <1>7, <1>9, <2>1 DEF Covers, Sound
  <2>3. ASSUME NEW c \in Contacts, c \in Who(w.steady), c \in fresh PROVE c \in w.fit
    <3>1. PICK f \in v.steady : f.who = c
        BY <1>7, <2>3 DEF Who
    <3>2. people[c].allowed
        BY <1>11, <3>1 DEF Qualified, As
    <3>3. QED
        BY <1>7, <2>3, <3>2
  <2>4. \A c \in Contacts, q \in {"list", "segment"} : As(c, q) \in w.steady => c \in Who(w.steady)
      BY DEF As, Who
  <2>5. Who(w.steady) \cap w.seen \subseteq w.drafts \cup w.fit
    <3>1. fresh \subseteq Contacts
        BY <1>2, <1>3, <1>5
    <3>2. QED
        BY <1>7, <2>2, <2>3, <3>1
  <2>6. ASSUME NEW c \in Contacts, As(c, part) \in w.steady, c \in page
        PROVE  c \in w.drafts \cup w.fit
    <3>1. c \in Who(w.steady)
        BY <2>4, <2>6
    <3>2. CASE c \in v.seen
        BY <1>7, <2>2, <3>1, <3>2
    <3>3. CASE c \notin v.seen
        BY <1>2, <2>3, <2>6, <3>1, <3>3
    <3>4. QED
        BY <3>2, <3>3
  <2>7. ASSUME NEW c \in Contacts, As(c, part) \in w.steady PROVE c \in rows
      BY <1>7, <1>11, <2>1, <2>7, QualifiedFor DEF Member, Matches
  <2>8. Passed(w, part, IF w.more THEN w.cursor ELSE MaxContact)
    <3>1. SUFFICES ASSUME NEW c \in Contacts, As(c, part) \in w.steady,
                          c <= (IF w.more THEN w.cursor ELSE MaxContact)
                   PROVE  c \in w.drafts \cup w.fit
        BY DEF Passed
    <3>2. CASE c <= v.cursor
        BY <1>7, <2>2, <3>1, <3>2 DEF Passed
    <3>3. CASE ~ c <= v.cursor
      <4>1. c > v.cursor
        <5>1. c \in Nat
            BY ContactsAreNumbers
        <5>2. v.cursor \in Nat
            BY <1>4, SMT DEF Start, Contacts
        <5>3. QED
            BY <3>3, <5>1, <5>2
      <4>2. c \in rows
          BY <2>7, <3>1
      <4>3. CASE ~ w.more
          BY <1>5, <1>7, <2>2, <2>6, <3>1, <4>1, <4>2, <4>3
      <4>4. CASE w.more
          BY <1>5, <1>7, <2>2, <2>6, <3>1, <4>1, <4>2, <4>4
      <4>5. QED
          BY <4>3, <4>4
    <3>4. QED
        BY <3>2, <3>3
  <2>9. part = "segment" => Passed(w, "list", MaxContact)
      BY <1>7, <2>2 DEF Passed
  <2>10. QED
      BY <2>5, <2>8, <2>9
<1>14. QED
    BY <1>7, <1>8, <1>10, <1>11, <1>12, <1>13 DEF Sound

(* A page filtered: what is in hand and not barred is drafted.              *)
LEMMA FilteredIsSound ==
    ASSUME AudienceConstantsOK, AudienceTypeOK, NEW v \in RunRow, Sound(v, people),
           v.phase \in {"filterList", "filterSegment"},
           NEW w, w = Filtered(v, {c \in v.fit : ~ people[c].barred})
    PROVE  w \in RunRow /\ Sound(w, people) /\ w.phase \in {"list", "segment", "commit"}
<1>1. PICK eligible : eligible = {c \in v.fit : ~ people[c].barred}
    OBVIOUS
<1>2. PICK ph : ph = After(v)
    OBVIOUS
<1>3. PICK cursor : cursor = IF v.more THEN v.cursor ELSE Start
    OBVIOUS
<1>4. /\ v.more => ph = IF v.phase = "filterList" THEN "list" ELSE "segment"
      /\ ~ v.more => ph = IF v.phase = "filterList" /\ v.wants THEN "segment" ELSE "commit"
      /\ ph \in {"list", "segment", "commit"}
    BY <1>2 DEF After
<1>5. w = [v EXCEPT !.phase = ph, !.cursor = cursor, !.page = {}, !.fit = {},
                    !.drafts = v.drafts \cup eligible]
    BY <1>1, <1>2, <1>3 DEF Filtered
<1>6. eligible \subseteq Contacts /\ cursor \in Contacts \cup {Start} /\ v.more \in BOOLEAN
    BY <1>1, <1>3 DEF RunRow
<1>7. w \in RunRow
    BY <1>4, <1>5, <1>6 DEF RunRow
<1>8. /\ w.phase = ph /\ w.wants = v.wants /\ w.wide = v.wide /\ w.cursor = cursor
      /\ w.fit = {} /\ w.seen = v.seen /\ w.slipped = v.slipped
      /\ w.drafts = v.drafts \cup eligible /\ w.steady = v.steady /\ w.ever = v.ever
    BY <1>5 DEF RunRow
<1>9. /\ v.phase = "filterList" => HasList
      /\ v.phase = "filterSegment" => v.wants
      /\ v.steady \subseteq Qualified(people, v.wants)
      /\ Qualified(people, v.wants) \subseteq v.ever
    BY DEF Sound, OnItsWay, Observed, Begins
<1>10. OnItsWay(w)
    BY <1>4, <1>8, <1>9 DEF OnItsWay, Begins
<1>11. Observed(w, people)
    BY <1>8, <1>9 DEF Observed
<1>12. Justified(w, people)
    BY <1>1, <1>8 DEF Justified, Sound
<1>13. Covers(w)
  <2>1. SUFFICES ASSUME ~ w.slipped, ~ w.wide PROVE Covers(w)
      BY DEF Covers
  <2>2. /\ Who(v.steady) \cap v.seen \subseteq v.drafts \cup v.fit
        /\ v.phase = "filterList" => Passed(v, "list", IF v.more THEN v.cursor ELSE MaxContact)
        /\ v.phase = "filterSegment" =>
              /\ Passed(v, "list", MaxContact)
              /\ Passed(v, "segment", IF v.more THEN v.cursor ELSE MaxContact)
      BY <1>8, <2>1 DEF Sound, Covers
  <2>3. Who(v.steady) \cap v.fit \subseteq eligible
    <3>1. \A c \in Who(v.steady) : ~ people[c].barred
        BY <1>9 DEF Who, Qualified, As
    <3>2. QED
        BY <1>1, <3>1
  <2>4. \A c \in Contacts, q \in {"list", "segment"} : As(c, q) \in v.steady => c \in Who(v.steady)
      BY DEF As, Who
  <2>5. ASSUME NEW q \in {"list", "segment"}, NEW last, Passed(v, q, last) PROVE Passed(w, q, last)
    <3>1. SUFFICES ASSUME NEW c \in Contacts, c <= last, As(c, q) \in w.steady
                   PROVE  c \in w.drafts \cup w.fit
        BY DEF Passed
    <3>2. c \in v.drafts \cup v.fit /\ c \in Who(v.steady)
        BY <1>8, <2>4, <2>5, <3>1 DEF Passed
    <3>3. QED
        BY <1>8, <2>3, <3>2
  <2>6. Passed(w, "segment", Start)
    <3>1. \A c \in Contacts : ~ c <= Start
        BY DEF Contacts, Start
    <3>2. QED
        BY <3>1 DEF Passed
  <2>7. ~ v.wants => Passed(w, "segment", MaxContact)
    <3>1. SUFFICES ASSUME ~ v.wants, NEW c \in Contacts, As(c, "segment") \in w.steady PROVE FALSE
        BY DEF Passed
    <3>2. As(c, "segment") \in Qualified(people, v.wants)
        BY <1>8, <1>9, <3>1
    <3>3. QED
        BY <3>1, <3>2, QualifiedFor
  <2>8. Who(w.steady) \cap w.seen \subseteq w.drafts \cup w.fit
      BY <1>8, <2>2, <2>3
  <2>9. CASE v.phase = "filterList"
    <3>1. CASE v.more
        BY <1>3, <1>4, <1>8, <2>2, <2>5, <2>8, <2>9, <3>1 DEF Covers
    <3>2. CASE ~ v.more
        BY <1>3, <1>4, <1>8, <2>2, <2>5, <2>6, <2>7, <2>8, <2>9, <3>2 DEF Covers
    <3>3. QED
        BY <3>1, <3>2
  <2>10. CASE v.phase = "filterSegment"
    <3>1. CASE v.more
        BY <1>3, <1>4, <1>8, <2>2, <2>5, <2>8, <2>10, <3>1 DEF Covers
    <3>2. CASE ~ v.more
        BY <1>3, <1>4, <1>8, <2>2, <2>5, <2>8, <2>10, <3>2 DEF Covers
    <3>3. QED
        BY <3>1, <3>2
  <2>11. QED
      BY <2>9, <2>10
<1>14. QED
    BY <1>4, <1>7, <1>8, <1>10, <1>11, <1>12, <1>13 DEF Sound

(* Contacts change under a run: its history is kept up to date.             *)
LEMMA StillSound ==
    ASSUME NEW v \in RunRow, Sound(v, people), NEW all, \A c \in Contacts : people[c].barred => all[c].barred,
           NEW w, w = IF v.phase \notin Begins
                      THEN [v EXCEPT !.steady = v.steady \cap Qualified(all, v.wants),
                                     !.ever = v.ever \cup Qualified(all, v.wants)]
                      ELSE v
    PROVE  w \in RunRow /\ Sound(w, all) /\ w.phase = v.phase
<1>1. CASE v.phase \in Begins
  <2>1. w = v /\ v.drafts = {} /\ v.seen = {} /\ v.fit = {} /\ OnItsWay(v)
      BY <1>1 DEF Sound, OnItsWay, Begins
  <2>2. Sound(w, all)
      BY <1>1, <2>1 DEF Sound, Observed, Justified, Covers, Begins
  <2>3. QED
      BY <2>1, <2>2
<1>2. CASE v.phase \notin Begins
  <2>1. PICK steady, ever : /\ steady = v.steady \cap Qualified(all, v.wants)
                            /\ ever = v.ever \cup Qualified(all, v.wants)
      OBVIOUS
  <2>2. w = [v EXCEPT !.steady = steady, !.ever = ever]
      BY <1>2, <2>1
  <2>3. steady \subseteq Found /\ ever \subseteq Found
      BY <2>1, QualifiedAreFound DEF RunRow
  <2>4. /\ w \in RunRow
        /\ w.phase = v.phase /\ w.wants = v.wants /\ w.wide = v.wide /\ w.cursor = v.cursor
        /\ w.fit = v.fit /\ w.seen = v.seen /\ w.slipped = v.slipped /\ w.more = v.more
        /\ w.drafts = v.drafts /\ w.steady = steady /\ w.ever = ever
      BY <2>2, <2>3 DEF RunRow
  <2>5. OnItsWay(w)
      BY <2>4 DEF Sound, OnItsWay
  <2>6. Observed(w, all)
      BY <2>1, <2>4 DEF Observed
  <2>7. Justified(w, all)
    <3>1. Who(v.ever) \subseteq Who(w.ever)
        BY <2>1, <2>4 DEF Who
    <3>2. w.fit \subseteq Contacts
        BY <2>4 DEF RunRow
    <3>3. QED
        BY <2>4, <3>1, <3>2 DEF Justified, Sound
  <2>8. Covers(w)
    <3>1. ASSUME NEW q, NEW last, Passed(v, q, last) PROVE Passed(w, q, last)
        BY <2>1, <2>4, <3>1 DEF Passed
    <3>2. Who(w.steady) \subseteq Who(v.steady)
        BY <2>1, <2>4 DEF Who
    <3>3. SUFFICES ASSUME ~ w.slipped, ~ w.wide PROVE Covers(w)
        BY DEF Covers
    <3>4. /\ Who(v.steady) \cap v.seen \subseteq v.drafts \cup v.fit
          /\ v.phase = "list" => Passed(v, "list", v.cursor)
          /\ v.phase = "filterList" => Passed(v, "list", IF v.more THEN v.cursor ELSE MaxContact)
          /\ v.phase \in {"segment", "filterSegment", "commit"} => Passed(v, "list", MaxContact)
          /\ v.phase = "segment" => Passed(v, "segment", v.cursor)
          /\ v.phase = "filterSegment" => Passed(v, "segment", IF v.more THEN v.cursor ELSE MaxContact)
          /\ v.phase = "commit" => Passed(v, "segment", MaxContact)
        BY <2>4, <3>3 DEF Sound, Covers
    <3>5. Who(w.steady) \cap w.seen \subseteq w.drafts \cup w.fit
        BY <2>4, <3>2, <3>4
    <3>6. QED
        BY <2>4, <3>1, <3>4, <3>5 DEF Covers
  <2>9. QED
      BY <2>4, <2>5, <2>6, <2>7, <2>8 DEF Sound
<1>3. QED
    BY <1>1, <1>2

(* The segment looked up.                                                   *)
LEMMA LookedUpIsSound ==
    ASSUME AudienceConstantsOK, AudienceTypeOK, NEW v \in RunRow, Sound(v, people), v.phase = "target",
           NEW w, w = [v EXCEPT
               !.phase = CASE HasList -> "list"
                           [] ~ HasList /\ v.wants /\ segment -> "segment"
                           [] OTHER -> "commit",
               !.wide = v.wants /\ ~ segment]
    PROVE  w \in RunRow /\ Sound(w, people) /\ w.phase \in {"list", "segment", "commit"}
<1>1. PICK ph : ph = CASE HasList -> "list"
                       [] ~ HasList /\ v.wants /\ segment -> "segment"
                       [] OTHER -> "commit"
    OBVIOUS
<1>2. /\ HasList => ph = "list"
      /\ ~ HasList => ph = IF v.wants /\ segment THEN "segment" ELSE "commit"
      /\ ph \in {"list", "segment", "commit"}
    BY <1>1
<1>3. PICK wide : wide = (v.wants /\ ~ segment)
    OBVIOUS
<1>4. wide \in BOOLEAN
    BY <1>3
<1>5. w = [v EXCEPT !.phase = ph, !.wide = wide]
    BY <1>1, <1>3
<1>6. /\ w \in RunRow
      /\ w.phase = ph /\ w.wants = v.wants /\ w.wide = wide /\ w.cursor = v.cursor
      /\ w.fit = v.fit /\ w.seen = v.seen /\ w.slipped = v.slipped
      /\ w.drafts = v.drafts /\ w.steady = v.steady /\ w.ever = v.ever
    BY <1>2, <1>4, <1>5 DEF RunRow
<1>7. /\ v.drafts = {} /\ v.seen = {} /\ v.cursor = Start /\ v.fit = {}
      /\ v.steady \subseteq Qualified(people, v.wants)
      /\ Qualified(people, v.wants) \subseteq v.ever
    BY DEF Sound, OnItsWay, Observed, Begins
<1>8. OnItsWay(w) /\ Observed(w, people) /\ Justified(w, people)
    BY <1>2, <1>6, <1>7 DEF OnItsWay, Observed, Justified, Begins
<1>9. Covers(w)
  <2>1. \A q \in {"list", "segment"} : Passed(w, q, Start)
    <3>1. \A c \in Contacts : ~ c <= Start
        BY DEF Contacts, Start
    <3>2. QED
        BY <3>1 DEF Passed
  <2>2. ~ HasList => Passed(w, "list", MaxContact)
      BY <1>6, <1>7, QualifiedFor DEF Passed
  <2>3. ~ v.wants => Passed(w, "segment", MaxContact)
      BY <1>6, <1>7, QualifiedFor DEF Passed
  <2>4. CASE ph = "list"
      BY <1>6, <1>7, <2>1, <2>4 DEF Covers
  <2>5. CASE ph = "segment"
      BY <1>2, <1>6, <1>7, <2>1, <2>2, <2>5 DEF Covers
  <2>6. CASE ph = "commit"
    <3>1. wide \/ ~ v.wants
        BY <1>2, <1>3, <2>6
    <3>2. QED
        BY <1>2, <1>6, <1>7, <2>2, <2>3, <2>6, <3>1 DEF Covers
  <2>7. QED
      BY <1>2, <2>4, <2>5, <2>6
<1>10. QED
    BY <1>2, <1>6, <1>8, <1>9 DEF Sound

(* One run takes a step, the contacts as they are.                          *)
LEMMA OneRunSteps ==
    ASSUME AudienceTypeOK, AllSound, NEW r \in Runs, NEW w \in RunRow, Sound(w, people),
           Goes(r, w), people' = people
    PROVE  /\ run' \in [Runs -> RunRow] /\ AllSound'
           /\ run'[r] = w /\ \A q \in Runs \ {r} : run'[q] = run[q]
<1>1. run \in [Runs -> RunRow] /\ run' = [run EXCEPT ![r] = w]
    BY DEF AudienceTypeOK, Goes
<1>2. run' \in [Runs -> RunRow] /\ run'[r] = w /\ \A q \in Runs \ {r} : run'[q] = run[q]
    BY <1>1
<1>3. ASSUME NEW q \in Runs PROVE Sound(run[q], people)'
  <2>1. PICK v : v = run'[q]
      OBVIOUS
  <2>2. Sound(v, people)
      BY <1>2, <2>1 DEF AllSound
  <2>3. QED
      BY <2>1, <2>2 DEF Sound, OnItsWay, Observed, Justified, Covers, Qualified, Passed
<1>4. QED
    BY <1>2, <1>3 DEF AllSound

(* A step of one run that leaves lock and recipients alone.                 *)
LEMMA RunGoesOn ==
    ASSUME AudienceConstantsOK, AudienceTypeOK, LockHeld, AllSound, NEW r \in Runs, NEW w \in RunRow, Sound(w, people),
           Goes(r, w), UNCHANGED <<people, segment, recipients, lock, changes>>,
           r \in Previews => w.phase \notin {"locking", "checking"},
           r \notin Previews /\ w.phase \notin {"idle", "locking", "over"} => lock = HeldBy(r),
           r \notin Previews /\ w.phase \notin Begins => recipients = {}
    PROVE  AudienceInv' /\ StaysFrozen
<1>1. /\ run' \in [Runs -> RunRow] /\ AllSound'
      /\ run'[r] = w /\ \A q \in Runs \ {r} : run'[q] = run[q]
    BY OneRunSteps
<1>2. AudienceTypeOK'
    BY <1>1 DEF AudienceTypeOK
<1>3. LockHeld'
    BY <1>1 DEF LockHeld, AudienceConstantsOK
<1>4. QED
    BY <1>1, <1>2, <1>3 DEF AudienceInv, StaysFrozen

(* A run that had the lock and ends lets it go: nobody else had come so far.*)
LEMMA RunEnds ==
    ASSUME AudienceConstantsOK, AudienceTypeOK, LockHeld, AllSound, NEW r \in Runs, Ends(r), NEW rows \in SUBSET Contacts,
           UNCHANGED <<people, segment, changes>>,
           \/ /\ recipients' = recipients
              /\ lock' = IF lock = HeldBy(r) THEN Free ELSE lock
           \/ /\ r \notin Previews /\ lock = HeldBy(r) /\ lock' = Free
              /\ recipients = {} /\ recipients' = rows
    PROVE  AudienceInv' /\ StaysFrozen
<1>1. PICK w : w = [NoRun EXCEPT !.phase = "over"]
    OBVIOUS
<1>2. w \in RunRow /\ Sound(w, people) /\ w.phase = "over"
    BY <1>1, OverIsSound
<1>3. /\ run' \in [Runs -> RunRow] /\ AllSound'
      /\ run'[r] = w /\ \A q \in Runs \ {r} : run'[q] = run[q]
    BY <1>1, <1>2, OneRunSteps DEF Ends
<1>4. AudienceTypeOK'
    BY <1>3 DEF AudienceTypeOK
<1>5. \A q \in Runs : HeldBy(q) = HeldBy(r) => q = r
  <2>1. \A q \in Runs : HeldBy(q).by = q
      BY DEF HeldBy
  <2>2. QED
      BY <2>1
<1>6. LockHeld'
  <2>1. ASSUME NEW q \in Runs \ Previews
        PROVE  /\ run'[q].phase \notin {"idle", "locking", "over"} => lock' = HeldBy(q)
               /\ run'[q].phase \notin Begins => recipients' = {}
    <3>1. CASE q = r
        BY <1>2, <1>3, <3>1 DEF Begins
    <3>2. CASE q # r
      <4>1. run'[q] = run[q] /\ HeldBy(q) # HeldBy(r)
          BY <1>3, <1>5, <3>2
      <4>2. /\ run[q].phase \notin {"idle", "locking", "over"} => lock = HeldBy(q)
            /\ run[q].phase \notin Begins => recipients = {} /\ lock = HeldBy(q)
          BY DEF LockHeld, Begins
      <4>3. QED
          BY <4>1, <4>2
    <3>3. QED
        BY <3>1, <3>2
  <2>2. ASSUME NEW q \in Previews PROVE run'[q].phase \notin {"locking", "checking"}
    <3>1. CASE q = r
        BY <1>2, <1>3, <3>1
    <3>2. CASE q # r
        BY <1>3, <3>2 DEF LockHeld, AudienceConstantsOK
    <3>3. QED
        BY <3>1, <3>2
  <2>3. QED
      BY <2>1, <2>2 DEF LockHeld
<1>7. QED
    BY <1>3, <1>4, <1>6 DEF AudienceInv, StaysFrozen

(* Contacts change under all runs.                                          *)
LEMMA ContactChangesStep ==
    ASSUME AudienceConstantsOK, AudienceInv, NEW c \in Contacts, ContactChanges(c)
    PROVE  AudienceInv' /\ StaysFrozen
<1> USE DEF AudienceInv
<1>1. PICK new : /\ new \in {[people[c] EXCEPT !.barred = TRUE],
                             [people[c] EXCEPT !.allowed = FALSE],
                             [people[c] EXCEPT !.member = ~ people[c].member],
                             [people[c] EXCEPT !.matches = ~ people[c].matches],
                             [people[c] EXCEPT !.there = FALSE]}
                 /\ people' = [people EXCEPT ![c] = new]
                 /\ Noted([people EXCEPT ![c] = new])
    BY DEF ContactChanges
<1>2. PICK all : all = [people EXCEPT ![c] = new]
    OBVIOUS
<1>3. people \in [Contacts -> ContactRow] /\ people[c] \in ContactRow
    BY DEF AudienceTypeOK
<1>4. new \in ContactRow /\ (people[c].barred => new.barred)
    BY <1>1, <1>3 DEF ContactRow
<1>5. all \in [Contacts -> ContactRow] /\ \A d \in Contacts : people[d].barred => all[d].barred
    BY <1>2, <1>3, <1>4
<1>6. ASSUME NEW r \in Runs
      PROVE  /\ run'[r] \in RunRow /\ Sound(run'[r], all) /\ run'[r].phase = run[r].phase
  <2>1. PICK v : v = run[r]
      OBVIOUS
  <2>2. PICK w : w = IF v.phase \notin Begins
                     THEN [v EXCEPT !.steady = v.steady \cap Qualified(all, v.wants),
                                    !.ever = v.ever \cup Qualified(all, v.wants)]
                     ELSE v
      OBVIOUS
  <2>3. run'[r] = w
      BY <1>1, <1>2, <2>1, <2>2 DEF Noted, Walking, Begins
  <2>4. v \in RunRow /\ Sound(v, people)
      BY <2>1 DEF AudienceTypeOK, AllSound
  <2>5. w \in RunRow /\ Sound(w, all) /\ w.phase = v.phase
      BY <1>5, <2>2, <2>4, StillSound
  <2>6. QED
      BY <2>1, <2>3, <2>5
<1>7. UNCHANGED <<segment, recipients, lock>> /\ changes' \in 0..MaxChanges
    BY DEF ContactChanges, Changes, AudienceTypeOK, AudienceConstantsOK
<1>8. AudienceTypeOK'
  <2>1. run' \in [Runs -> RunRow]
      BY <1>1, <1>6 DEF Noted
  <2>2. QED
      BY <1>1, <1>2, <1>5, <1>7, <2>1 DEF AudienceTypeOK
<1>9. LockHeld'
    BY <1>6, <1>7 DEF LockHeld, AudienceConstantsOK
<1>10. AllSound'
  <2>1. ASSUME NEW r \in Runs PROVE Sound(run[r], people)'
    <3>1. PICK w : w = run'[r]
        OBVIOUS
    <3>2. Sound(w, people')
        BY <1>1, <1>2, <1>6, <3>1
    <3>3. QED
        BY <3>1, <3>2 DEF Sound, OnItsWay, Observed, Justified, Covers, Qualified, Passed
  <2>2. QED
      BY <2>1 DEF AllSound
<1>11. QED
    BY <1>7, <1>8, <1>9, <1>10 DEF StaysFrozen

LEMMA AudienceStep ==
    ASSUME AudienceConstantsOK, AudienceInv, [AudienceNext]_audienceVars
    PROVE  AudienceInv' /\ [StaysFrozen]_audienceVars
<1> USE DEF AudienceInv
<1>1. ASSUME NEW r \in Runs, Begin(r) PROVE AudienceInv' /\ StaysFrozen
  <2>1. UNCHANGED <<people, segment, recipients, lock, changes>>
      BY <1>1 DEF Begin
  <2>2. CASE r \in Previews
    <3>1. Goes(r, Begun(HasSegment))
        BY <1>1, <2>2 DEF Begin
    <3>2. PICK w : w = Begun(HasSegment)
        OBVIOUS
    <3>3. w \in RunRow /\ Sound(w, people) /\ w.phase = "target"
      <4>1. w \in RunRow /\ Sound(w, people)
          BY <3>2, BegunIsSound DEF AudienceConstantsOK
      <4>2. w.phase = "target"
          BY <3>2 DEF Begun, NoRun
      <4>3. QED
          BY <4>1, <4>2
    <3>4. QED
        BY <2>1, <2>2, <3>1, <3>2, <3>3, RunGoesOn
  <2>3. CASE r \notin Previews
    <3>1. PICK ph : ph = IF recipients # {} THEN "over" ELSE "locking"
        OBVIOUS
    <3>2. PICK w : w = [NoRun EXCEPT !.wants = segment, !.phase = ph]
        OBVIOUS
    <3>3. Goes(r, w)
        BY <1>1, <2>3, <3>1, <3>2 DEF Begin
    <3>4. w \in RunRow /\ Sound(w, people) /\ w.phase = ph
      <4>1. ph \in Begins /\ segment \in BOOLEAN
          BY <3>1 DEF Begins, AudienceTypeOK
      <4>2. w \in RunRow /\ Sound(w, people)
          BY <3>2, <4>1, NoRunIsSound
      <4>3. w.phase = ph
          BY <3>2 DEF NoRun
      <4>4. QED
          BY <4>2, <4>3
    <3>5. ph \in {"over", "locking"}
        BY <3>1
    <3>6. QED
        BY <2>1, <2>3, <3>3, <3>4, <3>5, RunGoesOn DEF Begins
  <2>4. QED
      BY <2>2, <2>3
<1>2. ASSUME NEW r \in Runs, TakeLock(r) PROVE AudienceInv' /\ StaysFrozen
  <2>1. PICK v, w : v = run[r] /\ w = [v EXCEPT !.phase = "checking"]
      OBVIOUS
  <2>2. /\ v \in RunRow /\ Sound(v, people) /\ v.phase = "locking" /\ r \notin Previews
        /\ Goes(r, w) /\ lock = Free /\ lock' = HeldBy(r)
        /\ UNCHANGED <<people, segment, recipients, changes>>
      BY <1>2, <2>1 DEF TakeLock, AudienceTypeOK, AllSound, LockHeld
  <2>3. /\ w \in RunRow /\ w.phase = "checking" /\ w.wide = v.wide /\ w.slipped = v.slipped
        /\ w.drafts = v.drafts /\ w.seen = v.seen /\ w.fit = v.fit /\ w.cursor = v.cursor
      BY <2>1, <2>2 DEF RunRow
  <2>4. Sound(w, people)
    <3>1. v.drafts = {} /\ v.seen = {} /\ v.fit = {} /\ v.cursor = Start /\ ~ v.wide /\ ~ v.slipped
        BY <2>2 DEF Sound, OnItsWay, Begins
    <3>2. QED
        BY <2>3, <3>1 DEF Sound, OnItsWay, Observed, Justified, Covers, Begins
  <2>5. /\ run' \in [Runs -> RunRow] /\ AllSound'
        /\ run'[r] = w /\ \A q \in Runs \ {r} : run'[q] = run[q]
      BY <2>2, <2>3, <2>4, OneRunSteps
  <2>6. AudienceTypeOK'
      BY <2>2, <2>5 DEF AudienceTypeOK
  <2>7. \A q \in Runs : lock # HeldBy(q)
      BY <2>2 DEF Free, HeldBy
  <2>8. LockHeld'
      BY <2>2, <2>3, <2>5, <2>7 DEF LockHeld, Begins, AudienceConstantsOK
  <2>9. QED
      BY <2>2, <2>5, <2>6, <2>8 DEF StaysFrozen
<1>3. ASSUME NEW r \in Runs, CheckAgain(r) PROVE AudienceInv' /\ StaysFrozen
  <2>1. r \notin Previews /\ lock = HeldBy(r)
      BY <1>3 DEF CheckAgain, LockHeld
  <2>2. CASE recipients # {}
    <3>1. Ends(r) /\ lock' = Free /\ UNCHANGED <<people, segment, recipients, changes>>
        BY <1>3, <2>2 DEF CheckAgain
    <3>2. QED
        BY <2>1, <3>1, RunEnds
  <2>3. CASE recipients = {}
    <3>1. PICK seg, w : seg = run[r].wants /\ w = Begun(seg)
        OBVIOUS
    <3>2. Goes(r, w) /\ UNCHANGED <<people, segment, recipients, lock, changes>>
        BY <1>3, <2>3, <3>1 DEF CheckAgain
    <3>3. seg \in BOOLEAN
        BY <3>1 DEF AudienceTypeOK, RunRow
    <3>4. w \in RunRow /\ Sound(w, people)
        BY <3>1, <3>3, BegunIsSound
    <3>5. w.phase = "target"
        BY <3>1 DEF Begun, NoRun
    <3>6. QED
        BY <2>1, <2>3, <3>2, <3>4, <3>5, RunGoesOn
  <2>4. QED
      BY <2>2, <2>3
<1>4. ASSUME NEW r \in Runs, NEW w \in RunRow, Sound(w, people), Goes(r, w),
             UNCHANGED <<people, segment, recipients, lock, changes>>,
             run[r].phase \notin Begins, w.phase \notin Begins
      PROVE  AudienceInv' /\ StaysFrozen
  <2>1. r \notin Previews => lock = HeldBy(r) /\ recipients = {}
      BY <1>4 DEF LockHeld, Begins
  <2>2. QED
      BY <1>4, <2>1, RunGoesOn DEF Begins
<1>5. ASSUME NEW r \in Runs, LookUpSegment(r) PROVE AudienceInv' /\ StaysFrozen
  <2>1. PICK v, w : /\ v = run[r]
                    /\ w = [v EXCEPT
                           !.phase = CASE HasList -> "list"
                                       [] ~ HasList /\ v.wants /\ segment -> "segment"
                                       [] OTHER -> "commit",
                           !.wide = v.wants /\ ~ segment]
      OBVIOUS
  <2>2. /\ v \in RunRow /\ Sound(v, people) /\ v.phase = "target" /\ Goes(r, w)
        /\ UNCHANGED <<people, segment, recipients, lock, changes>>
      BY <1>5, <2>1 DEF LookUpSegment, AudienceTypeOK, AllSound
  <2>3. w \in RunRow /\ Sound(w, people) /\ w.phase \in {"list", "segment", "commit"}
      BY <2>1, <2>2, LookedUpIsSound
  <2>4. QED
      BY <1>4, <2>1, <2>2, <2>3 DEF Begins
<1>6. ASSUME NEW r \in Runs, ReadList(r) PROVE AudienceInv' /\ StaysFrozen
  <2>1. PICK v, rows, w : /\ v = run[r] /\ rows = {c \in Contacts : Member(c)}
                          /\ w = Turned(v, rows, "filterList")
      OBVIOUS
  <2>2. /\ v \in RunRow /\ Sound(v, people) /\ v.phase = "list" /\ Goes(r, w)
        /\ UNCHANGED <<people, segment, recipients, lock, changes>>
      BY <1>6, <2>1 DEF ReadList, AudienceTypeOK, AllSound
  <2>3. w \in RunRow /\ Sound(w, people) /\ w.phase = "filterList"
      BY <2>1, <2>2, TurnedIsSound
  <2>4. QED
      BY <1>4, <2>1, <2>2, <2>3 DEF Begins
<1>7. ASSUME NEW r \in Runs, ReadSegment(r) PROVE AudienceInv' /\ StaysFrozen
  <2>1. PICK v, rows, w : /\ v = run[r]
                          /\ rows = {c \in Contacts : IF v.wide THEN people[c].there ELSE Matches(c)}
                          /\ w = Turned(v, rows, "filterSegment")
      OBVIOUS
  <2>2. /\ v \in RunRow /\ Sound(v, people) /\ v.phase = "segment" /\ Goes(r, w)
        /\ UNCHANGED <<people, segment, recipients, lock, changes>>
      BY <1>7, <2>1 DEF ReadSegment, AudienceTypeOK, AllSound
  <2>3. w \in RunRow /\ Sound(w, people) /\ w.phase = "filterSegment"
      BY <2>1, <2>2, TurnedIsSound
  <2>4. QED
      BY <1>4, <2>1, <2>2, <2>3 DEF Begins
<1>8. ASSUME NEW r \in Runs, Filter(r) PROVE AudienceInv' /\ StaysFrozen
  <2>1. PICK v, w : v = run[r] /\ w = Filtered(v, {c \in v.fit : ~ people[c].barred})
      OBVIOUS
  <2>2. /\ v \in RunRow /\ Sound(v, people) /\ v.phase \in {"filterList", "filterSegment"}
        /\ Goes(r, w) /\ UNCHANGED <<people, segment, recipients, lock, changes>>
      BY <1>8, <2>1 DEF Filter, AudienceTypeOK, AllSound
  <2>3. w \in RunRow /\ Sound(w, people) /\ w.phase \in {"list", "segment", "commit"}
      BY <2>1, <2>2, FilteredIsSound
  <2>4. QED
      BY <1>4, <2>1, <2>2, <2>3 DEF Begins
<1>9. ASSUME NEW r \in Runs, Commit(r) PROVE AudienceInv' /\ StaysFrozen
  <2>1. run[r].phase = "commit" /\ Ends(r) /\ UNCHANGED <<people, segment, changes>>
      BY <1>9 DEF Commit
  <2>2. CASE r \in Previews
    <3>1. lock # HeldBy(r)
      <4>1. \A q \in Runs : HeldBy(q).by = q
          BY DEF HeldBy
      <4>2. lock = Free \/ \E q \in Runs \ Previews : lock = HeldBy(q)
          BY DEF AudienceTypeOK
      <4>3. Free # HeldBy(r)
          BY DEF Free, HeldBy
      <4>4. QED
          BY <2>2, <4>1, <4>2, <4>3
    <3>2. recipients' = recipients /\ lock' = lock
        BY <1>9, <2>2 DEF Commit
    <3>3. QED
        BY <2>1, <3>1, <3>2, RunEnds
  <2>3. CASE r \notin Previews
    <3>1. lock = HeldBy(r) /\ recipients = {}
        BY <2>1, <2>3 DEF LockHeld, Begins
    <3>2. PICK rows : rows = run[r].drafts
        OBVIOUS
    <3>3. rows \subseteq Contacts
        BY <3>2 DEF AudienceTypeOK, RunRow
    <3>4. recipients' = rows /\ lock' = Free
        BY <1>9, <2>3, <3>1, <3>2 DEF Commit
    <3>5. QED
        BY <2>1, <2>3, <3>1, <3>3, <3>4, RunEnds
  <2>4. QED
      BY <2>2, <2>3
<1>10. ASSUME NEW r \in Runs, RollBack(r) PROVE AudienceInv' /\ StaysFrozen
  <2>1. /\ Ends(r) /\ UNCHANGED <<people, segment, recipients, changes>>
        /\ lock' = IF lock = HeldBy(r) THEN Free ELSE lock
      BY <1>10 DEF RollBack
  <2>2. QED
      BY <2>1, RunEnds
<1>11. ASSUME NEW c \in Contacts, ContactChanges(c) PROVE AudienceInv' /\ StaysFrozen
    BY <1>11, ContactChangesStep
<1>12. ASSUME SegmentGoes PROVE AudienceInv' /\ StaysFrozen
  <2>1. /\ UNCHANGED <<people, recipients, run, lock>> /\ segment' \in BOOLEAN
        /\ changes' \in 0..MaxChanges
    <3>1. UNCHANGED <<people, recipients, run, lock>> /\ segment' = FALSE
        BY <1>12 DEF SegmentGoes
    <3>2. changes' \in 0..MaxChanges
        BY <1>12 DEF SegmentGoes, Changes, AudienceTypeOK, AudienceConstantsOK
    <3>3. QED
        BY <3>1, <3>2
  <2>2. AudienceTypeOK' /\ LockHeld'
      BY <2>1 DEF AudienceTypeOK, LockHeld
  <2>3. AllSound'
      BY <2>1 DEF AllSound, Sound, OnItsWay, Observed, Justified, Covers, Qualified, Passed
  <2>4. QED
      BY <2>1, <2>2, <2>3 DEF StaysFrozen
<1>13. ASSUME UNCHANGED audienceVars PROVE AudienceInv'
  <2>1. UNCHANGED <<people, segment, recipients, run, lock, changes>>
      BY <1>13 DEF audienceVars
  <2>2. AudienceTypeOK' /\ LockHeld'
      BY <2>1 DEF AudienceTypeOK, LockHeld
  <2>3. AllSound'
      BY <2>1 DEF AllSound, Sound, OnItsWay, Observed, Justified, Covers, Qualified, Passed
  <2>4. QED
      BY <2>2, <2>3
<1>14. QED
    BY <1>1, <1>2, <1>3, <1>5, <1>6, <1>7, <1>8, <1>9, <1>10, <1>11, <1>12, <1>13
    DEF AudienceNext

(* The inductive invariant of the audience: who has the lock and may write, *)
(* what each run has in hand, and what it has passed.                       *)
THEOREM AudienceInvariantHolds ==
    ASSUME AudienceConstantsOK
    PROVE  AudienceSpec => []AudienceInv
<1>1. AudienceInit => AudienceInv
  <2>1. SUFFICES ASSUME AudienceInit PROVE AudienceInv
      OBVIOUS
  <2>2. people \in [Contacts -> ContactRow]
      BY <2>1 DEF AudienceInit, ContactRow
  <2>3. PICK w : w = [NoRun EXCEPT !.wants = FALSE, !.phase = "idle"]
      OBVIOUS
  <2>4. w \in RunRow /\ Sound(w, people)
      BY <2>3, NoRunIsSound DEF Begins
  <2>5. w = NoRun
      BY <2>3 DEF NoRun
  <2>6. \A r \in Runs : run[r] = w /\ run[r].phase = "idle"
      BY <2>1, <2>5 DEF AudienceInit, NoRun
  <2>7. AudienceTypeOK
      BY <2>1, <2>2, <2>4, <2>5 DEF AudienceInit, AudienceTypeOK, AudienceConstantsOK
  <2>8. LockHeld /\ AllSound
      BY <2>4, <2>6 DEF LockHeld, AllSound, Begins, AudienceConstantsOK
  <2>9. QED
      BY <2>7, <2>8 DEF AudienceInv
<1>2. AudienceInv /\ [AudienceNext]_audienceVars => AudienceInv'
    BY AudienceStep
<1>3. QED
    BY <1>1, <1>2, PTL DEF AudienceSpec

(* Snapshots at once fix the recipients of a campaign once, for any number  *)
(* of snapshots, contacts and changes: who writes has looked under the lock.*)
THEOREM RecipientsAreFixedOnce ==
    ASSUME AudienceConstantsOK
    PROVE  AudienceSpec => SnapshotIsFrozen
<1>1. AudienceInv /\ [AudienceNext]_audienceVars => [StaysFrozen]_audienceVars
    BY AudienceStep
<1>2. QED
    BY <1>1, AudienceInvariantHolds, PTL DEF AudienceSpec, SnapshotIsFrozen

(* A walk finds whom it should, for any number of contacts and changes and  *)
(* any size of its pages, with the exceptions that RightAudience names.     *)
THEOREM WalksFindTheirAudience ==
    ASSUME AudienceConstantsOK
    PROVE  AudienceSpec => []RightAudience
<1>1. ASSUME AudienceInv PROVE RightAudience
  <2>1. ASSUME NEW r \in Runs, run[r].phase = "commit", ~ run[r].slipped, ~ run[r].wide,
               NEW c \in Who(run[r].steady)
        PROVE  c \in run[r].drafts
    <3>1. PICK v : v = run[r]
        OBVIOUS
    <3>2. v \in RunRow /\ Sound(v, people) /\ v.phase = "commit" /\ ~ v.slipped /\ ~ v.wide
        BY <1>1, <2>1, <3>1 DEF AudienceInv, AudienceTypeOK, AllSound
    <3>3. /\ v.steady \subseteq Qualified(people, v.wants) /\ v.fit = {}
          /\ Passed(v, "list", MaxContact) /\ Passed(v, "segment", MaxContact)
        BY <3>2 DEF Sound, OnItsWay, Observed, Covers, Begins
    <3>4. PICK f \in v.steady : f.who = c
        BY <2>1, <3>1 DEF Who
    <3>5. PICK d \in Contacts : f = As(d, "list") \/ f = As(d, "segment")
        BY <3>3, <3>4, QualifiedAreFound
    <3>6. d = c /\ d <= MaxContact
        BY <3>4, <3>5 DEF As, Contacts
    <3>7. QED
        BY <3>1, <3>3, <3>4, <3>5, <3>6 DEF Passed
  <2>2. NobodyElse
      BY <1>1 DEF AudienceInv, AllSound, Sound, Justified, NobodyElse
  <2>3. QED
      BY <2>1, <2>2 DEF RightAudience, NobodyForgotten
<1>2. QED
    BY <1>1, AudienceInvariantHolds, PTL

-----------------------------------------------------------------------------
(* Segments: the two interpreters of a tree of conditions (Segments).       *)

(* A tree is finite: some node of a set of nodes stands lowest.             *)
LEMMA LowestNode ==
    ASSUME SegmentConstantsOK, NEW T, T \subseteq Nodes, T # {}
    PROVE  \E n \in T : \A m \in T : Height[n] <= Height[m]
<1> DEFINE Heights == {Height[n] : n \in T}
<1>1. Heights \subseteq Nat /\ Heights # {}
    BY DEF SegmentConstantsOK
<1>2. PICK h \in Heights : \A k \in Heights : h <= k
    BY <1>1, LeastOne
<1>3. QED
    BY <1>2

LEMMA ConditionsStandLower ==
    ASSUME SegmentConstantsOK, NEW n \in Groups, NEW i \in DOMAIN n.conditions
    PROVE  /\ n \in Nodes /\ n.conditions[i] \in Nodes
           /\ Height[n] \in Nat /\ Height[n.conditions[i]] \in Nat
           /\ Height[n.conditions[i]] < Height[n]
<1>1. n \in Nodes /\ n.conditions \in Seq(Nodes) /\ Height[n.conditions[i]] < Height[n]
    BY DEF SegmentConstantsOK, Groups
<1>2. n.conditions[i] \in Nodes
    BY <1>1
<1>3. QED
    BY <1>1, <1>2 DEF SegmentConstantsOK

(* What f says of the conditions of a group.                                *)
Results(f, n) == IF n \in Groups THEN [i \in DOMAIN n.conditions |-> f[n.conditions[i]]] ELSE <<>>

LEMMA ResultsDependOnConditions ==
    ASSUME SegmentConstantsOK, NEW f, NEW g, NEW n \in Nodes,
           \A m \in Nodes : Height[m] < Height[n] => f[m] = g[m]
    PROVE  Results(f, n) = Results(g, n)
<1>1. CASE n \in Groups
  <2>1. \A i \in DOMAIN n.conditions : f[n.conditions[i]] = g[n.conditions[i]]
      BY <1>1, ConditionsStandLower
  <2>2. QED
      BY <1>1, <2>1 DEF Results
<1>2. QED
    BY <1>1 DEF Results

LEMMA ResultsType ==
    ASSUME SegmentConstantsOK, NEW V, NEW f, NEW n \in Nodes,
           \A m \in Nodes : Height[m] < Height[n] => f[m] \in V
    PROVE  Results(f, n) \in Seq(V)
<1>1. CASE n \in Groups
  <2>1. \A i \in DOMAIN n.conditions : f[n.conditions[i]] \in V
      BY <1>1, ConditionsStandLower
  <2>2. n.conditions \in Seq(Nodes)
      BY <1>1 DEF SegmentConstantsOK
  <2>3. DOMAIN n.conditions = 1..Len(n.conditions) /\ Len(n.conditions) \in Nat
      BY <2>2
  <2>4. QED
      BY <1>1, <2>1, <2>3 DEF Results
<1>2. QED
    BY <1>1 DEF Results

(* A definition by recursion over the nodes has a solution.                 *)
Joins(Join, V) == \A n \in Nodes : \A s \in Seq(V) : Join[<<n, s>>] \in V
Follows(f, Join, V) == f \in [Nodes -> V] /\ \A n \in Nodes : f[n] = Join[<<n, Results(f, n)>>]

LEMMA RecursionOverNodes ==
    ASSUME SegmentConstantsOK, NEW V, NEW Join, Joins(Join, V)
    PROVE  \E f : Follows(f, Join, V)
<1> DEFINE Under(k) == {n \in Nodes : Height[n] < k}
           Solves(f, k) == /\ f \in [Under(k) -> V]
                           /\ \A n \in Under(k) : f[n] = Join[<<n, Results(f, n)>>]
<1>j. \A n \in Nodes : \A s \in Seq(V) : Join[<<n, s>>] \in V
    BY DEF Joins
<1>h. \A n \in Nodes : Height[n] \in Nat
    BY DEF SegmentConstantsOK
<1>1. ASSUME NEW j \in Nat, NEW k \in Nat, j <= k, NEW f, Solves(f, j), NEW g, Solves(g, k)
      PROVE  \A n \in Under(j) : f[n] = g[n]
  <2> DEFINE Bad == {n \in Under(j) : f[n] # g[n]}
  <2>1. SUFFICES ASSUME Bad # {} PROVE FALSE
      OBVIOUS
  <2>2. PICK n \in Bad : \A m \in Bad : Height[n] <= Height[m]
      BY <2>1, LowestNode
  <2>3. \A m \in Nodes : Height[m] < Height[n] => f[m] = g[m]
    <3>1. SUFFICES ASSUME NEW m \in Nodes, Height[m] < Height[n] PROVE m \notin Bad /\ m \in Under(j)
        OBVIOUS
    <3>2. Height[m] \in Nat /\ Height[n] \in Nat /\ Height[n] < j
        BY <1>h, <2>2
    <3>3. m \in Under(j)
        BY <3>1, <3>2
    <3>4. m \notin Bad
      <4>1. SUFFICES ASSUME m \in Bad PROVE FALSE
          OBVIOUS
      <4>2. Height[n] <= Height[m]
          BY <2>2, <4>1
      <4>3. QED
          BY <3>1, <3>2, <4>2
    <3>5. QED
        BY <3>3, <3>4
  <2>4. n \in Nodes /\ n \in Under(j) /\ n \in Under(k)
      BY <1>1, <1>h, <2>2
  <2>5. Results(f, n) = Results(g, n)
      BY <2>3, <2>4, ResultsDependOnConditions
  <2>6. f[n] = Join[<<n, Results(f, n)>>] /\ g[n] = Join[<<n, Results(g, n)>>]
      BY <1>1, <2>4
  <2>7. QED
      BY <2>2, <2>5, <2>6
<1>2. \A k \in Nat : \E f : Solves(f, k)
  <2> DEFINE Bad == {k \in Nat : ~ \E f : Solves(f, k)}
  <2>1. SUFFICES ASSUME Bad # {} PROVE FALSE
      OBVIOUS
  <2>2. PICK k \in Bad : \A j \in Bad : k <= j
      BY <2>1, LeastOne
  <2>3. CASE k = 0
    <3>1. Under(k) = {}
        BY <1>h, <2>3
    <3>2. Solves([n \in {} |-> n], k)
        BY <3>1
    <3>3. QED
        BY <2>2, <3>2
  <2>4. CASE k # 0
    <3>0. k \in Nat /\ k - 1 \in Nat /\ ~ k <= k - 1
        BY <2>2, <2>4
    <3>1. k \in Nat /\ k - 1 \in Nat /\ \E f : Solves(f, k - 1)
      <4>1. SUFFICES ASSUME k - 1 \in Bad PROVE FALSE
          BY <3>0
      <4>2. k <= k - 1
          BY <2>2, <4>1
      <4>3. QED
          BY <3>0, <4>2
    <3>2. PICK f : Solves(f, k - 1)
        BY <3>1
    <3> DEFINE g == [n \in Under(k) |-> Join[<<n, Results(f, n)>>]]
    <3>3. ASSUME NEW n \in Under(k), NEW m \in Nodes, Height[m] < Height[n] PROVE m \in Under(k - 1) /\ m \in Under(k)
      <4>1. Height[m] \in Nat /\ Height[n] \in Nat /\ Height[n] < k
          BY <1>h, <3>3
      <4>2. QED
          BY <3>1, <3>3, <4>1
    <3>4. \A m \in Under(k - 1) : m \in Under(k) => f[m] = g[m]
        BY <3>2
    <3>5. \A n \in Under(k) : Results(f, n) = Results(g, n)
      <4>1. SUFFICES ASSUME NEW n \in Under(k) PROVE Results(f, n) = Results(g, n)
          OBVIOUS
      <4>2. \A m \in Nodes : Height[m] < Height[n] => f[m] = g[m]
          BY <3>3, <3>4
      <4>3. n \in Nodes
          OBVIOUS
      <4> HIDE DEF g
      <4>4. QED
          BY <4>2, <4>3, ResultsDependOnConditions
    <3>6. \A n \in Under(k) : Join[<<n, Results(f, n)>>] \in V
      <4>1. SUFFICES ASSUME NEW n \in Under(k) PROVE Results(f, n) \in Seq(V)
          BY <1>j
      <4>2. \A m \in Nodes : Height[m] < Height[n] => f[m] \in V
          BY <3>2, <3>3
      <4>3. QED
          BY <4>2, ResultsType
    <3>7. Solves(g, k)
        BY <3>5, <3>6
    <3>8. QED
        BY <2>2, <3>7
  <2>5. QED
      BY <2>3, <2>4
<1> DEFINE F == [k \in Nat |-> CHOOSE f : Solves(f, k)]
           whole == [n \in Nodes |-> F[Height[n] + 1][n]]
<1>3. \A k \in Nat : Solves(F[k], k)
  <2>1. SUFFICES ASSUME NEW k \in Nat PROVE Solves(F[k], k)
      OBVIOUS
  <2>2. \E f : Solves(f, k)
      BY <1>2
  <2> HIDE DEF Solves
  <2>3. Solves(CHOOSE f : Solves(f, k), k)
      BY <2>2
  <2>4. QED
      BY <2>3
<1> HIDE DEF F
<1>4. ASSUME NEW n \in Nodes
      PROVE  whole[n] \in V /\ whole[n] = Join[<<n, Results(whole, n)>>]
  <2>1. Height[n] \in Nat /\ Height[n] + 1 \in Nat /\ n \in Under(Height[n] + 1)
      BY <1>h
  <2>2. Solves(F[Height[n] + 1], Height[n] + 1)
      BY <1>3, <2>1
  <2>3. \A m \in Nodes : Height[m] < Height[n] => whole[m] = F[Height[n] + 1][m]
    <3>1. SUFFICES ASSUME NEW m \in Nodes, Height[m] < Height[n]
                   PROVE  F[Height[m] + 1][m] = F[Height[n] + 1][m]
        OBVIOUS
    <3>2. Height[m] + 1 \in Nat /\ Height[m] + 1 <= Height[n] + 1 /\ m \in Under(Height[m] + 1)
        BY <1>h, <2>1, <3>1
    <3>3. Solves(F[Height[m] + 1], Height[m] + 1)
        BY <1>3, <3>2
    <3> HIDE DEF Solves, Under
    <3>4. QED
        BY <1>1, <2>1, <2>2, <3>2, <3>3
  <2>4. Results(whole, n) = Results(F[Height[n] + 1], n)
      BY <2>3, ResultsDependOnConditions
  <2>5. F[Height[n] + 1][n] \in V /\ F[Height[n] + 1][n] = Join[<<n, Results(F[Height[n] + 1], n)>>]
      BY <2>1, <2>2
  <2>6. QED
      BY <2>4, <2>5
<1>5. QED
  <2>1. whole \in [Nodes -> V]
      BY <1>4
  <2>2. QED
      BY <1>4, <2>1 DEF Follows

(* A verdict is one of three, that of a group one of its conditions' or     *)
(* what goes on.                                                            *)
Sayings == {"yes", "no", "error"}

LEMMA MinIsMember ==
    ASSUME NEW T, T \subseteq Nat, T # {}
    PROVE  Min(T) \in T
<1>1. \E x \in T : \A y \in T : x <= y
    BY LeastOne
<1>2. QED
    BY <1>1 DEF Min

LEMMA DecideType ==
    ASSUME NEW conj, NEW s \in Seq(Sayings)
    PROVE  Decide(conj, s) \in Sayings
<1> DEFINE goesOn == IF conj = "AND" THEN "yes" ELSE "no"
           decides == {i \in DOMAIN s : s[i] # goesOn}
<1>1. decides \subseteq Nat /\ \A i \in decides : s[i] \in Sayings
    OBVIOUS
<1>2. CASE decides = {}
    BY <1>2 DEF Decide, Sayings
<1>3. CASE decides # {}
  <2>1. Min(decides) \in decides
      BY <1>1, <1>3, MinIsMember
  <2>2. s[Min(decides)] \in Sayings
      BY <1>1, <2>1
  <2>3. QED
      BY <1>3, <2>2 DEF Decide
<1>4. QED
    BY <1>2, <1>3

(* Where no condition throws, the verdict on a group is AND or OR.          *)
LEMMA DecideIsAndOr ==
    ASSUME NEW conj, NEW s \in Seq({"yes", "no"})
    PROVE  /\ Decide(conj, s) \in {"yes", "no"}
           /\ conj = "AND" => (Decide(conj, s) = "yes" <=> \A i \in DOMAIN s : s[i] = "yes")
           /\ conj # "AND" => (Decide(conj, s) = "yes" <=> \E i \in DOMAIN s : s[i] = "yes")
<1> DEFINE goesOn == IF conj = "AND" THEN "yes" ELSE "no"
           decides == {i \in DOMAIN s : s[i] # goesOn}
<1>1. decides \subseteq Nat /\ \A i \in DOMAIN s : s[i] \in {"yes", "no"}
    OBVIOUS
<1>2. CASE decides = {}
  <2>1. Decide(conj, s) = goesOn
      BY <1>2 DEF Decide
  <2>2. \A i \in DOMAIN s : s[i] = goesOn
      BY <1>2
  <2>3. QED
      BY <2>1, <2>2
<1>3. CASE decides # {}
  <2>1. Min(decides) \in decides
      BY <1>1, <1>3, MinIsMember
  <2>2. Decide(conj, s) = s[Min(decides)]
      BY <1>3 DEF Decide
  <2>3. /\ Min(decides) \in DOMAIN s /\ s[Min(decides)] # goesOn
        /\ s[Min(decides)] \in {"yes", "no"}
      BY <1>1, <2>1
  <2>4. QED
      BY <2>2, <2>3
<1>4. QED
    BY <1>2, <1>3

LEMMA VerdictsRule ==
    ASSUME SegmentConstantsOK, NEW says \in [Conditions -> Sayings]
    PROVE  /\ \A n \in Nodes : Verdicts(says)[n] \in Sayings
           /\ \A n \in Conditions : Verdicts(says)[n] = says[n]
           /\ \A n \in Groups : Verdicts(says)[n] = Decide(n.conjunction, Results(Verdicts(says), n))
<1> DEFINE Join == [p \in Nodes \X Seq(Sayings) |->
                       IF p[1] \in Groups THEN Decide(p[1].conjunction, p[2]) ELSE says[p[1]]]
           Step(f) == [n \in Nodes |->
                          IF n.kind = "group"
                          THEN Decide(n.conjunction, [i \in DOMAIN n.conditions |-> f[n.conditions[i]]])
                          ELSE says[n]]
<1>1. Joins(Join, Sayings)
    BY DecideType DEF Conditions, Joins
<1>2. PICK f : Follows(f, Join, Sayings)
  <2> HIDE DEF Join
  <2>1. QED
      BY <1>1, RecursionOverNodes
<1>3. ASSUME NEW n \in Nodes
      PROVE  f[n] = IF n \in Groups THEN Decide(n.conjunction, Results(f, n)) ELSE says[n]
  <2>1. Results(f, n) \in Seq(Sayings)
      BY <1>2, ResultsType DEF Follows
  <2>2. f[n] = Join[<<n, Results(f, n)>>]
      BY <1>2 DEF Follows
  <2>3. QED
      BY <2>1, <2>2
<1>4. f = Step(f)
  <2>0. f \in [Nodes -> Sayings]
      BY <1>2 DEF Follows
  <2>1. ASSUME NEW n \in Nodes
        PROVE  f[n] = IF n.kind = "group"
                      THEN Decide(n.conjunction, [i \in DOMAIN n.conditions |-> f[n.conditions[i]]])
                      ELSE says[n]
    <3>1. CASE n.kind = "group"
      <4>1. n \in Groups
          BY <3>1 DEF Groups
      <4>2. QED
          BY <1>3, <3>1, <4>1 DEF Results
    <3>2. CASE n.kind # "group"
        BY <1>3, <3>2 DEF Groups
    <3>3. QED
        BY <3>1, <3>2
  <2>2. QED
      BY <2>0, <2>1
<1>5. \E g : g = Step(g)
    BY <1>4
<1>6. Verdicts(says) = Step(Verdicts(says))
    BY <1>5, Zenon DEF Verdicts
<1> DEFINE v == Verdicts(says)
<1>7. ASSUME NEW n \in Nodes
      PROVE  v[n] = IF n \in Groups THEN Decide(n.conjunction, Results(v, n)) ELSE says[n]
    BY <1>6 DEF Groups, Results
<1>8. \A n \in Nodes : v[n] = f[n]
  <2> DEFINE Bad == {n \in Nodes : v[n] # f[n]}
  <2>1. SUFFICES ASSUME Bad # {} PROVE FALSE
      OBVIOUS
  <2>2. PICK n \in Bad : \A m \in Bad : Height[n] <= Height[m]
      BY <2>1, LowestNode
  <2>3. \A m \in Nodes : Height[m] < Height[n] => v[m] = f[m]
    <3>1. \A m \in Nodes : Height[m] \in Nat
        BY DEF SegmentConstantsOK
    <3>2. QED
        BY <2>2, <3>1
  <2>4. Results(v, n) = Results(f, n)
      BY <2>2, <2>3, ResultsDependOnConditions
  <2>5. QED
      BY <1>3, <1>7, <2>2, <2>4
<1>9. QED
  <2>1. \A n \in Nodes : v[n] \in Sayings
      BY <1>2, <1>8 DEF Follows
  <2>2. QED
      BY <1>7, <2>1 DEF Conditions, Groups

(* The leaves of a condition are itself, those of a group those of its      *)
(* conditions.                                                              *)
LEMMA LeavesRule ==
    ASSUME SegmentConstantsOK
    PROVE  /\ \A n \in Conditions : Leaves(n) = {n}
           /\ \A n \in Groups : \A i \in DOMAIN n.conditions : Leaves(n.conditions[i]) \subseteq Leaves(n)
           /\ \A n \in Nodes : Leaves(n) \subseteq Conditions
<1> DEFINE V == SUBSET Conditions
           Join == [p \in Nodes \X Seq(V) |->
                       IF p[1] \in Groups THEN UNION {p[2][i] : i \in DOMAIN p[2]} ELSE {p[1]}]
           Step(f) == [m \in Nodes |->
                          IF m.kind = "group" THEN UNION {f[m.conditions[i]] : i \in DOMAIN m.conditions}
                                              ELSE {m}]
<1>1. Joins(Join, V)
  <2>1. ASSUME NEW n \in Nodes, NEW s \in Seq(V) PROVE Join[<<n, s>>] \in V
    <3>1. Join[<<n, s>>] = IF n \in Groups THEN UNION {s[i] : i \in DOMAIN s} ELSE {n}
        OBVIOUS
    <3>2. \A i \in DOMAIN s : s[i] \in V
        OBVIOUS
    <3> HIDE DEF Join
    <3>3. QED
        BY <3>1, <3>2 DEF Conditions
  <2>2. QED
      BY <2>1 DEF Joins
<1>2. PICK f : Follows(f, Join, V)
  <2> HIDE DEF Join, V
  <2>1. QED
      BY <1>1, RecursionOverNodes
<1>3. f = Step(f)
  <2>1. ASSUME NEW m \in Nodes
        PROVE  f[m] = IF m.kind = "group" THEN UNION {f[m.conditions[i]] : i \in DOMAIN m.conditions}
                                          ELSE {m}
    <3>1. f \in [Nodes -> V] /\ f[m] = Join[<<m, Results(f, m)>>]
        BY <1>2 DEF Follows
    <3>2. Results(f, m) \in Seq(V)
        BY <3>1, ResultsType
    <3>3. f[m] = IF m \in Groups THEN UNION {Results(f, m)[i] : i \in DOMAIN Results(f, m)} ELSE {m}
        BY <3>1, <3>2
    <3>4. m \in Groups => Results(f, m) = [i \in DOMAIN m.conditions |-> f[m.conditions[i]]]
        BY DEF Results
    <3>5. m \in Groups => /\ DOMAIN Results(f, m) = DOMAIN m.conditions
                          /\ \A i \in DOMAIN m.conditions : Results(f, m)[i] = f[m.conditions[i]]
        BY <3>4
    <3>6. m \in Groups <=> m.kind = "group"
        BY DEF Groups
    <3> HIDE DEF V, Join
    <3>7. QED
        BY <3>3, <3>5, <3>6
  <2>2. f \in [Nodes -> V]
      BY <1>2 DEF Follows
  <2>3. QED
      BY <2>1, <2>2
<1>4. \E g : g = Step(g)
    BY <1>3
<1> DEFINE leaves == CHOOSE g : g = Step(g)
<1>5. leaves = Step(leaves)
    BY <1>4, Zenon
<1>6. \A n : Leaves(n) = leaves[n]
    BY Zenon DEF Leaves
<1> HIDE DEF leaves
<1>7. ASSUME NEW n \in Nodes
      PROVE  /\ n \in Conditions => leaves[n] = {n}
             /\ n \in Groups => \A l : l \in leaves[n] <=> \E i \in DOMAIN n.conditions : l \in leaves[n.conditions[i]]
  <2>1. leaves[n] = IF n.kind = "group" THEN UNION {leaves[n.conditions[i]] : i \in DOMAIN n.conditions}
                                        ELSE {n}
      BY <1>5
  <2>2. QED
      BY <2>1 DEF Conditions, Groups
<1>8. \A n \in Nodes : leaves[n] \subseteq Conditions
  <2> DEFINE Bad == {n \in Nodes : ~ leaves[n] \subseteq Conditions}
  <2>1. SUFFICES ASSUME Bad # {} PROVE FALSE
      OBVIOUS
  <2>2. PICK n \in Bad : \A m \in Bad : Height[n] <= Height[m]
      BY <2>1, LowestNode
  <2>3. CASE n \in Groups
    <3>1. \A i \in DOMAIN n.conditions : leaves[n.conditions[i]] \subseteq Conditions
      <4>1. SUFFICES ASSUME NEW i \in DOMAIN n.conditions PROVE n.conditions[i] \in Nodes /\ n.conditions[i] \notin Bad
          OBVIOUS
      <4>2. QED
          BY <2>2, <2>3, ConditionsStandLower
    <3>2. QED
        BY <1>7, <2>2, <2>3, <3>1
  <2>4. CASE n \in Conditions
      BY <1>7, <2>2, <2>4
  <2>5. QED
      BY <2>2, <2>3, <2>4 DEF Conditions
<1>9. \A n \in Groups : \A i \in DOMAIN n.conditions : leaves[n.conditions[i]] \subseteq leaves[n]
    BY <1>7 DEF Groups
<1>10. QED
    BY <1>6, <1>7, <1>8, <1>9 DEF Conditions

(* On a tree where no leaf throws, whoever says yes to more leaves says yes *)
(* to the tree: the verdict is monotone in what is said of the leaves.      *)
LEMMA VerdictsAreMonotone ==
    ASSUME SegmentConstantsOK, NEW root \in Nodes,
           NEW says \in [Conditions -> Sayings], NEW told \in [Conditions -> Sayings],
           \A l \in Leaves(root) : says[l] \in {"yes", "no"} /\ told[l] \in {"yes", "no"},
           \A l \in Leaves(root) : says[l] = "yes" => told[l] = "yes"
    PROVE  /\ Verdicts(says)[root] \in {"yes", "no"} /\ Verdicts(told)[root] \in {"yes", "no"}
           /\ Verdicts(says)[root] = "yes" => Verdicts(told)[root] = "yes"
<1> DEFINE Agrees(n) == /\ Verdicts(says)[n] \in {"yes", "no"} /\ Verdicts(told)[n] \in {"yes", "no"}
                        /\ Verdicts(says)[n] = "yes" => Verdicts(told)[n] = "yes"
           Bad == {n \in Nodes : Leaves(n) \subseteq Leaves(root) /\ ~ Agrees(n)}
<1>1. SUFFICES ASSUME Bad # {} PROVE FALSE
    OBVIOUS
<1>2. PICK n \in Bad : \A m \in Bad : Height[n] <= Height[m]
    BY <1>1, LowestNode
<1>3. CASE n \in Conditions
  <2>1. n \in Leaves(root)
      BY <1>2, <1>3, LeavesRule
  <2>2. Verdicts(says)[n] = says[n] /\ Verdicts(told)[n] = told[n]
      BY <1>3, VerdictsRule
  <2>3. QED
      BY <1>2, <2>1, <2>2
<1>4. CASE n \in Groups
  <2> DEFINE s == Results(Verdicts(says), n)
             t == Results(Verdicts(told), n)
  <2>1. ASSUME NEW i \in DOMAIN n.conditions PROVE Agrees(n.conditions[i])
    <3>1. n.conditions[i] \in Nodes /\ ~ Height[n] <= Height[n.conditions[i]]
        BY <1>4, ConditionsStandLower
    <3>2. Leaves(n.conditions[i]) \subseteq Leaves(root)
        BY <1>2, <1>4, LeavesRule
    <3> HIDE DEF Agrees
    <3>3. QED
        BY <1>2, <3>1, <3>2
  <2>2. /\ DOMAIN s = DOMAIN n.conditions /\ DOMAIN t = DOMAIN n.conditions
        /\ \A i \in DOMAIN n.conditions : /\ s[i] = Verdicts(says)[n.conditions[i]]
                                          /\ t[i] = Verdicts(told)[n.conditions[i]]
      BY <1>4 DEF Results
  <2>3. s \in Seq({"yes", "no"}) /\ t \in Seq({"yes", "no"})
    <3>1. n.conditions \in Seq(Nodes)
        BY <1>4 DEF SegmentConstantsOK
    <3>2. DOMAIN n.conditions = 1..Len(n.conditions) /\ Len(n.conditions) \in Nat
        BY <3>1
    <3>3. s = [i \in 1..Len(n.conditions) |-> Verdicts(says)[n.conditions[i]]]
        BY <1>4, <3>2 DEF Results
    <3>4. t = [i \in 1..Len(n.conditions) |-> Verdicts(told)[n.conditions[i]]]
        BY <1>4, <3>2 DEF Results
    <3>5. \A i \in 1..Len(n.conditions) : /\ Verdicts(says)[n.conditions[i]] \in {"yes", "no"}
                                          /\ Verdicts(told)[n.conditions[i]] \in {"yes", "no"}
        BY <2>1, <3>2
    <3> HIDE DEF s, t
    <3>6. QED
        BY <3>2, <3>3, <3>4, <3>5
  <2>4. \A i \in DOMAIN n.conditions : s[i] = "yes" => t[i] = "yes"
      BY <2>1, <2>2
  <2>5. /\ Verdicts(says)[n] = Decide(n.conjunction, s)
        /\ Verdicts(told)[n] = Decide(n.conjunction, t)
      BY <1>4, VerdictsRule
  <2> HIDE DEF s, t
  <2>6. Agrees(n)
    <3>1. CASE n.conjunction = "AND"
        BY <2>2, <2>3, <2>4, <2>5, <3>1, DecideIsAndOr
    <3>2. CASE n.conjunction # "AND"
        BY <2>2, <2>3, <2>4, <2>5, <3>2, DecideIsAndOr
    <3>3. QED
        BY <3>1, <3>2
  <2>7. QED
      BY <1>2, <2>6
<1>5. QED
    BY <1>2, <1>3, <1>4 DEF Conditions

(* A tidy text is what the query and memory make of it.                     *)
LEMMA TidyText ==
    ASSUME NEW t, Tidy(t)
    PROVE  t # Missing /\ Lower(t) = t /\ Trim(t) = t /\ OrEmpty(t) = t
    BY DEF Tidy, OrEmpty

(* On tidy texts the query's comparison is memory's.                        *)
LEMMA TextsAgree ==
    ASSUME NEW l, NEW t, Tidy(t), \A v \in l.values : Tidy(v)
    PROVE  /\ l.op \in Equality \cup Inequality \cup Relations =>
                  (QueryText(l, t) <=> JudgeText(l.op, t, l.values))
           /\ l.op \in Equality \cup Inequality =>
                  (Is(l.op, Lower(t) \in {Lower(Trim(v)) : v \in l.values})
                      <=> JudgeText(l.op, t, l.values))
<1>1. t # Missing /\ Lower(t) = t /\ \A v \in l.values : Lower(v) = v /\ Trim(v) = v
    BY TidyText
<1> DEFINE same == \E v \in l.values : t = v
<1>2. \A o : (\E v \in l.values : Relates(o, Lower(t), Lower(Trim(v))))
                 <=> (\E v \in l.values : Relates(o, Lower(t), Lower(v)))
    BY <1>1
<1>3. /\ (\E v \in l.values : Lower(t) = Lower(Trim(v))) <=> same
      /\ (\E v \in l.values : Lower(t) = Lower(v)) <=> same
      /\ t \in {Trim(v) : v \in l.values} <=> same
      /\ t \in l.values <=> same
      /\ Lower(t) \in {Lower(Trim(v)) : v \in l.values} <=> same
    BY <1>1
<1>s. same \in BOOLEAN
    OBVIOUS
<1> HIDE DEF same
<1>4. l.op \in Equality \cup Inequality => (JudgeText(l.op, t, l.values) <=> Is(l.op, same))
    BY <1>1, <1>3, <1>s DEF JudgeText, Is, Equality, Inequality, Relations, Presence, Absence
<1>5. ASSUME l.op \in Equality \cup Inequality
      PROVE  QueryText(l, t) <=> Is(l.op, same)
  <2>1. CASE l.op = "equals"
    <3>1. QueryText(l, t) <=> \E v \in l.values : Lower(t) = Lower(Trim(v))
        BY <1>1, <2>1 DEF QueryText, Relations
    <3>2. QED
        BY <1>3, <1>s, <2>1, <3>1 DEF Is, Inequality
  <2>2. CASE l.op = "not_equals"
    <3>1. QueryText(l, t) <=> t \notin {Trim(v) : v \in l.values}
        BY <1>1, <2>2 DEF QueryText, Relations
    <3>2. QED
        BY <1>3, <1>s, <2>2, <3>1 DEF Is, Inequality
  <2>3. CASE l.op \in {"in", "not_in"}
    <3>1. QueryText(l, t) <=> Is(l.op, t \in l.values)
        BY <1>1, <2>3 DEF QueryText, Relations
    <3>2. QED
        BY <1>3, <1>s, <3>1 DEF Is
  <2>4. QED
      BY <1>5, <2>1, <2>2, <2>3 DEF Equality, Inequality
<1>6. ASSUME l.op \in Relations
      PROVE  QueryText(l, t) <=> JudgeText(l.op, t, l.values)
  <2>1. JudgeText(l.op, t, l.values) <=> \E v \in l.values : Relates(l.op, Lower(t), Lower(v))
      BY <1>1, <1>6 DEF JudgeText, Equality, Inequality, Relations, Presence, Absence
  <2>2. QueryText(l, t) <=> \E v \in l.values : Relates(l.op, Lower(t), Lower(Trim(v)))
      BY <1>1, <1>6 DEF QueryText, Relations
  <2>3. QED
      BY <1>2, <2>1, <2>2
<1>7. l.op \in Equality \cup Inequality =>
          (Is(l.op, Lower(t) \in {Lower(Trim(v)) : v \in l.values}) <=> Is(l.op, same))
    BY <1>3, <1>s DEF Is
<1>8. QED
    BY <1>4, <1>5, <1>6, <1>7

(* Whatever the query can say of a plain condition is what memory says, and *)
(* what it cannot say it lets pass.                                         *)
LEMMA PlainLeavesAgree ==
    ASSUME SegmentConstantsOK, NEW l \in Conditions, NEW c \in Subjects, Plain(l, c)
    PROVE  /\ l.kind \notin {"list", "history"}
           /\ Translates(l) => (QueryLeaf(l, c) <=> Judge(l, c))
           /\ ~ Translates(l) => c.metadata
<1>1. l.kind \in Kinds
    BY DEF SegmentConstantsOK
<1>2. c.emailed \in Int /\ c.consented \in Int
    BY DEF SegmentConstantsOK
<1>3. l.kind \in {"date", "consentTime", "engagement"} => l.days \in Int
    BY DEF SegmentConstantsOK
<1>4. CASE l.kind \in {"flag", "consentFlag", "status"}
    BY <1>4 DEF Plain, Translates, QueryLeaf, Judge
<1>5. CASE l.kind = "email"
  <2>1. Tidy(c.email) /\ (\A v \in l.values : Tidy(v)) /\ (~ Translates(l) => c.metadata)
      BY <1>5 DEF Plain
  <2>2. Translates(l) <=> l.op \in Equality \cup Inequality \cup Relations
      BY <1>5 DEF Translates
  <2>3. Judge(l, c) = JudgeText(l.op, c.email, l.values) /\ QueryLeaf(l, c) = QueryEmail(l, c)
      BY <1>5 DEF Judge, QueryLeaf
  <2>4. Translates(l) => (QueryEmail(l, c) <=> JudgeText(l.op, c.email, l.values))
      BY <2>1, <2>2, TextsAgree DEF QueryEmail
  <2>5. QED
      BY <1>5, <2>1, <2>3, <2>4
<1>6. CASE l.kind = "name"
  <2>1. Tidy(c.name) /\ (\A v \in l.values : Tidy(v)) /\ (~ Translates(l) => c.metadata)
      BY <1>6 DEF Plain
  <2>2. Translates(l) <=> l.op \in Equality \cup Inequality \cup Relations
      BY <1>6 DEF Translates
  <2>3. Judge(l, c) = JudgeText(l.op, c.name, l.values) /\ QueryLeaf(l, c) = QueryText(l, c.name)
      BY <1>6, <2>1, TidyText DEF Judge, QueryLeaf
  <2>4. QED
      BY <1>6, <2>1, <2>2, <2>3, TextsAgree
<1>7. CASE l.kind \in {"source", "consentSource"}
  <2>1. /\ Tidy(c.source) /\ \A v \in l.values : Tidy(v)
        /\ l.kind = "consentSource" => Translates(l)
        /\ ~ Translates(l) => c.metadata
      BY <1>7 DEF Plain, Translates
  <2>2. Translates(l) <=> l.op \in {"equals", "contains"}
      BY <1>7 DEF Translates
  <2>3. Translates(l) => (Judge(l, c) <=> JudgeText(l.op, c.source, l.values))
      BY <1>7, <2>1, <2>2, TidyText DEF Judge
  <2>4. QueryLeaf(l, c) = QueryText(l, c.source)
      BY <1>7 DEF QueryLeaf
  <2>5. QED
      BY <1>7, <2>1, <2>2, <2>3, <2>4, TextsAgree DEF Equality, Relations
<1>8. CASE l.kind = "date"
  <2>1. /\ l.field = "lastEmailedAt" /\ Translates(l)
        /\ c.emailed # Never /\ c.emailed # l.days
        /\ l.op \in Older \cup Newer
      BY <1>8 DEF Plain, Translates
  <2>2. QueryLeaf(l, c) <=> IF l.op \in Newer THEN c.emailed <= l.days ELSE c.emailed >= l.days
      BY <1>8, <2>1 DEF QueryLeaf, QueryDate
  <2>3. Judge(l, c) <=> IF l.op \in Newer THEN c.emailed <= l.days ELSE c.emailed >= l.days
    <3>1. Judge(l, c) = JudgeDate(l, c)
        BY <1>8 DEF Judge
    <3>2. l.days \in Int
        BY <1>3, <1>8
    <3>3. CASE l.op = "greater_than"
      <4>1. JudgeDate(l, c) <=> c.emailed # Never /\ c.emailed < l.days
          BY <2>1, <3>3 DEF JudgeDate, Presence, Absence
      <4>2. c.emailed < l.days <=> c.emailed <= l.days
          BY <1>2, <2>1, <3>2
      <4>3. QED
          BY <2>1, <3>1, <3>3, <4>1, <4>2 DEF Newer
    <3>4. CASE l.op = "greater_than_or_equal"
        BY <1>2, <2>1, <3>1, <3>2, <3>4 DEF JudgeDate, Newer, Presence, Absence
    <3>5. CASE l.op = "less_than"
      <4>1. JudgeDate(l, c) <=> c.emailed > l.days
          BY <2>1, <3>5 DEF JudgeDate, Presence, Absence
      <4>2. c.emailed > l.days <=> c.emailed >= l.days
          BY <1>2, <2>1, <3>2
      <4>3. QED
          BY <3>1, <3>5, <4>1, <4>2 DEF Newer
    <3>6. CASE l.op = "less_than_or_equal"
        BY <1>2, <2>1, <3>1, <3>2, <3>6 DEF JudgeDate, Newer, Presence, Absence
    <3>7. QED
        BY <2>1, <3>3, <3>4, <3>5, <3>6 DEF Older, Newer
  <2>4. QED
      BY <1>8, <2>1, <2>2, <2>3
<1>9. CASE l.kind = "consentTime"
    BY <1>9 DEF Plain, Translates, QueryLeaf, Judge
<1>10. CASE l.kind = "suppression"
    BY <1>10 DEF Plain, Translates, QueryLeaf, Judge
<1>11. CASE l.kind = "engagement"
  <2>1. Translates(l)
      BY <1>11 DEF Plain
  <2>2. \/ l.dimension = "never_emailed"
        \/ l.dimension = "last_emailed" /\ l.op \in {"within_days", "older_than_days", "never"}
      BY <1>11, <2>1 DEF Translates
  <2>3. QueryLeaf(l, c) = QueryEngagement(l, c) /\ Judge(l, c) = JudgeEngagement(l, c)
      BY <1>11 DEF QueryLeaf, Judge
  <2>4. QueryEngagement(l, c) <=> JudgeEngagement(l, c)
      BY <1>2, <1>3, <1>11, <2>2 DEF QueryEngagement, JudgeEngagement
  <2>5. QED
      BY <1>11, <2>1, <2>3, <2>4
<1>12. CASE l.kind = "custom"
    BY <1>12 DEF Plain, Translates
<1>13. l.kind \notin {"list", "history"}
  <2>1. SUFFICES ASSUME l.kind \in {"list", "history"} PROVE FALSE
      OBVIOUS
  <2>2. QED
      BY <2>1 DEF Plain
<1>14. QED
    BY <1>1, <1>4, <1>5, <1>6, <1>7, <1>8, <1>9, <1>10, <1>11, <1>12, <1>13 DEF Kinds

(* What the preview says: the query alone where it could say everything,    *)
(* else memory of the contacts that the query lets pass.                    *)
Preview(n, c) == IF Query(n, c) /\ Hybrid(n) THEN Memory(n, c) ELSE YesNo(Query(n, c))

(* The two interpreters of a tree of any depth agree on every contact on    *)
(* which each of its conditions is plain: the query narrows only what       *)
(* memory would refuse (email-segment-service.ts:467-685, 692-1163).        *)
THEOREM PreviewIsMemory ==
    ASSUME SegmentConstantsOK, NEW n \in Nodes, NEW c \in Subjects,
           \A l \in Leaves(n) : Plain(l, c)
    PROVE  Preview(n, c) = Memory(n, c)
<1> DEFINE asked == QuerySays(c)
           judged == MemorySays(c)
<1>1. asked \in [Conditions -> Sayings] /\ judged \in [Conditions -> Sayings]
    BY DEF QuerySays, MemorySays, YesNo, Sayings
<1>2. ASSUME NEW l \in Leaves(n)
      PROVE  /\ asked[l] \in {"yes", "no"} /\ judged[l] \in {"yes", "no"}
             /\ judged[l] = "yes" => asked[l] = "yes"
             /\ Translates(l) => asked[l] = judged[l]
  <2>1. l \in Conditions /\ Plain(l, c)
      BY LeavesRule
  <2>2. /\ asked[l] = YesNo(IF Translates(l) THEN QueryLeaf(l, c) ELSE c.metadata)
        /\ judged[l] = IF l.kind \in {"list", "history"} THEN "error" ELSE YesNo(Judge(l, c))
      BY <2>1 DEF QuerySays, MemorySays
  <2>3. /\ l.kind \notin {"list", "history"}
        /\ Translates(l) => (QueryLeaf(l, c) <=> Judge(l, c))
        /\ ~ Translates(l) => c.metadata
      BY <2>1, PlainLeavesAgree
  <2>4. QED
      BY <2>2, <2>3 DEF YesNo
<1> HIDE DEF asked, judged
<1>3. /\ Verdicts(asked)[n] \in {"yes", "no"} /\ Verdicts(judged)[n] \in {"yes", "no"}
      /\ Verdicts(judged)[n] = "yes" => Verdicts(asked)[n] = "yes"
    BY <1>1, <1>2, VerdictsAreMonotone
<1>4. ~ Hybrid(n) => (Verdicts(asked)[n] = "yes" => Verdicts(judged)[n] = "yes")
  <2>1. SUFFICES ASSUME ~ Hybrid(n) PROVE Verdicts(asked)[n] = "yes" => Verdicts(judged)[n] = "yes"
      OBVIOUS
  <2>2. \A l \in Leaves(n) : asked[l] = "yes" => judged[l] = "yes"
      BY <1>2, <2>1 DEF Hybrid
  <2>3. QED
      BY <1>1, <1>2, <2>2, VerdictsAreMonotone
<1>5. (Query(n, c) <=> Verdicts(asked)[n] = "yes") /\ Memory(n, c) = Verdicts(judged)[n]
    BY DEF Query, Memory, asked, judged
<1>6. QED
    BY <1>3, <1>4, <1>5 DEF Preview, YesNo

(* The answers that are in hand are those of the stored criterion.          *)
SegmentInv ==
    /\ criteria \in Groups /\ subject \in Subjects
    /\ stage = "judging" => Query(criteria, subject) /\ Hybrid(criteria)
    /\ stage = "answered" => answer = Preview(criteria, subject)
    /\ again # "none" => stage = "answered" /\ again = Memory(criteria, subject)

LEMMA SegmentInvariantHolds ==
    ASSUME SegmentConstantsOK
    PROVE  SegmentSpec => []SegmentInv
<1>1. SegmentInit => SegmentInv
    BY DEF SegmentInit, SegmentInv, SegmentConstantsOK
<1>2. ASSUME SegmentInv, [SegmentNext]_segmentVars PROVE SegmentInv'
  <2>1. CASE RefuseCriteria
      BY <1>2, <2>1 DEF RefuseCriteria, SegmentInv
  <2>2. CASE AcceptCriteria
      BY <1>2, <2>2 DEF AcceptCriteria, SegmentInv
  <2>3. CASE AskQuery
      BY <1>2, <2>3 DEF AskQuery, SegmentInv, Preview
  <2>4. CASE AskMemory
      BY <1>2, <2>4 DEF AskMemory, SegmentInv, Preview
  <2>5. CASE JudgeAgain
      BY <1>2, <2>5 DEF JudgeAgain, SegmentInv
  <2>6. CASE UNCHANGED segmentVars
      BY <1>2, <2>6 DEF segmentVars, SegmentInv
  <2>7. QED
      BY <1>2, <2>1, <2>2, <2>3, <2>4, <2>5, <2>6 DEF SegmentNext
<1>3. QED
    BY <1>1, <1>2, PTL DEF SegmentSpec

(* A contact is in a segment by the preview exactly if an automation that   *)
(* checks again finds it there, on plain conditions: for every tree and     *)
(* every contact.                                                           *)
THEOREM PlainConditionsAlwaysAgree ==
    ASSUME SegmentConstantsOK
    PROVE  SegmentSpec => []PlainConditionsAgree
<1>1. ASSUME SegmentInv PROVE PlainConditionsAgree
  <2>1. SUFFICES ASSUME again # "none", \A l \in Leaves(criteria) : Plain(l, subject)
                 PROVE  answer = again
      BY DEF PlainConditionsAgree
  <2>2. criteria \in Nodes /\ subject \in Subjects
      BY <1>1 DEF SegmentInv, Groups
  <2>3. Preview(criteria, subject) = Memory(criteria, subject)
      BY <2>1, <2>2, PreviewIsMemory
  <2>4. QED
      BY <1>1, <2>1, <2>3 DEF SegmentInv
<1>2. QED
    BY <1>1, SegmentInvariantHolds, PTL
=============================================================================
