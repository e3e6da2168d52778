---------------------------- MODULE SendPromise ----------------------------
(***************************************************************************)
(* What a caller is promised who hands over mails: each is queued, worked  *)
(* on and ends as sent, as failed or as unknown, and a provider takes it   *)
(* at most once.  Sent means that it was taken, failed that it was not;    *)
(* unknown says nothing, and can only turn into sent.  The mails named in  *)
(* spoiled are those the promise was broken for: nothing is said of them   *)
(* any more, and who they are is seen at the moment it happens.            *)
(*                                                                         *)
(* Claims, locks, sweeps and reconciliation are of no concern here.  One   *)
(* step of theirs may move several mails.                                  *)
(***************************************************************************)
EXTENDS Naturals

CONSTANT Mails

VARIABLES
    outcome,    \* what the sender's records say of each mail
    times,      \* how often a provider has taken it
    spoiled

promiseVars == <<outcome, times, spoiled>>

PromiseInit ==
    /\ outcome = [m \in Mails |-> "none"]
    /\ times = [m \in Mails |-> 0]
    /\ spoiled = {}

Goes(m, from, to) == outcome[m] = from /\ outcome'[m] = to
Untaken(m)        == times[m] = 0 /\ times'[m] = 0
Taken(m)          == times[m] = 1 /\ times'[m] = 1

Accept(m) ==
    /\ outcome[m] \in {"working", "unknown"} /\ outcome'[m] = outcome[m]
    /\ times[m] = 0 /\ times'[m] = 1

(* Queueing, starting, putting back and giving up: the mail was not taken.  *)
Queue(m)   == Goes(m, "none", "queued") /\ Untaken(m)
Start(m)   == Goes(m, "queued", "working") /\ Untaken(m)
PutBack(m) == Goes(m, "working", "queued") /\ Untaken(m)
GiveUp(m)  == (\E s \in {"none", "queued", "working"} : Goes(m, s, "failed")) /\ Untaken(m)

LoseSight(m) == Goes(m, "working", "unknown") /\ times'[m] = times[m]
Confirm(m)   == (\E s \in {"working", "unknown"} : Goes(m, s, "sent")) /\ Taken(m)
Stay(m)      == outcome'[m] = outcome[m] /\ times'[m] = times[m]

MailStep(m) ==
    \/ Queue(m) \/ Start(m) \/ PutBack(m) \/ Accept(m)
    \/ GiveUp(m) \/ LoseSight(m) \/ Confirm(m) \/ Stay(m)

PromiseNext ==
    /\ spoiled \subseteq spoiled'
    /\ \A m \in Mails \ spoiled' : MailStep(m)

PromiseSpec == PromiseInit /\ [][PromiseNext]_promiseVars

(* What follows for a caller who looks at the records, at any time.         *)
RecordsAreTrue ==
    \A m \in Mails \ spoiled :
        /\ times[m] \in {0, 1}
        /\ outcome[m] \in {"none", "queued", "failed"} => times[m] = 0
        /\ outcome[m] = "sent" => times[m] = 1
=============================================================================
