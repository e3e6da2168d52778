------------------------------ MODULE Consent -------------------------------
(***************************************************************************)
(* What one address of one tenant has agreed to, and who asks before it is *)
(* sent a mail: the contact row (consent and status) and the suppression   *)
(* row, as the unsubscribe link, provider events, administrators and       *)
(* imports write them, and as the API route, the two executors, the        *)
(* snapshot and an enrolment read them.                                    *)
(*                                                                         *)
(* Nothing holds the statements of an operation together: an operation is  *)
(* the list of the statements it still has to make, and may end between    *)
(* any two of them.                                                        *)
(*                                                                         *)
(* Abstractions.  BOUNCED and COMPLAINED are SUPPRESSED: every reader      *)
(* treats the three alike.  Why an address is suppressed is left out.  An  *)
(* address has two spellings with one normal form.  Campaigns are          *)
(* promotional mail.  What follows a look, up to the provider, is in the        *)
(* modules of the deliveries and recipients.  An unsubscribe also ends the *)
(* list memberships; no look reads them.                                   *)
(***************************************************************************)
EXTENDS Naturals, Sequences

CONSTANTS
    Ops,         \* concurrent operations on the rows
    Sends,       \* mails on their way to the address
    Spellings,   \* ways to write the address
    MaxOps       \* bound on the operations begun

ConsentConstantsOK == MaxOps \in Nat /\ Spellings # {}

VARIABLES
    contact,     \* EmailContact row
    barred,      \* EmailSuppression row
    op,          \* the statements each operation still has to make
    send,        \* how far each mail has come, and what was found
    begun,       \* how many operations were begun
    lifted,      \* history: operations during which a suppression was lifted
    out,         \* history: an opting-out operation returned, and nobody lifted it
    why          \* history: what since the last opt-out may have raised the consent again

consentVars == <<contact, barred, op, send, begun, lifted, out, why>>

Statuses == {"PENDING", "SUBSCRIBED", "UNSUBSCRIBED", "SUPPRESSED"}
Choice == {"keep", "yes", "no"}

(* The statements.                                                          *)
Off(status) == [does |-> "off", status |-> status]
Bar(as) == [does |-> "bar", as |-> as]
Cascade(status) == [does |-> "cascade", status |-> status]
Mark(status) == [does |-> "mark", status |-> status]
Return == [does |-> "return"]
Write(consent, status) == [does |-> "write", consent |-> consent, status |-> status]
Copy(agreed, said) == [does |-> "copy", agreed |-> agreed, said |-> said]
Insert(agreed, as) == [does |-> "insert", agreed |-> agreed, as |-> as]

Statements ==
    [does : {"off", "cascade", "mark"}, status : Statuses]
    \cup [does : {"bar"}, as : Spellings] \cup {Return}
    \cup [does : {"write"}, consent : Choice, status : Statuses \cup {"keep"}]
    \cup [does : {"copy"}, agreed : BOOLEAN, said : BOOLEAN]
    \cup [does : {"insert"}, agreed : BOOLEAN, as : Spellings]

NoContact(as) == [there |-> FALSE, consent |-> FALSE, status |-> "PENDING", as |-> as]
NewContact(consent, as) == [there |-> TRUE, consent |-> consent, as |-> as,
                            status |-> IF consent THEN "SUBSCRIBED" ELSE "PENDING"]
NotBarred(as) == [there |-> FALSE, as |-> as]
NoSend == [phase |-> "idle"]

ConsentTypeOK ==
    /\ contact \in [there : BOOLEAN, consent : BOOLEAN, status : Statuses, as : Spellings]
    /\ barred \in [there : BOOLEAN, as : Spellings]
    /\ op \in [Ops -> Seq(Statements)]
    /\ send \in [Sends -> {NoSend} \cup
           [phase : {"asked", "queued", "looked", "cleared", "refused"},
            kind : {"promotional", "transactional", "campaign", "journey"}, to : Spellings,
            late : BOOLEAN, blind : BOOLEAN, misspelt : BOOLEAN, excused : BOOLEAN]]
    /\ begun \in 0..MaxOps /\ lifted \subseteq Ops
    /\ out \in BOOLEAN /\ why \in {"nothing", "granted", "torn", "missed"}

ConsentInit ==
    /\ \E as \in Spellings :
          /\ contact \in {NoContact(as), NewContact(TRUE, as), NewContact(FALSE, as)}
          /\ barred = NotBarred(as)
    /\ op = [o \in Ops |-> <<>>]
    /\ send = [s \in Sends |-> NoSend]
    /\ begun = 0 /\ lifted = {}
    /\ out = FALSE /\ why = "nothing"

-----------------------------------------------------------------------------
(* Operations.  What they read at their start decides what they write.      *)
Undertake(o, statements) ==
    /\ op[o] = <<>>
    /\ begun < MaxOps
    /\ begun' = begun + 1
    /\ op' = [op EXCEPT ![o] = statements]
    /\ lifted' = lifted \ {o}
    /\ UNCHANGED <<contact, barred, send, out, why>>

(* Mutant: the link changes the contact and leaves the suppressions alone.  *)
UnsubscribeContact(o) ==
    /\ contact.there
    /\ Undertake(o, <<Off("UNSUBSCRIBED"), Return>>)

Unsubscribe(o) ==
    /\ contact.there
    /\ Undertake(o, <<Off("UNSUBSCRIBED"), Bar(contact.as), Cascade("UNSUBSCRIBED"), Return>>)

(* A hard bounce or complaint, or an unsubscribe the provider reports.      *)
Report(o, as, status) ==
    Undertake(o, <<Bar(as), Cascade(IF status = "UNSUBSCRIBED" THEN status ELSE "SUPPRESSED"),
               Mark(status), Return>>)

(* Mutant: the contact is not told.                                         *)
AddSuppressionOnly(o, as) == Undertake(o, <<Bar(as), Return>>)

AddSuppression(o, as) ==
    \E status \in {"SUPPRESSED", "UNSUBSCRIBED"} :
        Undertake(o, <<Bar(as), Cascade(status), Return>>)

(* updateContact: the status follows only when consent differs from the     *)
(* consent that was read.                                                   *)
UpdateContact(o, consent, status) ==
    /\ contact.there
    /\ Undertake(o, <<Write(consent,
           CASE consent = "yes" /\ ~ contact.consent -> "SUBSCRIBED"
             [] consent = "no" /\ contact.consent -> "UNSUBSCRIBED"
             [] OTHER -> status)>>)

(* importContacts: of an existing contact the consent is written in any     *)
(* case, given or as it was read, and the status never.                     *)
ImportContact(o, consent, as) ==
    Undertake(o, <<IF contact.there
               THEN Copy(IF consent = "keep" THEN contact.consent ELSE consent = "yes",
                         consent # "keep")
               ELSE Insert(consent = "yes", as)>>)

CreateContact(o, consent, as) ==
    /\ ~ contact.there
    /\ Undertake(o, <<Insert(consent, as)>>)

(* Whoever still has to write the contact by id fails.  A mail already      *)
(* queued is sent all the same; an enrolment goes with its contact.         *)
DeleteContact ==
    /\ contact.there
    /\ contact' = NoContact(contact.as)
    /\ op' = [o \in Ops |-> IF op[o] # <<>> /\ Head(op[o]).does \in {"off", "write", "copy"}
                            THEN <<>> ELSE op[o]]
    /\ send' = [s \in Sends |-> IF send[s].phase = "asked" /\ send[s].kind \in {"campaign", "journey"}
                                THEN NoSend ELSE send[s]]
    /\ UNCHANGED <<barred, begun, lifted, out, why>>

LiftSuppression ==
    /\ barred.there
    /\ barred' = NotBarred(barred.as)
    /\ lifted' = {o \in Ops : op[o] # <<>>}
    /\ out' = FALSE
    /\ UNCHANGED <<contact, op, send, begun, why>>

-----------------------------------------------------------------------------
(* The statements, each on the rows as they are by then.                    *)
Says(o, what) == op[o] # <<>> /\ Head(op[o]).does = what

Made(o) ==
    /\ op' = [op EXCEPT ![o] = Tail(@)]
    /\ UNCHANGED <<send, begun, lifted>>

(* By id, or wherever the address is found: a contact that is gone is not   *)
(* an error of updateMany, and the deletion ended whoever writes by id.     *)
TakeConsent(o) ==
    /\ Says(o, "off") \/ Says(o, "cascade") \/ Says(o, "mark")
    /\ contact' = IF contact.there
                  THEN [contact EXCEPT !.consent = FALSE, !.status = Head(op[o]).status]
                  ELSE contact
    /\ why' = "nothing"
    /\ Made(o)
    /\ UNCHANGED <<barred, out>>

(* The upsert keeps the spelling of a row that is there.                    *)
WriteSuppression(o) ==
    /\ Says(o, "bar")
    /\ barred' = [there |-> TRUE, as |-> IF barred.there THEN barred.as ELSE Head(op[o]).as]
    /\ why' = "nothing"
    /\ Made(o)
    /\ UNCHANGED <<contact, out>>

(* The caller hears that the address is suppressed.                         *)
OptOutReturns(o) ==
    /\ Says(o, "return")
    /\ out' = (out \/ o \notin lifted)
    /\ Made(o)
    /\ UNCHANGED <<contact, barred, why>>

WriteContact(o) ==
    /\ Says(o, "write")
    /\ LET w == Head(op[o]) IN
          /\ contact' = [contact EXCEPT
                 !.consent = IF w.consent = "keep" THEN @ ELSE w.consent = "yes",
                 !.status = IF w.status = "keep" THEN @ ELSE w.status]
          /\ why' = IF w.consent = "yes" THEN "granted" ELSE why
    /\ Made(o)
    /\ UNCHANGED <<barred, out>>

CopyConsent(o) ==
    /\ Says(o, "copy")
    /\ LET c == Head(op[o]) IN
          /\ contact' = [contact EXCEPT !.consent = c.agreed]
          /\ why' = CASE c.agreed /\ c.said -> "granted"
                      [] c.agreed /\ ~ c.said /\ ~ contact.consent -> "torn"
                      [] OTHER -> why
    /\ Made(o)
    /\ UNCHANGED <<barred, out>>

(* A contact that exists by now breaks the unique index: the row is left.   *)
InsertContact(o) ==
    /\ Says(o, "insert")
    /\ LET c == Head(op[o]) IN
          IF contact.there THEN UNCHANGED <<contact, why>>
          ELSE /\ contact' = NewContact(c.agreed, c.as)
               /\ why' = IF c.agreed THEN "granted" ELSE why
    /\ Made(o)
    /\ UNCHANGED <<barred, out>>

(* An error while the contact is told is swallowed.                         *)
SwallowError(o) ==
    /\ Says(o, "cascade")
    /\ why' = "missed"
    /\ Made(o)
    /\ UNCHANGED <<contact, barred, out>>

(* Any other error, or the end of the process, leaves the rest undone.      *)
OperationDies(o) ==
    /\ op[o] # <<>>
    /\ why' = IF Says(o, "cascade") THEN "missed" ELSE why
    /\ op' = [op EXCEPT ![o] = <<>>]
    /\ UNCHANGED <<contact, barred, send, begun, lifted, out>>

-----------------------------------------------------------------------------
(* Mails.  A mail is cleared when its last look lets it go to the provider. *)
Untold == \E o \in Ops : Says(o, "cascade")

Admits == contact.there => contact.consent /\ contact.status = "SUBSCRIBED"

Excused == why # "nothing" \/ Untold \/ ~ contact.there

Mail(kind, phase, to) ==
    [phase |-> phase, kind |-> kind, to |-> to, late |-> FALSE, blind |-> FALSE,
     misspelt |-> FALSE, excused |-> FALSE]

Move(s, mail) ==
    /\ send' = [send EXCEPT ![s] = mail]
    /\ UNCHANGED <<contact, barred, op, begun, lifted, out, why>>

SetOut(s, kind, phase, to) ==
    /\ send[s] = NoSend
    /\ Move(s, Mail(kind, phase, to))

At(s, kind, phase) == send[s].phase = phase /\ send[s].kind = kind

Refuse(s) == Move(s, [send[s] EXCEPT !.phase = "refused"])

(* POST /api/v1/email/send: a suppression that cannot be read counts as     *)
(* none, so the request may be asked for a suppressed address.              *)
PostAsks(s, to) == SetOut(s, "promotional", "asked", to)

PostAdmits(s) ==
    /\ At(s, "promotional", "asked")
    /\ IF Admits THEN Move(s, [send[s] EXCEPT !.phase = "queued"]) ELSE Refuse(s)

PostTransactional(s, to) == SetOut(s, "transactional", "queued", to)

(* The snapshot of a campaign: a page of contacts, then the suppressions.   *)
PageReads(s) ==
    /\ contact.there /\ contact.consent /\ contact.status = "SUBSCRIBED"
    /\ SetOut(s, "campaign", "asked", contact.as)

SnapshotAdmits(s) ==
    /\ At(s, "campaign", "asked")
    /\ IF barred.there THEN Refuse(s) ELSE Move(s, [send[s] EXCEPT !.phase = "queued"])

Enroll(s) ==
    /\ contact.there /\ contact.consent
    /\ SetOut(s, "journey", "asked", contact.as)

EnrollAdmits(s) ==
    /\ At(s, "journey", "asked")
    /\ Move(s, [send[s] EXCEPT !.phase = "queued"]) \/ (barred.there /\ Refuse(s))

(* What the last look finds.                                                *)
Finding(s, phase) ==
    [send[s] EXCEPT !.phase = phase, !.late = out,
                    !.misspelt = barred.there /\ barred.as # send[s].to, !.excused = Excused]

(* executeEmailDelivery looks the address up as it was given.               *)
ExecutorLooks(s) ==
    /\ send[s].phase = "queued" /\ send[s].kind \in {"promotional", "transactional"}
    /\ IF barred.there /\ barred.as = send[s].to THEN Refuse(s)
       ELSE Move(s, Finding(s, IF send[s].kind = "promotional" THEN "looked" ELSE "cleared"))

ExecutorAsks(s) ==
    /\ send[s].phase = "looked"
    /\ IF Admits THEN Move(s, [send[s] EXCEPT !.phase = "cleared", !.excused = Excused])
       ELSE Refuse(s)

(* executeCampaignRecipient asks isSuppressed, which answers "not           *)
(* suppressed" when the row cannot be read; a recipient of a journey's      *)
(* campaign is one of them.                                                 *)
RecipientLooks(s) ==
    /\ send[s].phase = "queued" /\ send[s].kind \in {"campaign", "journey"}
    /\ \/ IF barred.there THEN Refuse(s) ELSE Move(s, Finding(s, "cleared"))
       \/ Move(s, [Finding(s, "cleared") EXCEPT !.blind = TRUE])

-----------------------------------------------------------------------------
Operation(o) ==
    \/ Unsubscribe(o)
    \/ \E as \in Spellings, status \in {"SUPPRESSED", "UNSUBSCRIBED"} : Report(o, as, status)
    \/ \E as \in Spellings : AddSuppression(o, as)
    \/ \E consent \in Choice, status \in {"keep", "SUBSCRIBED"} : UpdateContact(o, consent, status)
    \/ \E consent \in Choice, as \in Spellings : ImportContact(o, consent, as)
    \/ \E consent \in BOOLEAN, as \in Spellings : CreateContact(o, consent, as)
    \/ TakeConsent(o) \/ WriteSuppression(o) \/ OptOutReturns(o)
    \/ WriteContact(o) \/ CopyConsent(o) \/ InsertContact(o)
    \/ SwallowError(o) \/ OperationDies(o)

Mailing(s) ==
    \/ \E to \in Spellings : PostAsks(s, to) \/ PostTransactional(s, to)
    \/ PostAdmits(s) \/ PageReads(s) \/ SnapshotAdmits(s) \/ Enroll(s) \/ EnrollAdmits(s)
    \/ ExecutorLooks(s) \/ ExecutorAsks(s) \/ RecipientLooks(s)

ConsentNext ==
    \/ \E o \in Ops : Operation(o)
    \/ \E s \in Sends : Mailing(s)
    \/ DeleteContact \/ LiftSuppression

ConsentSpec == ConsentInit /\ [][ConsentNext]_consentVars

-----------------------------------------------------------------------------
(* Once an opt-out has returned and until the suppression is lifted, no     *)
(* mail is cleared, whatever else writes the two rows, unless the           *)
(* suppression could not be read, or a direct mail was addressed in another *)
(* spelling; and such a promotional mail only when the contact consented    *)
(* again, was never told or is gone.                                        *)
OptOutHonoured ==
    \A s \in Sends : send[s].phase = "cleared" /\ send[s].late =>
        \/ send[s].blind
        \/ send[s].kind = "transactional" /\ send[s].misspelt
        \/ send[s].kind = "promotional" /\ send[s].misspelt /\ send[s].excused

(* A suppressed address whose contact still consents has consented again    *)
(* since, had a consent written back by an import that read it before, or   *)
(* its contact was not told: addSuppression and its callers never leave the *)
(* two rows at odds otherwise (email-suppression-service.ts:28-80).         *)
SuppressedHasNoConsent ==
    barred.there /\ contact.there /\ contact.consent => why # "nothing" \/ Untold
=============================================================================
