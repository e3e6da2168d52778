------------------------------ MODULE Audience ------------------------------
(***************************************************************************)
(* The recipients of a campaign: createRecipientSnapshot and resolvePreview *)
(* of src/lib/services/email-audience-resolver.ts.                         *)
(*                                                                         *)
(* A run walks first through the members of the list and then through the  *)
(* contacts of the segment, page by page, each page starting behind the    *)
(* last row of the one before.  The pages are read outside the run's       *)
(* transaction, so that the contacts change between two of them.  What is  *)
(* eligible is drafted inside the transaction, which holds an advisory     *)
(* lock on the campaign and commits all recipients at once.                *)
(*                                                                         *)
(* Abstractions.  Memberships are numbered like their contacts.  Of a      *)
(* contact's own columns it only matters whether they allow the mail; an   *)
(* address with a wrong syntax is one that does not.  Whether the segment  *)
(* holds of a contact is one flag, whoever judges it (Segments).  Ad hoc   *)
(* criteria take the segment's path.  The list itself is not deleted.      *)
(***************************************************************************)
EXTENDS Naturals, FiniteSets

CONSTANTS
    MaxContact,   \* contacts are 1..MaxContact in the order of their ids
    Runs,         \* resolvers of the one campaign, previews among them
    Previews,     \* those that write nothing
    BatchSize,    \* DEFAULT_BATCH_SIZE
    HasList, HasSegment,
    MaxChanges    \* bound on what happens to contacts and segment

AudienceConstantsOK ==
    /\ MaxContact \in Nat /\ BatchSize \in Nat \ {0} /\ MaxChanges \in Nat
    /\ Previews \subseteq Runs /\ HasList \in BOOLEAN /\ HasSegment \in BOOLEAN

Contacts == 1..MaxContact

VARIABLES
    people,      \* the contacts: there, member, matches, allowed, barred
    segment,      \* whether the segment is there
    recipients,   \* EmailCampaignRecipient rows of the campaign
    run,          \* what each run has in hand
    lock,         \* who holds the advisory lock
    changes       \* how much has happened

audienceVars == <<people, segment, recipients, run, lock, changes>>

Free == [held |-> FALSE]
HeldBy(r) == [held |-> TRUE, by |-> r]
Start == 0

Member(c) == people[c].there /\ people[c].member
Matches(c) == people[c].there /\ people[c].matches

(* Who should be found among these contacts, and as what; a run that was    *)
(* not given the segment does not look for those who match.                 *)
As(c, part) == [who |-> c, part |-> part]
Who(found) == {f.who : f \in found}
Qualified(all, seg) ==
    LET fine == {c \in Contacts : all[c].there /\ all[c].allowed /\ ~ all[c].barred} IN
    {As(c, "list") : c \in {d \in fine : HasList /\ all[d].member}}
    \cup {As(c, "segment") : c \in {d \in fine : seg /\ all[d].matches}}

NoRun ==
    [phase |-> "idle", wants |-> FALSE, wide |-> FALSE, cursor |-> Start, seen |-> {},
     page |-> {}, fit |-> {}, more |-> FALSE, drafts |-> {},
     steady |-> {}, ever |-> {}, slipped |-> FALSE]

(* History: who qualifies from here on, who ever does, and whether a page   *)
(* was read behind a row that no longer matched.                            *)
Begun(seg) == [NoRun EXCEPT !.wants = seg, !.phase = "target",
                            !.steady = Qualified(people, seg), !.ever = Qualified(people, seg)]

Found == [who : Contacts, part : {"list", "segment"}]

RunRow ==
    [phase : {"idle", "locking", "checking", "target", "list", "filterList", "segment",
              "filterSegment", "commit", "over"},
     wants : BOOLEAN, wide : BOOLEAN, cursor : Contacts \cup {Start},
     seen : SUBSET Contacts, page : SUBSET Contacts, fit : SUBSET Contacts,
     more : BOOLEAN, drafts : SUBSET Contacts,
     steady : SUBSET Found, ever : SUBSET Found, slipped : BOOLEAN]
ContactRow ==
    [there : BOOLEAN, member : BOOLEAN, matches : BOOLEAN, allowed : BOOLEAN, barred : BOOLEAN]

AudienceTypeOK ==
    /\ people \in [Contacts -> ContactRow]
    /\ segment \in BOOLEAN
    /\ recipients \subseteq Contacts
    /\ run \in [Runs -> RunRow]
    /\ lock \in {Free} \cup {HeldBy(r) : r \in Runs \ Previews}
    /\ changes \in 0..MaxChanges

(* A suppressed contact is still a member and still matches.                *)
AudienceInit ==
    /\ people \in [Contacts -> [there : {TRUE}, member : BOOLEAN, matches : BOOLEAN,
                                 allowed : {TRUE}, barred : {FALSE}]]
    /\ segment = HasSegment
    /\ recipients = {}
    /\ run = [r \in Runs |-> NoRun]
    /\ lock = Free
    /\ changes = 0

Goes(r, new) == run' = [run EXCEPT ![r] = new]
Ends(r) == Goes(r, [NoRun EXCEPT !.phase = "over"])

-----------------------------------------------------------------------------
(* Before the pages.  A snapshot takes the segment from the campaign as it  *)
(* was loaded, and stops if there are recipients; a preview is told what to *)
(* look at.                                                                 *)
Begin(r) ==
    /\ run[r].phase = "idle"
    /\ IF r \in Previews THEN Goes(r, Begun(HasSegment))
       ELSE Goes(r, [NoRun EXCEPT !.wants = segment,
                                  !.phase = IF recipients # {} THEN "over" ELSE "locking"])
    /\ UNCHANGED <<people, segment, recipients, lock, changes>>

TakeLock(r) ==
    /\ run[r].phase = "locking"
    /\ lock = Free
    /\ lock' = HeldBy(r)
    /\ Goes(r, [run[r] EXCEPT !.phase = "checking"])
    /\ UNCHANGED <<people, segment, recipients, changes>>

(* Mutant: who waited for the lock does not look again.                     *)
GoOn(r) ==
    /\ run[r].phase = "checking"
    /\ Goes(r, Begun(run[r].wants))
    /\ UNCHANGED <<people, segment, recipients, lock, changes>>

CheckAgain(r) ==
    /\ run[r].phase = "checking"
    /\ IF recipients # {}
       THEN Ends(r) /\ lock' = Free
       ELSE Goes(r, Begun(run[r].wants)) /\ UNCHANGED lock
    /\ UNCHANGED <<people, segment, recipients, changes>>

(* The segment is read by id.  If it is gone meanwhile, a run without a     *)
(* list ends; one with a list keeps the query it started from, which is the *)
(* whole tenant's.                                                          *)
LookUpSegment(r) ==
    /\ run[r].phase = "target"
    /\ Goes(r, [run[r] EXCEPT
           !.phase = CASE HasList -> "list"
                       [] ~ HasList /\ run[r].wants /\ segment -> "segment"
                       [] OTHER -> "commit",
           !.wide = run[r].wants /\ ~ segment])
    /\ UNCHANGED <<people, segment, recipients, lock, changes>>

-----------------------------------------------------------------------------
(* Pages.  The cursor's row itself is skipped: the first row of the answer, *)
(* which is another if that row no longer matches; if it is gone, the       *)
(* answer is empty.                                                         *)
Behind(rows, cursor) ==
    CASE cursor = Start -> rows
      [] cursor # Start /\ people[cursor].there ->
            LET from == {c \in rows : c >= cursor} IN {c \in from : \E d \in from : d < c}
      [] OTHER -> {}

FirstOf(rows, cursor) ==
    LET left == Behind(rows, cursor) IN
    {c \in left : Cardinality({d \in left : d < c}) < BatchSize}

Greatest(page) == CHOOSE c \in page : \A d \in page : d <= c

(* A page is put in hand; the cursor moves behind it even if all of it was  *)
(* seen before.                                                             *)
Turned(w, rows, then) ==
    LET page == FirstOf(rows, w.cursor)
        fresh == page \ w.seen
    IN  [w EXCEPT
            !.phase = then,
            !.cursor = IF page = {} THEN Start ELSE Greatest(page),
            !.page = fresh,
            !.fit = {c \in fresh : people[c].allowed},
            !.seen = IF w.wants THEN @ \cup fresh ELSE @,
            !.more = Cardinality(page) = BatchSize,
            !.slipped = @ \/ (w.cursor # Start /\ w.cursor \notin rows)]

ReadList(r) ==
    /\ run[r].phase = "list"
    /\ Goes(r, Turned(run[r], {c \in Contacts : Member(c)}, "filterList"))
    /\ UNCHANGED <<people, segment, recipients, lock, changes>>

ReadSegment(r) ==
    /\ run[r].phase = "segment"
    /\ LET rows == {c \in Contacts : IF run[r].wide THEN people[c].there ELSE Matches(c)}
       IN  Goes(r, Turned(run[r], rows, "filterSegment"))
    /\ UNCHANGED <<people, segment, recipients, lock, changes>>

(* filterCandidateBatch: the contacts as the page had them, the             *)
(* suppressions as they are now.  Eligible ones are drafted; the row of a   *)
(* contact deleted meanwhile breaks the transaction (see RollBack).         *)
After(w) ==
    CASE w.more -> IF w.phase = "filterList" THEN "list" ELSE "segment"
      [] ~ w.more /\ w.phase = "filterList" /\ w.wants -> "segment"
      [] OTHER -> "commit"

Filtered(w, eligible) ==
    [w EXCEPT
        !.phase = After(w),
        !.cursor = IF w.more THEN @ ELSE Start,
        !.page = {}, !.fit = {},
        !.drafts = @ \cup eligible]

(* Mutant: a page that was not full is not drafted any more.                *)
FilterFullPages(r) ==
    /\ run[r].phase \in {"filterList", "filterSegment"}
    /\ Goes(r, Filtered(run[r], {c \in run[r].fit : run[r].more /\ ~ people[c].barred}))
    /\ UNCHANGED <<people, segment, recipients, lock, changes>>

Filter(r) ==
    /\ run[r].phase \in {"filterList", "filterSegment"}
    /\ LET eligible == {c \in run[r].fit : ~ people[c].barred} IN
       /\ r \in Previews \/ \A c \in eligible : people[c].there
       /\ Goes(r, Filtered(run[r], eligible))
    /\ UNCHANGED <<people, segment, recipients, lock, changes>>

-----------------------------------------------------------------------------
(* The end.  A preview only counts.                                         *)
Commit(r) ==
    /\ run[r].phase = "commit"
    /\ IF r \in Previews THEN UNCHANGED <<recipients, lock>>
       ELSE recipients' = recipients \cup run[r].drafts /\ lock' = Free
    /\ Ends(r)
    /\ UNCHANGED <<people, segment, changes>>

(* A query fails, the 60 s of the transaction pass, or the process ends.    *)
RollBack(r) ==
    /\ run[r].phase \notin {"idle", "over"}
    /\ Ends(r)
    /\ lock' = IF lock = HeldBy(r) THEN Free ELSE lock
    /\ UNCHANGED <<people, segment, recipients, changes>>

-----------------------------------------------------------------------------
(* Meanwhile.  A contact unsubscribes or is suppressed, leaves or joins the *)
(* list, stops or starts to match, or is deleted; the segment is deleted.   *)
Changes ==
    /\ changes < MaxChanges
    /\ changes' = changes + 1

Walking(r) == run[r].phase \notin {"idle", "locking", "checking", "over"}
Noted(all) ==
    run' = [r \in Runs |->
        IF Walking(r)
        THEN [run[r] EXCEPT !.steady = @ \cap Qualified(all, run[r].wants),
                            !.ever = @ \cup Qualified(all, run[r].wants)]
        ELSE run[r]]

(* A drafted recipient keeps its contact from being deleted.                *)
ContactChanges(c) ==
    /\ Changes
    /\ people[c].there
    /\ \E new \in {[people[c] EXCEPT !.barred = TRUE],
                   [people[c] EXCEPT !.allowed = FALSE],
                   [people[c] EXCEPT !.member = ~ @],
                   [people[c] EXCEPT !.matches = ~ @],
                   [people[c] EXCEPT !.there = FALSE]} :
          /\ new.there \/ \A r \in Runs \ Previews : c \notin run[r].drafts
          /\ people' = [people EXCEPT ![c] = new]
          /\ Noted([people EXCEPT ![c] = new])
    /\ UNCHANGED <<segment, recipients, lock>>

SegmentGoes ==
    /\ segment
    /\ Changes
    /\ segment' = FALSE
    /\ UNCHANGED <<people, recipients, run, lock>>

AudienceNext ==
    \/ \E r \in Runs :
          Begin(r) \/ TakeLock(r) \/ CheckAgain(r) \/ LookUpSegment(r) \/ ReadList(r)
          \/ ReadSegment(r) \/ Filter(r) \/ Commit(r) \/ RollBack(r)
    \/ \E c \in Contacts : ContactChanges(c)
    \/ SegmentGoes

AudienceSpec == AudienceInit /\ [][AudienceNext]_audienceVars

-----------------------------------------------------------------------------
(* However many runs were under way: no step changes the recipients of a    *)
(* campaign that has some (header: "immutable, frozen"; resolver.ts:178-236)*)
StaysFrozen == recipients # {} => recipients' = recipients

(* Two snapshots at once fix the recipients of a campaign once              *)
(* (resolver.ts:178-236).                                                   *)
SnapshotIsFrozen == [][StaysFrozen]_audienceVars

(* Whoever is on the list, or in the segment, from the start of a run to    *)
(* its end is among what it found, however the others come and go, unless   *)
(* the contact a page started from dropped out between two pages.  Changing *)
(* from the segment to the list is not enough: the list was walked before   *)
(* (resolver.ts:450-484, 536-613).                                          *)
NobodyForgotten ==
    \A r \in Runs :
        run[r].phase = "commit" /\ ~ run[r].slipped /\ ~ run[r].wide =>
            Who(run[r].steady) \subseteq run[r].drafts

(* Whoever a run drafts has qualified at some moment since it began, unless *)
(* its segment went away in between (resolver.ts:497-531, 696-745).         *)
NobodyElse == \A r \in Runs : ~ run[r].wide => run[r].drafts \subseteq Who(run[r].ever)

(* Both of a walk: it forgets nobody who qualifies throughout and drafts    *)
(* nobody who never did, with their exceptions (resolver.ts:450-613).       *)
RightAudience == NobodyForgotten /\ NobodyElse
=============================================================================
