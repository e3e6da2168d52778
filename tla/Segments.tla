------------------------------ MODULE Segments ------------------------------
(***************************************************************************)
(* Who belongs to a segment: src/lib/services/email-segment-service.ts.    *)
(*                                                                         *)
(* A stored criterion is a tree of conditions with two interpreters.  One  *)
(* translates it into a query (translateLeafToPrisma); the other judges a  *)
(* contact in memory (evaluateLeafNode).  A preview asks the query alone   *)
(* when every condition could be translated; otherwise the query narrows,  *)
(* with "has metadata" in the place of what it cannot say, and memory      *)
(* judges the rows.  An automation that checks again asks memory alone.    *)
(*                                                                         *)
(* Abstractions.  A text is a sequence of letters, where Missing stands    *)
(* for one that is not there; a date is a number of days ago, Never none.  *)
(* Lists, campaigns, opens, clicks and deliveries are facts with an age.   *)
(* One custom attribute stands for all.  No condition is negated, so that  *)
(* an SQL condition on NULL is as good as FALSE.  The clock is the same    *)
(* for both interpreters.  Pages of the preview: see Audience.             *)
(***************************************************************************)
EXTENDS Integers, Sequences, FiniteSets, SequencesExt

CONSTANTS
    Subjects,    \* the contacts that are looked at, one at a time
    Submitted,   \* the criteria that are submitted
    Height,      \* how high a node of a criterion stands over its conditions
    MaxDepth     \* MAX_RECURSION_DEPTH

Nodes == DOMAIN Height
Groups == {n \in Nodes : n.kind = "group"}
Conditions == Nodes \ Groups

Kinds ==
    {"flag", "status", "email", "name", "source", "date", "custom", "consentFlag", "consentSource",
     "consentTime", "suppression", "engagement", "list", "history"}

(* A criterion is a finite tree: JSON cannot say another.  Days are numbers.*)
SegmentConstantsOK ==
    /\ MaxDepth \in Nat
    /\ Height \in [Nodes -> Nat]
    /\ Submitted \subseteq Groups
    /\ \A n \in Groups :
          /\ n.conditions \in Seq(Nodes)
          /\ \A i \in DOMAIN n.conditions : Height[n.conditions[i]] < Height[n]
    /\ \A l \in Conditions :
          /\ l.kind \in Kinds
          /\ l.kind \in {"date", "consentTime", "engagement"} => l.days \in Int
    /\ \A c \in Subjects : c.emailed \in Int /\ c.consented \in Int

VARIABLES
    criteria,    \* the criterion as submitted
    subject,     \* the contact in question
    stage,       \* how far the preview has come
    answer,      \* what the preview says of the contact
    again        \* what a later check in memory says of it

segmentVars == <<criteria, subject, stage, answer, again>>

Missing == <<"null">>
Never == -1

Letter(x) == CASE x = "A" -> "a" [] x = "B" -> "b" [] OTHER -> x
Lower(t) == [i \in DOMAIN t |-> Letter(t[i])]
Trim(t) == IF t # <<>> /\ Head(t) = " " THEN Tail(t) ELSE t
OrEmpty(t) == IF t = Missing THEN <<>> ELSE t

Includes(t, s) == \E i \in 0..Len(t) : IsPrefix(s, SubSeq(t, i + 1, Len(t)))
Relates(op, t, s) ==
    CASE op = "contains" -> Includes(t, s)
      [] op = "starts_with" -> IsPrefix(s, t)
      [] op = "ends_with" -> IsSuffix(s, t)

Equality == {"equals", "in"}
Inequality == {"not_equals", "not_in"}
Relations == {"contains", "starts_with", "ends_with"}
Presence == {"exists", "is_not_empty"}
Absence == {"not_exists", "is_empty"}
Older == {"less_than", "less_than_or_equal"}
Newer == {"greater_than", "greater_than_or_equal"}

SuppressedStatus == {"SUPPRESSED", "BOUNCED", "COMPLAINED"}

-----------------------------------------------------------------------------
(* The query.  A condition without a translation leaves the judgement to    *)
(* memory; the typed conditions come with the operators they accept.        *)
Translates(l) ==
    CASE l.kind = "flag"    -> l.op \in {"equals", "not_equals"}
      [] l.kind = "status"  -> l.op \in Equality \cup Inequality
      [] l.kind = "email"   -> l.op \in Equality \cup Inequality \cup Relations
      [] l.kind = "name"    -> l.op \in Equality \cup Inequality \cup Relations
      [] l.kind = "source"  -> l.op \in {"equals", "contains"}
      [] l.kind = "date"    -> l.op \in Older \cup Newer
                               /\ l.field \in {"lastEmailedAt", "consentTimestamp"}
      [] l.kind = "consentFlag"   -> TRUE
      [] l.kind = "consentSource" -> l.op \in {"equals", "contains"}
      [] l.kind = "consentTime"   -> l.op = "within_days"
      [] l.kind = "suppression"   -> l.op \in {"is_suppressed", "is_not_suppressed"}
      [] l.kind = "engagement"    -> \/ l.dimension = "never_emailed"
                                     \/ /\ l.dimension = "last_emailed"
                                        /\ l.op \in {"within_days", "older_than_days", "never"}
      [] l.kind = "list"    -> TRUE
      [] l.kind = "history" -> TRUE
      [] l.kind = "custom"  -> FALSE

Is(op, matches) == matches = (op \notin Inequality)

QueryText(l, t) ==
    CASE l.op \in {"equals"} \cup Relations ->
            t # Missing /\ \E v \in l.values :
                IF l.op = "equals" THEN Lower(t) = Lower(Trim(v))
                                   ELSE Relates(l.op, Lower(t), Lower(Trim(v)))
      [] l.op = "not_equals" -> t # Missing /\ t \notin {Trim(v) : v \in l.values}
      [] l.op \in {"in", "not_in"} -> t # Missing /\ Is(l.op, t \in l.values)

QueryEmail(l, c) ==
    IF l.op \in Relations THEN QueryText(l, c.email)
    ELSE Is(l.op, Lower(c.email) \in {Lower(Trim(v)) : v \in l.values})

QueryDate(l, c) ==
    LET d == IF l.field = "lastEmailedAt" THEN c.emailed ELSE c.consented IN
    d # Never /\ IF l.op \in Newer THEN d <= l.days ELSE d >= l.days

(* Mutant: whoever was never emailed counts as one emailed lately.          *)
QueryEngagementAlways(l, c) ==
    CASE l.dimension = "never_emailed" \/ l.op = "never" -> c.emailed = Never
      [] OTHER -> (c.emailed <= l.days) = (l.op = "within_days")

QueryEngagement(l, c) ==
    CASE l.dimension = "never_emailed" \/ l.op = "never" -> c.emailed = Never
      [] OTHER -> c.emailed # Never /\ ((c.emailed <= l.days) = (l.op = "within_days"))

(* in_list wants a membership of the given status, not_in_list none of any. *)
QueryList(l, c) == IF l.op = "in_list" THEN c.member = l.status ELSE c.member = "NONE"

(* some or none of a fact, within a time where the operator looks at one.   *)
QueryHistory(l, c) ==
    LET looks == /\ l.window
                 /\ l.fact \notin {"complained", "failed"}
                 /\ l.some \/ l.fact = "opened"
        ages == IF looks THEN {"lately"} ELSE {"lately", "long ago"}
    IN  (c.past[l.fact] \in ages) = l.some

QueryLeaf(l, c) ==
    CASE l.kind \in {"flag", "consentFlag"} -> (c.consent = l.value) = (l.op # "not_equals")
      [] l.kind = "status" -> Is(l.op, c.status \in l.values)
      [] l.kind = "email" -> QueryEmail(l, c)
      [] l.kind = "name" -> QueryText(l, c.name)
      [] l.kind \in {"source", "consentSource"} -> QueryText(l, c.source)
      [] l.kind = "date" -> QueryDate(l, c)
      [] l.kind = "consentTime" -> c.consented # Never /\ c.consented <= l.days
      [] l.kind = "suppression" -> (c.status \in SuppressedStatus) = (l.op = "is_suppressed")
      [] l.kind = "engagement" -> QueryEngagement(l, c)
      [] l.kind = "list" -> QueryList(l, c)
      [] l.kind = "history" -> QueryHistory(l, c)

(* The conditions of a tree.                                                *)
Leaves(n) ==
    LET leaves[m \in Nodes] ==
            IF m.kind = "group" THEN UNION {leaves[m.conditions[i]] : i \in DOMAIN m.conditions} ELSE {m}
    IN  leaves[n]

(* The verdict on a group: the first condition that decides ends it.  Where *)
(* no condition throws, that is AND or OR, as the query has them.           *)
Decide(conjunction, verdicts) ==
    LET goesOn == IF conjunction = "AND" THEN "yes" ELSE "no"
        decides == {i \in DOMAIN verdicts : verdicts[i] # goesOn}
    IN  IF decides = {} THEN goesOn ELSE verdicts[Min(decides)]

(* The verdicts on all nodes, from what is said of every condition.         *)
Verdicts(says) ==
    LET verdict[n \in Nodes] ==
            IF n.kind = "group"
            THEN Decide(n.conjunction, [i \in DOMAIN n.conditions |-> verdict[n.conditions[i]]])
            ELSE says[n]
    IN  verdict

YesNo(holds) == IF holds THEN "yes" ELSE "no"

QuerySays(c) == [l \in Conditions |-> YesNo(IF Translates(l) THEN QueryLeaf(l, c) ELSE c.metadata)]
Query(n, c) == Verdicts(QuerySays(c))[n] = "yes"

(* hasAttributeConditions.                                                  *)
Hybrid(n) == \E l \in Leaves(n) : ~ Translates(l)

Depth(n) ==
    LET Nested(m) == {m.conditions[i] : i \in DOMAIN m.conditions} \cap Groups
        depth[m \in Groups] == IF Nested(m) = {} THEN 0 ELSE 1 + Max({depth[g] : g \in Nested(m)})
    IN  depth[n]

HasEmptyGroup(n) ==
    LET empty[m \in Nodes] ==
            m \in Groups /\ (m.conditions = <<>> \/ \E i \in DOMAIN m.conditions : empty[m.conditions[i]])
    IN  empty[n]

-----------------------------------------------------------------------------
(* Memory.  evaluateOperator on a text, where an absent one is undefined.   *)
JudgeText(op, t, values) ==
    LET same == t # Missing /\ \E v \in values : Lower(t) = Lower(v)
        related(o) == t # Missing /\ \E v \in values : Relates(o, Lower(t), Lower(v))
    IN  CASE op \in Equality \cup Inequality -> Is(op, same)
          [] op \in Relations -> related(op)
          [] op = "not_contains" -> ~ related("contains")
          [] op \in Presence -> OrEmpty(t) # <<>>
          [] op \in Absence -> OrEmpty(t) = <<>>
          [] OTHER -> FALSE

(* A date that memory does not know by name is looked up in the metadata.   *)
JudgeDate(l, c) ==
    LET d == IF l.field = "lastEmailedAt" THEN c.emailed ELSE Never IN
    CASE l.op = "greater_than" -> d # Never /\ d < l.days
      [] l.op = "greater_than_or_equal" -> d # Never /\ d <= l.days
      [] l.op = "less_than" -> d > l.days
      [] l.op = "less_than_or_equal" -> d >= l.days
      [] l.op \in Presence -> d # Never
      [] l.op \in Absence -> d = Never
      [] OTHER -> FALSE

JudgeEngagement(l, c) ==
    CASE l.dimension = "activity_recency" -> TRUE
      [] l.dimension = "never_emailed" \/ l.op = "never" -> c.emailed = Never
      [] OTHER -> /\ c.emailed # Never
                  /\ l.op = "within_days" => c.emailed <= l.days
                  /\ l.op = "older_than_days" => c.emailed > l.days

(* A typed condition whose operator is not known holds of everybody; one    *)
(* about related rows has no field to look at and throws.                   *)
Judge(l, c) ==
    CASE l.kind \in {"flag", "consentFlag"} -> (c.consent = l.value) = (l.op # "not_equals")
      [] l.kind = "status" -> Is(l.op, c.status \in l.values)
      [] l.kind = "email" -> JudgeText(l.op, c.email, l.values)
      [] l.kind = "name" -> JudgeText(l.op, OrEmpty(c.name), l.values)
      [] l.kind = "source" -> JudgeText(l.op, OrEmpty(c.source), l.values)
      [] l.kind = "consentSource" ->
            l.op \in {"equals", "contains"} => JudgeText(l.op, OrEmpty(c.source), l.values)
      [] l.kind = "date" -> JudgeDate(l, c)
      [] l.kind = "consentTime" -> l.op = "within_days" => c.consented <= l.days
      [] l.kind = "suppression" ->
            CASE l.op = "is_suppressed" -> c.status \in SuppressedStatus
              [] l.op = "is_not_suppressed" -> c.status \notin SuppressedStatus
              [] OTHER -> TRUE
      [] l.kind = "engagement" -> JudgeEngagement(l, c)
      [] l.kind = "custom" -> JudgeText(l.op, c.tier, l.values)

MemorySays(c) ==
    [l \in Conditions |-> IF l.kind \in {"list", "history"} THEN "error" ELSE YesNo(Judge(l, c))]
Memory(n, c) == Verdicts(MemorySays(c))[n]

-----------------------------------------------------------------------------
SegmentInit ==
    /\ criteria \in Submitted
    /\ subject \in Subjects
    /\ stage = "submitted" /\ answer = "none" /\ again = "none"

(* validateCriteria.                                                        *)
RefuseCriteria ==
    /\ stage = "submitted"
    /\ Depth(criteria) > MaxDepth \/ HasEmptyGroup(criteria)
    /\ stage' = "refused"
    /\ UNCHANGED <<criteria, subject, answer, again>>

AcceptCriteria ==
    /\ stage = "submitted"
    /\ Depth(criteria) <= MaxDepth /\ ~ HasEmptyGroup(criteria)
    /\ stage' = "stored"
    /\ UNCHANGED <<criteria, subject, answer, again>>

(* The query returns the contact or it does not.                            *)
AskQuery ==
    /\ stage = "stored"
    /\ IF Query(criteria, subject) /\ Hybrid(criteria)
       THEN stage' = "judging" /\ UNCHANGED answer
       ELSE stage' = "answered" /\ answer' = YesNo(Query(criteria, subject))
    /\ UNCHANGED <<criteria, subject, again>>

AskMemory ==
    /\ stage = "judging"
    /\ stage' = "answered"
    /\ answer' = Memory(criteria, subject)
    /\ UNCHANGED <<criteria, subject, again>>

(* An automation re-evaluates its segment before a step.                    *)
JudgeAgain ==
    /\ stage = "answered" /\ again = "none"
    /\ again' = Memory(criteria, subject)
    /\ UNCHANGED <<criteria, subject, stage, answer>>

SegmentNext == RefuseCriteria \/ AcceptCriteria \/ AskQuery \/ AskMemory \/ JudgeAgain

SegmentSpec == SegmentInit /\ [][SegmentNext]_segmentVars

-----------------------------------------------------------------------------
Tidy(t) == t # Missing /\ t = Lower(t) /\ t = Trim(t)

(* Conditions and contacts on which both interpreters mean the same: texts  *)
(* are present, trimmed and of one case, no date sits on the bound, the     *)
(* operator is one that both know, and a custom attribute is looked up in a *)
(* contact that has some.                                                   *)
Plain(l, c) ==
    CASE l.kind \in {"email", "name", "source", "consentSource"} ->
            /\ l.kind = "consentSource" => l.op \in {"equals", "contains"}
            /\ (l.kind \in {"source", "name", "email"} /\ ~ Translates(l)) => c.metadata
            /\ \A v \in l.values : Tidy(v)
            /\ CASE l.kind = "email" -> Tidy(c.email)
                 [] l.kind = "name" -> Tidy(c.name)
                 [] OTHER -> Tidy(c.source)
      [] l.kind = "date" -> /\ l.field = "lastEmailedAt" /\ Translates(l)
                            /\ c.emailed \notin {Never, l.days}
      [] l.kind = "consentTime" -> l.op = "within_days" /\ c.consented # Never
      [] l.kind \in {"list", "history"} -> FALSE
      [] l.kind \in {"custom"} -> c.metadata
      [] OTHER -> Translates(l)

(* A contact that is in the segment by the preview is in it for an          *)
(* automation that checks again, and the other way round, on plain          *)
(* conditions: the two interpreters, one with and one without a query in    *)
(* front, are one (email-segment-service.ts:467-685, 692-1163).             *)
PlainConditionsAgree ==
    (again # "none" /\ \A l \in Leaves(criteria) : Plain(l, subject)) => answer = again
=============================================================================
