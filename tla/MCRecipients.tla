---------------------------- MODULE MCRecipients ----------------------------
(***************************************************************************)
(* Who gets a mail: segments, the walk through an audience, and consent.   *)
(* They share no row as they are modelled: a behaviour is one of the       *)
(* three, chosen at the start, and the variables of the others rest.       *)
(***************************************************************************)
EXTENDS Segments, Audience, Consent

CONSTANT Rest            \* the value of a variable of Segments where it rests

VARIABLE
    part                 \* which of the three this behaviour is

-----------------------------------------------------------------------------
(* Texts: two of one word but for case, a longer one, and the empty one.    *)
a == <<"a">>
A == <<"A">>
ab == <<"a", "b">>
spaced == <<" ", "a">>

Facts == {"received", "opened", "clicked", "failed"}
Ordinary ==
    [consent |-> TRUE, status |-> "ACTIVE", email |-> ab, name |-> ab, source |-> ab,
     emailed |-> 1, consented |-> 1, metadata |-> TRUE, tier |-> ab, member |-> "SUBSCRIBED",
     past |-> [f \in Facts |-> "never"]]

(* Contacts that differ from an ordinary one in the fields a condition      *)
(* reads, two of them at once where a criterion may combine them.           *)
Texts == {Missing, <<>>, a, A}
Named == [Ordinary EXCEPT !.name = Missing, !.metadata = FALSE, !.tier = Missing]
SomeSubjects ==
    {Ordinary, Named}
    \cup {[Ordinary EXCEPT !.name = t, !.tier = u] : t, u \in Texts}
    \cup {[Ordinary EXCEPT !.name = t, !.metadata = FALSE, !.tier = Missing] : t \in Texts}
    \cup {[Ordinary EXCEPT !.source = t, !.consent = b] : t \in Texts, b \in BOOLEAN}
    \cup {[Ordinary EXCEPT !.email = t, !.status = s] : t \in {a, A}, s \in {"ACTIVE", "BOUNCED"}}
    \cup {[Ordinary EXCEPT !.emailed = d, !.consented = e] : d, e \in {Never, 0, 2}}
    \cup {[Ordinary EXCEPT !.member = m, !.past = [f \in Facts |-> age]] :
             m \in {"NONE", "UNSUBSCRIBED"}, age \in {"lately", "long ago"}}

Text(kind, o, values) == [kind |-> kind, op |-> o, values |-> values]
Equal == {"equals", "in"}
Unequal == {"not_equals", "not_in"}
Related == {"contains", "not_contains", "starts_with", "ends_with"}
Present == {"exists", "is_not_empty", "not_exists", "is_empty"}
Ordered == {"less_than", "less_than_or_equal", "greater_than", "greater_than_or_equal"}

Alone ==
    {Text(k, o, v) : k \in {"email", "name", "source", "custom"},
                      o \in Equal \cup Unequal \cup Related \cup Present,
                      v \in {{a}, {A}, {spaced}}}
    \cup {Text(k, o, v) : k \in {"email", "name", "custom"}, o \in {"in", "not_in"}, v \in {{a, ab}}}
    \cup {Text("consentSource", o, {v}) : o \in {"equals", "contains", "in"}, v \in {a, A}}
    \cup {Text("status", o, {"ACTIVE"}) : o \in Equal \cup Unequal}
    \cup {[kind |-> k, op |-> o, value |-> b] :
             k \in {"flag", "consentFlag"}, o \in {"equals", "not_equals"}, b \in BOOLEAN}
    \cup {[kind |-> "date", field |-> f, op |-> o, days |-> 1] :
             f \in {"lastEmailedAt", "consentTimestamp", "updatedAt"}, o \in Ordered}
    \cup {[kind |-> "consentTime", op |-> o, days |-> 1] : o \in {"within_days", "before"}}
    \cup {[kind |-> "suppression", op |-> o] :
             o \in {"is_suppressed", "is_not_suppressed", "reason_equals"}}
    \cup {[kind |-> "engagement", dimension |-> d, op |-> o, days |-> 1] :
             d \in {"last_emailed", "activity_recency", "never_emailed"},
             o \in {"within_days", "older_than_days", "never", "active"}}
    \cup {[kind |-> "list", op |-> o, status |-> "SUBSCRIBED"] : o \in {"in_list", "not_in_list"}}
    \cup {[kind |-> "history", fact |-> f, some |-> s, window |-> w] :
             f \in Facts, s, w \in BOOLEAN}

(* One condition of each family that reads something else, for the groups.  *)
Combined ==
    {Text("name", o, {a}) : o \in {"equals", "not_equals", "not_contains"}}
    \cup {Text("custom", o, {a}) : o \in {"equals", "not_exists"}}
    \cup {Text("source", "contains", {a}), Text("status", "equals", {"ACTIVE"}),
          Text("email", "in", {a}),
          [kind |-> "flag", op |-> "not_equals", value |-> TRUE],
          [kind |-> "suppression", op |-> "reason_equals"],
          [kind |-> "engagement", dimension |-> "last_emailed", op |-> "older_than_days", days |-> 1],
          [kind |-> "history", fact |-> "opened", some |-> FALSE, window |-> TRUE]}

Group(conj, conds) == [kind |-> "group", conjunction |-> conj, conditions |-> conds]
Conjunctions == {"AND", "OR"}
Other(conj) == CHOOSE inner \in Conjunctions : inner # conj
Single == {Group("AND", <<l>>) : l \in Alone \cup Combined}
Pairs ==
    {Group(conj, <<>>) : conj \in Conjunctions}
    \cup {Group(conj, <<l, k>>) : conj \in Conjunctions, l, k \in Combined}
Inner == {Group("OR", <<Group("AND", <<l>>)>>) : l \in Combined}
Nested ==
    {Group(conj, <<l, Group(Other(conj), <<k, l>>)>>) : conj \in Conjunctions, l, k \in Combined}
    \cup {Group(conj, <<l, Group("OR", <<>>)>>) : conj \in Conjunctions, l \in Combined}
Deep == {Group("AND", <<g>>) : g \in Inner}

SomeCriteria == Single \cup Pairs \cup Nested \cup Deep

GroupsIn(n) == {n.conditions[i] : i \in {j \in DOMAIN n.conditions : n.conditions[j].kind = "group"}}
Stands ==
    [n \in SomeCriteria \cup Inner \cup Alone \cup Combined |->
        IF n.kind # "group" THEN 0
        ELSE IF GroupsIn(n) = {} THEN 1
        ELSE IF UNION {GroupsIn(g) : g \in GroupsIn(n)} = {} THEN 2
        ELSE 3]

-----------------------------------------------------------------------------
ASSUME RecipientConstantsOK ==
    SegmentConstantsOK /\ AudienceConstantsOK /\ ConsentConstantsOK

NothingJudged ==
    criteria = Rest /\ subject = Rest /\ stage = "submitted" /\ answer = "none" /\ again = "none"
NobodyWalks == AudienceInit /\ \A c \in Contacts : ~Member(c) /\ ~Matches(c)
NobodyMails == ConsentInit /\ contact = NoContact(CHOOSE as \in Spellings : TRUE)

RecipientInit ==
    \/ part = "segment" /\ SegmentInit /\ NobodyWalks /\ NobodyMails
    \/ part = "walk" /\ AudienceInit /\ NothingJudged /\ NobodyMails
    \/ part = "mails" /\ ConsentInit /\ NothingJudged /\ NobodyWalks

RecipientNext ==
    \/ part = "segment" /\ SegmentNext /\ UNCHANGED <<part, audienceVars, consentVars>>
    \/ part = "walk" /\ AudienceNext /\ UNCHANGED <<part, segmentVars, consentVars>>
    \/ part = "mails" /\ ConsentNext /\ UNCHANGED <<part, segmentVars, audienceVars>>

recipientVars == <<part, segmentVars, audienceVars, consentVars>>
RecipientSpec == RecipientInit /\ [][RecipientNext]_recipientVars

(* The snapshots exclude each other by a lock; a preview shares nothing     *)
(* with them but the contacts, so that it is looked at by itself; the       *)
(* second change is looked at under one snapshot.                           *)
Snapshots == Runs \ Previews
FewAtATime ==
    /\ (\E r \in Previews : run[r].phase # "idle") =>
           changes <= 1 /\ \A r \in Snapshots : run[r].phase = "idle"
    /\ (\A r \in Snapshots : run[r].phase # "idle") => changes <= 1

(* Snapshots, operations and spellings are alike.                           *)
Alike == UNION {Permutations(Snapshots), Permutations(Ops), Permutations(Spellings)}

=============================================================================
