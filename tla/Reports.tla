------------------------------ MODULE Reports ------------------------------
(***************************************************************************)
(* What a node's check report becomes: findings in the contract's words,   *)
(* the ones the document ignores, the counts of the others, and the        *)
(* ratings they cap.  An id of 0 is an absent field of the message.        *)
(***************************************************************************)
EXTENDS Integers, Sequences, FiniteSets, SequencesExt

CONSTANT None

\* The elements at some places of a sequence, in their order.
Numbered(places) == [m \in places |-> Cardinality({o \in places : o <= m})]
Picked(seq, places) ==
    [n \in 1..Cardinality(places) |-> seq[AntiFunction(Numbered(places))[n]]]

EntityKinds == <<"division", "group", "teacher", "room", "subject", "year",
                 "external_block", "split", "link">>
Rank(kind) == CHOOSE n \in DOMAIN EntityKinds : EntityKinds[n] = kind

InfoCategories == {"start_variance", "subject_always_last"}
PreferenceCategories == {"stability"}

\* The severity the verdict gives a soft issue; None is not counted.
SoftSeverity(issue) ==
    CASE issue.count = 0 -> None
      [] issue.configHard -> "error"
      [] issue.category \in PreferenceCategories -> None
      [] issue.category \in InfoCategories -> "note"
      [] OTHER -> "warning"

\* The entity an id without a kind stands for.
UnspecifiedAs(kind) ==
    CASE kind = "group_size_mismatch" -> "split"
      [] kind \in {"link_same_day", "link_different_day", "link_consecutive",
                   "invalid_rule_config"} -> "link"
      [] OTHER -> None

\* A reference that cannot be named is dropped.
EntitiesOf(refs, unspecified) ==
    LET named == [n \in DOMAIN refs |->
            [refs[n] EXCEPT !.kind = IF @ = "unspecified" THEN unspecified ELSE @]]
    IN  Picked(named, {n \in DOMAIN named : named[n].kind # None})

\* Each lesson once, as it was first named.
LessonsOf(refs) == Picked(refs, {n \in DOMAIN refs : \A m \in 1..(n - 1) : refs[m] # refs[n]})

ConflictFinding(conflict, severity, part) ==
    [part |-> part, kind |-> conflict.kind, severity |-> severity,
     entities |-> EntitiesOf(conflict.entities, UnspecifiedAs(conflict.kind)),
     lessons |-> LessonsOf(conflict.lessons), spans |-> conflict.spans]

IssueFinding(issue, severity, part) ==
    [part |-> part, kind |-> issue.category, severity |-> severity,
     entities |-> EntitiesOf(issue.entities, None),
     lessons |-> LessonsOf(issue.lessons), spans |-> issue.spans]

\* The places of the soft issues that count, and of the remarks that are told.
Counted(soft) == {n \in DOMAIN soft : SoftSeverity(soft[n]) # None}
Noted(info) == {n \in DOMAIN info : info[n].category \in InfoCategories}

\* Input findings first; the timetable's only when the node validated one.
Findings(answer) ==
    LET of(seq, severity, part) == [n \in DOMAIN seq |-> ConflictFinding(seq[n], severity, part)]
        counted == Picked(answer.soft, Counted(answer.soft))
        infos == Picked(answer.info, Noted(answer.info))
    IN  of(answer.hard, "error", "input") \o of(answer.advisory, "warning", "input")
        \o IF ~answer.rated THEN <<>>
           ELSE of(answer.conflicts, "error", "timetable")
                \o [n \in DOMAIN counted |-> IssueFinding(counted[n], SoftSeverity(counted[n]), "rule")]
                \o [n \in DOMAIN infos |-> IssueFinding(infos[n], "note", "timetable")]

-----------------------------------------------------------------------------
(* The findings a document ignores, by what they are about in any order. *)

Identity(finding) == [kind |-> finding.kind, entities |-> finding.entities,
                      lessons |-> finding.lessons, spans |-> finding.spans]

\* A sequence in the order of a set of pairs; what is equal keeps its order.
Places(seq, before) ==
    [m \in DOMAIN seq |-> Cardinality({n \in DOMAIN seq :
        <<seq[n], seq[m]>> \in before \/ (seq[n] = seq[m] /\ n <= m)})]
Sorted(seq, before) == [k \in DOMAIN seq |-> seq[AntiFunction(Places(seq, before))[k]]]

EntitiesInOrder(S) ==
    {p \in S \X S : \/ Rank(p[1].kind) < Rank(p[2].kind)
                    \/ p[1].kind = p[2].kind /\ p[1].id < p[2].id}
NumbersInOrder(S) == {p \in S \X S : p[1] < p[2]}

\* Mutant of FindingKey: the order the node named things in is part of the key.
FindingKeyAsListed(identity) == identity
FindingKey(identity) ==
    [kind |-> identity.kind,
     entities |-> Sorted(identity.entities, EntitiesInOrder(ToSet(identity.entities))),
     lessons |-> Sorted(identity.lessons, NumbersInOrder(ToSet(identity.lessons))),
     spans |-> Sorted(identity.spans, NumbersInOrder(ToSet(identity.spans)))]

Ignores(ignored, finding) ==
    \E other \in ignored : FindingKey(other) = FindingKey(Identity(finding))

-----------------------------------------------------------------------------
(* Ratings: an error caps the school and every class and teacher it touches. *)

Rating(quality, errors) ==
    IF errors <= 0 THEN quality ELSE Min({quality, Max({0, 50 - 5 * errors})})

\* FindingIndex.Entities over the model's groups, splits, years and lessons.
ClassesOf(model, entities, lessons) ==
    LET direct(e) ==
            CASE e.kind = "division" -> {e.id}
              [] e.kind = "group" -> {model.groups[e.id]}
              [] e.kind = "split" -> {model.splits[e.id]}
              [] e.kind = "year" -> model.years[e.id]
              [] OTHER -> {}
        taught(id) == UNION {{p.division, model.groups[p.group]} : p \in model.lessons[id].parts}
    IN  (UNION ({direct(entities[n]) : n \in DOMAIN entities}
                \cup {taught(lessons[n]) : n \in DOMAIN lessons})) \ {0}

TeachersOf(model, entities, lessons) ==
    ({entities[n].id : n \in {m \in DOMAIN entities : entities[m].kind = "teacher"}}
     \cup UNION {{model.lessons[lessons[n]].teacher, model.lessons[lessons[n]].support} :
                    n \in DOMAIN lessons}) \ {0}

Caps(finding) == finding.severity = "error" /\ ~finding.ignored

CapRatings(score, findings, model, errors) ==
    LET hits(Touched(_, _, _), id) ==
            Cardinality({n \in DOMAIN findings :
                Caps(findings[n]) /\ id \in Touched(model, findings[n].entities, findings[n].lessons)})
    IN  [rating |-> Rating(score.quality, errors),
         classes |-> [id \in DOMAIN score.classes |-> Rating(score.classes[id], hits(ClassesOf, id))],
         teachers |-> [id \in DOMAIN score.teachers |-> Rating(score.teachers[id], hits(TeachersOf, id))]]

-----------------------------------------------------------------------------
Convert(answer, ignored, model) ==
    LET found == Findings(answer)
        findings == [n \in DOMAIN found |->
            [part |-> found[n].part, severity |-> found[n].severity, kind |-> found[n].kind,
             entities |-> found[n].entities, lessons |-> found[n].lessons, spans |-> found[n].spans,
             ignored |-> Ignores(ignored, found[n])]]
        count(severity) == Cardinality({n \in DOMAIN findings :
                               ~findings[n].ignored /\ findings[n].severity = severity})
    IN  [findings |-> findings,
         errors |-> count("error"), warnings |-> count("warning"), notes |-> count("note"),
         ignored |-> Cardinality({n \in DOMAIN findings : findings[n].ignored}),
         score |-> IF answer.rated
                   THEN CapRatings(answer.score, findings, model, count("error"))
                   ELSE None]

\* The timetable's counts as verdictDrift compares them with the node's.
Drift(answer) ==
    LET soft(severity) == Cardinality({n \in DOMAIN answer.soft : SoftSeverity(answer.soft[n]) = severity})
    IN  [errors |-> Len(answer.conflicts) + soft("error"),
         warnings |-> soft("warning"),
         notes |-> soft("note") + Cardinality(Noted(answer.info))]
=============================================================================
