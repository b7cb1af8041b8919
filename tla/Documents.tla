----------------------------- MODULE Documents ------------------------------
(***************************************************************************)
(* What is made from a stored document or a sent one: a node's answer and  *)
(* the findings a document ignores become a report, and an arrangement is  *)
(* checked before it is stored.  Neither has a state: a behaviour takes    *)
(* one input of one of them and computes what the code computes from it.   *)
(***************************************************************************)
EXTENDS Integers, Sequences, FiniteSets, FiniteSetsExt, SequencesExt

CONSTANTS
    School,         \* the model of the document a report is about
    Reported,       \* answers of a node, each with what the document ignores
    Arranged,       \* arrangements that are sent
    FolderIDs, Blank, TooLong, Accents,
    MaxFolders, MaxProjects, MaxRecent, MaxDepth

VARIABLES part, input, output

docVars == <<part, input, output>>

R == INSTANCE Reports WITH None <- "none"
A == INSTANCE Arrangement

KindNames == {R!EntityKinds[n] : n \in 1..9}
Refs(kinds) == Seq([kind : kinds, id : Int])
Conflict == [kind : STRING, entities : Refs(KindNames \cup {"unspecified"}),
             lessons : Seq(Int), spans : Seq(Int)]
Issue == [category : STRING, count : Nat, configHard : BOOLEAN,
          entities : Refs(KindNames \cup {"unspecified"}), lessons : Seq(Int), spans : Seq(Int)]
\* What a node may answer and a document ignore: entities are of the kinds the
\* message has, or of none; ids, spans and ratings are numbers.
ASSUME ReportsGiven ==
    \A r \in Reported :
        /\ r.answer.rated \in BOOLEAN
        /\ r.answer.hard \in Seq(Conflict) /\ r.answer.advisory \in Seq(Conflict)
        /\ r.answer.conflicts \in Seq(Conflict)
        /\ r.answer.soft \in Seq(Issue) /\ r.answer.info \in Seq(Issue)
        /\ r.answer.score.quality \in Int
        /\ \A id \in DOMAIN r.answer.score.classes : r.answer.score.classes[id] \in Int
        /\ \A id \in DOMAIN r.answer.score.teachers : r.answer.score.teachers[id] \in Int
        /\ r.ignored \subseteq [kind : STRING, entities : Refs(KindNames),
                                lessons : Seq(Int), spans : Seq(Int)]

\* What a client may send: any lists, but texts and numbers in them; no folder
\* has the empty text as its id, which as a parent is the top level.
ASSUME ArrangedGiven ==
    /\ \A a \in Arranged :
        /\ a.version \in Int
        /\ a.folders \in Seq([id : STRING, name : STRING, accent : STRING, parent : STRING,
                              projects : Seq(Int)])
        /\ a.projects \in Seq(Int) /\ a.pinned \in Seq(Int) /\ a.recent \in Seq(Int)
    /\ "" \notin FolderIDs
    /\ MaxFolders \in Nat /\ MaxProjects \in Nat /\ MaxRecent \in Nat /\ MaxDepth \in Nat

-----------------------------------------------------------------------------
Report == R!Convert(input.answer, input.ignored, School)
Plain == R!Convert(input.answer, {}, School)
Checked == A!check(input)

DocInit ==
    /\ \/ part = "report" /\ input \in Reported
       \/ part = "arrangement" /\ input \in Arranged
       \/ part = "none" /\ input = << >>
    /\ output = << >>

Compute ==
    /\ part \in {"report", "arrangement"}
    /\ output = << >>
    /\ output' = <<IF part = "report" THEN Report ELSE Checked>>
    /\ UNCHANGED <<part, input>>

DocSpec == DocInit /\ [][Compute]_docVars

Shown == part = "report" /\ output # << >>
Given == output[1]

-----------------------------------------------------------------------------
\* The counts of a report are the node's own plus the input's, whichever of
\* the two ways they are counted, and a report's counts cover its findings
\* (checks.Convert, checks.verdictDrift).
CountsAgree ==
    Shown =>
        LET drift == IF input.answer.rated THEN R!Drift(input.answer)
                     ELSE [errors |-> 0, warnings |-> 0, notes |-> 0]
        IN  /\ Plain.errors = Len(input.answer.hard) + drift.errors
            /\ Plain.warnings = Len(input.answer.advisory) + drift.warnings
            /\ Plain.notes = drift.notes
            /\ Given.errors + Given.warnings + Given.notes + Given.ignored
                  = Len(Given.findings)

\* The same things, in whatever order they are listed.
Reordered(s, t) ==
    /\ Len(s) = Len(t)
    /\ \E p \in [DOMAIN s -> DOMAIN s] :
          /\ \A n \in DOMAIN s : \E m \in DOMAIN s : p[m] = n
          /\ \A m \in DOMAIN s : s[p[m]] = t[m]

\* A finding is ignored exactly when the document ignores one of its kind
\* about the same things, in whatever order either names them
\* (document.Ignoring, checks.identity).
IgnoredInAnyOrder ==
    Shown => \A n \in DOMAIN Given.findings :
        LET finding == Given.findings[n]
        IN  finding.ignored <=> \E other \in input.ignored :
                /\ other.kind = finding.kind
                /\ Reordered(other.entities, finding.entities)
                /\ Reordered(other.lessons, finding.lessons)
                /\ Reordered(other.spans, finding.spans)

\* An error that counts is about a class, or a teacher.
Hurt(Of(_, _, _), id) ==
    \E n \in DOMAIN Given.findings :
        /\ Given.findings[n].severity = "error" /\ ~Given.findings[n].ignored
        /\ id \in Of(School, Given.findings[n].entities, Given.findings[n].lessons)

\* Ignoring a finding never lowers a rating, who is touched by an error that
\* counts is rated 45 at most, and nobody else pays for it
\* (checks.capRatings, solveclient.Rating, FindingIndex.Entities).
RatingsFollow ==
    Shown /\ input.answer.rated =>
        LET quality == input.answer.score
        IN  /\ Plain.score.rating <= Given.score.rating
            /\ IF Given.errors > 0 THEN Given.score.rating <= 45
               ELSE Given.score.rating = quality.quality
            /\ \A id \in DOMAIN quality.classes :
                  /\ Plain.score.classes[id] <= Given.score.classes[id]
                  /\ IF Hurt(R!ClassesOf, id) THEN Given.score.classes[id] <= 45
                     ELSE Given.score.classes[id] = quality.classes[id]
            /\ \A id \in DOMAIN quality.teachers :
                  /\ Plain.score.teachers[id] <= Given.score.teachers[id]
                  /\ IF Hurt(R!TeachersOf, id) THEN Given.score.teachers[id] <= 45
                     ELSE Given.score.teachers[id] = quality.teachers[id]

\* A report says of every finding what the node and the document say of it, and
\* rates who it is about accordingly (checks.Convert).
ReportTrue == CountsAgree /\ IgnoredInAnyOrder /\ RatingsFollow

-----------------------------------------------------------------------------
(* Everything that is wrong with an arrangement. *)

Flaw(field, code, wrong) == IF wrong THEN {<<field, code>>} ELSE {}

\* The folders above one: the least set with its parent and theirs.
Above(folders, x) ==
    {y \in A!Ids(folders) :
        \A S \in SUBSET A!Ids(folders) :
            (\A n \in DOMAIN folders :
                folders[n].id \in S \cup {x} /\ folders[n].parent \in A!Ids(folders)
                => folders[n].parent \in S)
            => y \in S}

FolderFlaws(folders) ==
    LET ids == A!Ids(folders)
        some == DOMAIN folders
    IN  Flaw("folders", "too_many", Len(folders) > MaxFolders)
        \cup Flaw("folders.id", "invalid", ids \ FolderIDs # {})
        \cup Flaw("folders.id", "duplicate", Cardinality(ids) < Len(folders))
        \cup Flaw("folders.name", "required", \E n \in some : folders[n].name \in Blank)
        \cup Flaw("folders.name", "too_long", \E n \in some : folders[n].name \in TooLong)
        \cup Flaw("folders.accent", "invalid", \E n \in some : folders[n].accent \notin Accents)
        \cup Flaw("folders.parent_id", "unknown",
                  \E n \in some : folders[n].parent \notin ids \cup {""})
        \cup Flaw("folders.parent_id", "cycle", \E x \in ids : x \in Above(folders, x))
        \cup Flaw("folders.parent_id", "too_deep",
                  \E x \in ids : Cardinality(Above(folders, x)) >= MaxDepth)

ListFlaws(field, ids) ==
    Flaw(field, "invalid", \E n \in DOMAIN ids : ids[n] <= 0)
    \cup Flaw(field, "duplicate", Cardinality(ToSet(ids)) < Len(ids))

\* The places of projects: in a list of a folder, or of the top level, which is 0.
List(a, i) == IF i = 0 THEN a.projects ELSE a.folders[i].projects
Seats(a) == UNION {{i} \X DOMAIN List(a, i) : i \in 0..Len(a.folders)}
At(a, s) == List(a, s[1])[s[2]]

SeatFlaws(a) ==
    Flaw("folders.projects", "invalid", \E s \in Seats(a) : s[1] > 0 /\ At(a, s) <= 0)
    \cup Flaw("projects", "invalid", \E s \in Seats(a) : s[1] = 0 /\ At(a, s) <= 0)
    \cup Flaw("projects", "duplicate", \E s, o \in Seats(a) : s # o /\ At(a, s) = At(a, o))
    \cup Flaw("projects", "too_many", Cardinality(A!names(a)) > MaxProjects)

Flaws(a) ==
    Flaw("version", "invalid", a.version < 0)
    \cup FolderFlaws(a.folders) \cup SeatFlaws(a)
    \cup ListFlaws("pinned", a.pinned) \cup ListFlaws("recent", a.recent)
    \cup Flaw("recent", "too_many", Len(a.recent) > MaxRecent)

\* An arrangement is stored exactly when nothing is wrong with it: its folders
\* are a forest of bounded depth and each project has one place; and what a
\* refusal names is really wrong (library.check, library.checkFolders).
ForestStored ==
    part = "arrangement" /\ output # << >> =>
        IF Given = A!Fine THEN Flaws(input) = {} ELSE Given \in Flaws(input)
=============================================================================
