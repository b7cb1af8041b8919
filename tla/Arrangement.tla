---------------------------- MODULE Arrangement -----------------------------
(***************************************************************************)
(* What a saved Library may hold (core/library/check.go): a sequence of    *)
(* folders, each in another one or at the top level, and the projects of   *)
(* each, the top level's, the pinned and the recent ones.  A check answers *)
(* <<>>, or the field and the code of the first thing it refuses.          *)
(***************************************************************************)
EXTENDS Integers, Sequences, FiniteSets, FiniteSetsExt, SequencesExt

CONSTANTS
    FolderIDs,      \* the ids a folder may have
    Blank, TooLong, \* names that are empty once trimmed, or too long
    Accents,        \* the accents a folder may have
    MaxFolders, MaxProjects, MaxRecent, MaxDepth

Fine == << >>

\* The first refusal of a sequence of verdicts.
FirstOf(verdicts) ==
    LET refused == {i \in DOMAIN verdicts : verdicts[i] # Fine}
    IN  IF refused = {} THEN Fine ELSE verdicts[Min(refused)]

-----------------------------------------------------------------------------
\* What one folder says of itself; its id is one no folder before it has.
Named(folders, i) ==
    IF folders[i].id \notin FolderIDs THEN <<"folders.id", "invalid">>
    ELSE IF \E j \in 1..(i - 1) : folders[j].id = folders[i].id THEN <<"folders.id", "duplicate">>
    ELSE IF folders[i].name \in Blank THEN <<"folders.name", "required">>
    ELSE IF folders[i].name \in TooLong THEN <<"folders.name", "too_long">>
    ELSE IF folders[i].accent \notin Accents THEN <<"folders.accent", "invalid">>
    ELSE Fine

Ids(folders) == {folders[j].id : j \in DOMAIN folders}
ParentOf(folders, id) == folders[CHOOSE j \in DOMAIN folders : folders[j].id = id].parent

\* The parents on the way up from a folder; past the top, or past a folder that
\* is not there, the last one again.
Climb(folders, i) ==
    LET at[d \in 1..(Len(folders) + 1)] ==
            IF d = 1 THEN folders[i].parent
            ELSE IF at[d - 1] \in Ids(folders) THEN ParentOf(folders, at[d - 1])
            ELSE at[d - 1]
    IN  at

\* Mutant of Tangled: a walk is one parent too short.
TangledEarly(depth, folders) == depth >= Len(folders) - 1

\* More parents than there are folders: the walk goes in a circle.
Tangled(depth, folders) == depth > Len(folders)

\* The walk looks at the d-th parent at depth d, and ends at the top, at a
\* folder that is not there, or in a circle.
Walk(folders, i) ==
    LET at == Climb(folders, i)
        depth == Min({d \in DOMAIN at : \/ at[d] = "" \/ at[d] \notin Ids(folders)
                                        \/ Tangled(d, folders)})
    IN  IF at[depth] = ""
        THEN IF depth > MaxDepth THEN <<"folders.parent_id", "too_deep">> ELSE Fine
        ELSE IF at[depth] \notin Ids(folders) THEN <<"folders.parent_id", "unknown">>
        ELSE <<"folders.parent_id", "cycle">>

\* The folders are looked at one after another, then their parents.
checkFolders(folders) ==
    IF Len(folders) > MaxFolders THEN <<"folders", "too_many">>
    ELSE FirstOf(<<FirstOf([i \in DOMAIN folders |-> Named(folders, i)]),
                   FirstOf([i \in DOMAIN folders |-> Walk(folders, i)])>>)

-----------------------------------------------------------------------------
\* The projects of the folders before one.
Placed(folders, i) == UNION {ToSet(folders[j].projects) : j \in 1..(i - 1)}

\* One list of projects, none of which sits in a list before it or here twice.
Seated(field, ids, placed) ==
    FirstOf([n \in DOMAIN ids |->
        IF ids[n] <= 0 THEN <<field, "invalid">>
        ELSE IF ids[n] \in placed \/ \E m \in 1..(n - 1) : ids[m] = ids[n]
             THEN <<"projects", "duplicate">>
        ELSE Fine])

\* A project sits in one folder or at the top level, once.
place(a) ==
    FirstOf(<<
        FirstOf([i \in DOMAIN a.folders |->
                    Seated("folders.projects", a.folders[i].projects, Placed(a.folders, i))]),
        Seated("projects", a.projects, Placed(a.folders, Len(a.folders) + 1))>>)

\* One list with its ids in it once.
distinct(field, ids) ==
    FirstOf([n \in DOMAIN ids |->
        IF ids[n] <= 0 THEN <<field, "invalid">>
        ELSE IF \E m \in 1..(n - 1) : ids[m] = ids[n] THEN <<field, "duplicate">>
        ELSE Fine])

\* Every project id an arrangement names.
names(a) ==
    UNION {ToSet(a.folders[i].projects) : i \in DOMAIN a.folders}
    \cup ToSet(a.projects) \cup ToSet(a.pinned) \cup ToSet(a.recent)

check(a) ==
    FirstOf(<<
        IF a.version < 0 THEN <<"version", "invalid">> ELSE Fine,
        checkFolders(a.folders),
        place(a),
        distinct("pinned", a.pinned),
        IF Len(a.recent) > MaxRecent THEN <<"recent", "too_many">> ELSE Fine,
        distinct("recent", a.recent),
        IF Cardinality(names(a)) > MaxProjects THEN <<"projects", "too_many">> ELSE Fine>>)

=============================================================================
