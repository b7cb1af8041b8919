---------------------------- MODULE MCDocuments ----------------------------
(* What is made from documents, on small ones, and the check service: a      *)
(* behaviour computes one output of Documents, or takes the steps of Checks.  *)
EXTENDS Documents, Checks, TLC

Short(S, n) == UNION {[1..m -> S] : m \in 0..n}

-----------------------------------------------------------------------------
(* Check reports: a school of two classes of one year, class 1 with a group  *)
(* and a split, two teachers and two lessons.                               *)
OneSchool ==
    [groups |-> (0 :> 0) @@ (1 :> 1), splits |-> (0 :> 0) @@ (1 :> 1), years |-> (1 :> {1, 2}),
     lessons |-> (1 :> [teacher |-> 1, support |-> 0, parts |-> {[division |-> 0, group |-> 1]}])
              @@ (2 :> [teacher |-> 2, support |-> 1, parts |-> {[division |-> 2, group |-> 0]}])]

Clash(kind, entities, lessons) ==
    [kind |-> kind, entities |-> entities, lessons |-> lessons, spans |-> <<>>]
Ref(kind, id) == [kind |-> kind, id |-> id]
Clashes ==
    {Clash("teacher_overloaded", <<Ref("teacher", 1), Ref("division", 1)>>, <<>>),
     Clash("teacher_overloaded", <<Ref("division", 1), Ref("teacher", 1)>>, <<>>),
     Clash("group_size_mismatch", <<Ref("unspecified", 1)>>, <<>>),
     Clash("room_taken", <<Ref("unspecified", 1)>>, <<2, 1, 2>>)}
Remarks == {[category |-> c, count |-> n, configHard |-> h,
             entities |-> <<Ref("year", 1)>>, lessons |-> <<>>, spans |-> <<1>>] :
               c \in {"stability", "start_variance", "gap"}, n \in {0, 1}, h \in BOOLEAN}
Infos == {i \in Remarks : i.count = 1 /\ ~i.configHard}
Score == [quality |-> 90, classes |-> <<80, 30>>, teachers |-> <<70, 47>>]

Identities == {R!Identity(R!ConflictFinding(c, "error", "input")) : c \in Clashes}
Answers ==
    [hard : Short(Clashes, 1), advisory : Short(Clashes, 1), rated : BOOLEAN,
     conflicts : Short(Clashes, 1), soft : Short(Remarks, 1), info : Short(Infos, 1),
     score : {Score}]
SmallReported == {[answer |-> a, ignored |-> i] :
                     a \in Answers, i \in {{}} \cup {{id} : id \in Identities}}

-----------------------------------------------------------------------------
(* Arrangements: up to three folders with any parents, and the lists of an   *)
(* arrangement of up to two.                                                *)
Empty == [version |-> 0, folders |-> <<>>, projects |-> <<>>, pinned |-> <<>>, recent |-> <<>>]
Folder(id, parent, projects) ==
    [id |-> id, name |-> "n", accent |-> "", parent |-> parent, projects |-> projects]
Parents == {"", "a", "b", "c", "x"}
Nested == {[Empty EXCEPT !.folders = f] : f \in
    Short({Folder(id, p, <<>>) : id \in {"a", "b", "c"}, p \in Parents}, 3)
    \cup {[n \in 1..4 |-> Folder("a", "", <<>>)], <<Folder("", "", <<>>)>>}
    \cup {<<[Folder("a", "", <<>>) EXCEPT !.name = n, !.accent = c]>> :
             n \in {"", "n", "nn"}, c \in {"", "red"}}}
Listed == [version : {-1, 1},
           folders : {<<Folder("a", "", f), Folder("b", "a", g)>> : f, g \in {<<>>, <<1>>, <<2>>, <<0>>}},
           projects : Short({0, 1}, 2), pinned : Short({1, 3}, 2), recent : Short({0, 1}, 3)]
SmallArranged == Nested \cup Listed

-----------------------------------------------------------------------------
(* The check service: plan versions v1 and v2, v2 under other rules too, or  *)
(* one result under its own rules and others.                               *)
VARIABLE asked

CheckScopeOf == [v1 |-> "plan", v2 |-> "plan", v2r |-> "plan", r |-> "result", rr |-> "result"]
CheckVersionOf == [v1 |-> 1, v2 |-> 2, v2r |-> 2, r |-> 1, rr |-> 1]
CheckKeyOf == [v1 |-> "k1", v2 |-> "k2", v2r |-> "k2r", r |-> "k3", rr |-> "k3r"]

checkVars == <<vars, asked>>

-----------------------------------------------------------------------------
MCvars == <<docVars, checkVars>>

MCInit ==
    /\ DocInit
    /\ Init
    /\ asked \in {{"v1", "v2"}, {"v2", "v2r"}, {"r", "rr"}}
    /\ part # "none" => asked = {"v1", "v2"}

Make == Compute /\ UNCHANGED checkVars

Check ==
    /\ part = "none"
    /\ Next
    /\ \A c \in {"a", "b"} : caller'[c].of \in {"none"} \cup asked
    /\ UNCHANGED <<docVars, asked>>

MCNext == Make \/ Check

Fairness ==
    /\ \A c \in {"a", "b"} : WF_MCvars(Turn(c) /\ UNCHANGED <<docVars, asked>>)
    /\ \A f \in {"f1", "f2"} : WF_MCvars(Work(f) /\ UNCHANGED <<docVars, asked>>)

MCSpec == MCInit /\ [][MCNext]_MCvars /\ Fairness
=============================================================================
