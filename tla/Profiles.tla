------------------------------ MODULE Profiles ------------------------------
(***************************************************************************)
(* The school's rule profiles (core/profiles, api/v1/profiles.go): a table *)
(* every planner reads, whose rows their creator and administrators change *)
(* and remove.  Each statement is atomic and nothing is held between two   *)
(* of them, so a change is checked against a row that may be changed,      *)
(* removed or robbed of its new name before it is written.                 *)
(***************************************************************************)
EXTENDS Naturals, Sequences, FiniteSets, Functions

CONSTANTS
  Workers,     \* the requests on their way at once
  Editors,     \* who asks: [id, admin]
  Ids,         \* the ids newID draws
  Typed,       \* the names people type
  Trimmed,     \* a typed name without the spaces around it
  Lists,       \* the lists of overrides people send: sequences of rules
  Malformed,   \* the rules no profile can hold
  MaxOverrides

VARIABLES
  table,   \* the rule_profiles rows by id
  drawn,   \* the ids drawn so far
  worker,  \* each request, or its last answer
  last     \* for each profile, the name and the rules last set

vars == <<table, drawn, worker, last>>

Idle == [pc |-> "idle", answer |-> "none", id |-> 0, sets |-> {}, name |-> "",
         rules |-> << >>, why |-> {}]

Init ==
  /\ table = << >>
  /\ drawn = {}
  /\ worker = [w \in Workers |-> Idle]
  /\ last = << >>

-----------------------------------------------------------------------------

EditableBy(profile, editor) == editor.admin \/ (editor.id # "" /\ editor.id = profile.by)

cleanName(name) == Trimmed[name]

\* Too many, a malformed one, one rule twice.
CheckOverrides(rules) ==
  /\ Len(rules) <= MaxOverrides
  /\ \A i \in DOMAIN rules : rules[i] \notin Malformed
  /\ \A i, j \in DOMAIN rules : rules[i] = rules[j] => i = j

\* What a request may not ask for: an empty name, a list no profile can hold.
Refusable(sets, name, rules) ==
  \/ "name" \in sets /\ cleanName(name) = ""
  \/ "rules" \in sets /\ ~CheckOverrides(rules)

\* Whether no other profile has the name: the statement's own condition, and
\* the unique index where two statements race.
Free(name, id) == \A other \in DOMAIN table \ {id} : table[other].name # name

Holders(name, id) == {other \in DOMAIN table \ {id} : table[other].name = name}

Answer(w, told) ==
  worker' = [worker EXCEPT ![w] = 
       [Idle EXCEPT !.answer = told, !.id = IF told = "missing" THEN worker[w].id ELSE 0,
          !.why = IF told = "taken" THEN worker[w].why ELSE {}]]

\* Create: one insert, refused where the name is taken.
Create(w) ==
  /\ worker[w].pc = "idle"
  /\ \E editor \in Editors, id \in Ids \ drawn, typed \in Typed, rules \in Lists :
       LET name == cleanName(typed) IN
       \/ /\ Refusable({"name", "rules"}, typed, rules)
          /\ worker' = [worker EXCEPT ![w] = [Idle EXCEPT !.answer = "invalid"]]
          /\ UNCHANGED <<table, drawn, last>>
       \/ /\ ~Refusable({"name", "rules"}, typed, rules)
          /\ ~Free(name, id)
          /\ worker' = [worker EXCEPT ![w] =
               [Idle EXCEPT !.answer = "taken", !.why = Holders(name, id)]]
          /\ drawn' = drawn \cup {id}
          /\ UNCHANGED <<table, last>>
       \/ /\ ~Refusable({"name", "rules"}, typed, rules)
          /\ Free(name, id)
          /\ table' = [i \in DOMAIN table \cup {id} |-> IF i = id
               THEN [name |-> name, rules |-> rules, by |-> editor.id] ELSE table[i]]
          /\ last' = [i \in DOMAIN last \cup {id} |-> IF i = id
               THEN [name |-> name, rules |-> rules] ELSE last[i]]
          /\ drawn' = drawn \cup {id}
          /\ worker' = [worker EXCEPT ![w] = [Idle EXCEPT !.answer = "created"]]

\* Update and Delete begin with the same read: a missing profile, one that is
\* not the caller's, a change that cannot be and a change of nothing end there.
\* A change goes on with the profile as read, the sent fields in it.
Read(w, kind, sets, name, rules) ==
  /\ worker[w].pc = "idle"
  /\ \E editor \in Editors, id \in drawn :
       LET told == IF id \notin DOMAIN table THEN "missing"
                   ELSE IF ~EditableBy(table[id], editor) THEN "forbidden"
                   ELSE IF Refusable(sets, name, rules) THEN "invalid"
                   ELSE IF kind = "update" /\ sets = {} THEN "changed"
                   ELSE "none"
       IN  worker' = [worker EXCEPT ![w] =
             IF told # "none"
             THEN [Idle EXCEPT !.answer = told, !.id = IF told = "missing" THEN id ELSE 0]
             ELSE [Idle EXCEPT !.pc = kind, !.id = id, !.sets = sets,
                !.name = IF "name" \in sets THEN cleanName(name)
                         ELSE IF kind = "update" THEN table[id].name ELSE @,
                !.rules = IF "rules" \in sets THEN rules
                          ELSE IF kind = "update" THEN table[id].rules ELSE @]]
  /\ UNCHANGED <<table, drawn, last>>

Update(w) ==
  \E sets \in SUBSET {"name", "rules"} :
    \E name \in (IF "name" \in sets THEN Typed ELSE {""}),
       rules \in (IF "rules" \in sets THEN Lists ELSE {<< >>}) :
      Read(w, "update", sets, name, rules)

Delete(w) == Read(w, "delete", {}, "", << >>)

\* Mutant of Changed: the row is written back as it was read, with the change
\* in it.
ChangedWhole(row, request) ==
  [row EXCEPT !.name = request.name, !.rules = request.rules]

\* The statement sets only the columns the change names.
Changed(row, request) ==
  [row EXCEPT
     !.name = IF "name" \in request.sets THEN request.name ELSE @,
     !.rules = IF "rules" \in request.sets THEN request.rules ELSE @]

\* The statement finds the row, and its name free where it sets one.
UpdateLands(w) ==
  LET request == worker[w] IN
  /\ request.pc = "update"
  /\ request.id \in DOMAIN table
  /\ "name" \in request.sets => Free(request.name, request.id)
  /\ table' = [table EXCEPT ![request.id] = Changed(@, request)]
  /\ last' = [last EXCEPT ![request.id] =
       [name |-> IF "name" \in request.sets THEN request.name ELSE @.name,
        rules |-> IF "rules" \in request.sets THEN request.rules ELSE @.rules]]
  /\ worker' = [worker EXCEPT ![w].pc = "answer"]
  /\ UNCHANGED drawn

\* The unique index refuses it: the name went between the statement's own
\* look and its write.
UpdateRefused(w) ==
  LET request == worker[w] IN
  /\ request.pc = "update"
  /\ request.id \in DOMAIN table
  /\ "name" \in request.sets /\ ~Free(request.name, request.id)
  /\ worker' = [worker EXCEPT ![w] = [Idle EXCEPT !.answer = "taken",
                                        !.why = Holders(request.name, request.id)]]
  /\ UNCHANGED <<table, drawn, last>>

\* It changes no row: the name is taken or the profile went meanwhile.
UpdateMissed(w) ==
  LET request == worker[w]
      found == request.id \in DOMAIN table
      taken == "name" \in request.sets /\ ~Free(request.name, request.id)
  IN
  /\ request.pc = "update"
  /\ ~found \/ taken
  /\ worker' = [worker EXCEPT ![w].pc = "missed",
       ![w].why = IF found /\ taken THEN Holders(request.name, request.id) ELSE {}]
  /\ UNCHANGED <<table, drawn, last>>

\* Which of the two is read afterwards.
Missed(w) ==
  /\ worker[w].pc = "missed"
  /\ Answer(w, IF worker[w].id \in DOMAIN table THEN "taken" ELSE "missing")
  /\ UNCHANGED <<table, drawn, last>>

\* A change that landed is answered with the row as it is then.
Reread(w) ==
  /\ worker[w].pc = "answer"
  /\ Answer(w, IF worker[w].id \in DOMAIN table THEN "changed" ELSE "missing")
  /\ UNCHANGED <<table, drawn, last>>

DeleteLands(w) ==
  LET id == worker[w].id IN
  /\ worker[w].pc = "delete"
  /\ table' = Restrict(table, DOMAIN table \ {id})
  /\ last' = Restrict(last, DOMAIN last \ {id})
  /\ Answer(w, IF id \in DOMAIN table THEN "deleted" ELSE "missing")
  /\ UNCHANGED drawn

\* The database does not answer; before or after the statement alike.
Unavailable(w) ==
  /\ worker[w].pc # "idle"
  /\ worker' = [worker EXCEPT ![w] = [Idle EXCEPT !.answer = "unavailable"]]
  /\ UNCHANGED <<table, drawn, last>>

Next ==
  \E w \in Workers :
    \/ Create(w) \/ Update(w) \/ Delete(w)
    \/ UpdateLands(w) \/ UpdateRefused(w) \/ UpdateMissed(w)
    \/ Missed(w) \/ Reread(w) \/ DeleteLands(w) \/ Unavailable(w)

Spec == Init /\ [][Next]_vars

-----------------------------------------------------------------------------
(* Properties.                                                             *)

\* A profile is picked by its name: no two have names a reader cannot tell
\* apart, whoever creates and renames at once.
NamesDistinct ==
  \A i, j \in DOMAIN table : Trimmed[table[i].name] = Trimmed[table[j].name] => i = j

\* Two changes of one profile at once, a rename and new rules, are both kept:
\* each column is what the last change that named it set.
BothKept ==
  \A id \in DOMAIN table :
    table[id].name = last[id].name /\ table[id].rules = last[id].rules

\* A refusal names the true reason: "taken" only where another profile had the
\* name when the statement looked, "missing" only for a profile that is gone.
RefusalHonest ==
  \A w \in Workers :
    /\ worker[w].answer = "taken" => worker[w].why # {}
    /\ worker[w].pc = "idle" /\ worker[w].answer = "missing" => worker[w].id \notin DOMAIN table

\* Requests that create, rename, change and delete at once leave what each of
\* them was told: names that differ, every change that was answered, and
\* refusals for the reason given (Repository.Create, Repository.Update).
ProfilesStand == NamesDistinct /\ BothKept /\ RefusalHonest
=============================================================================
