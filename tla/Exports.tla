------------------------------ MODULE Exports -------------------------------
(***************************************************************************)
(* Exported files (core/exports, api/v1/exports.go, core/plans/exports.go):*)
(* a file is built once from a version or a result of a plan, kept in the  *)
(* object store under a key of its own with a row that names it, and       *)
(* answered from there.  Callers of one key share a build that none of     *)
(* them owns.  The server restarts with another school key while files of  *)
(* the old one are kept; a source is removed while its file is built.      *)
(***************************************************************************)
EXTENDS Naturals, FiniteSets, Functions

CONSTANTS
  Callers,      \* the requests on their way at once
  Files,        \* what may be asked: [kind, number, format] of one plan
  Varied,       \* the formats encrypted to the school's key
  Recipients,   \* the school's key at a start, "" for none
  Unplaced,     \* the sources without a timetable
  MaxRestarts   \* bounds the restarts

VARIABLES
  recipient,  \* the school's key of this process
  restarts,
  present,    \* the versions and results that are still there
  rows,       \* plan_exports by key: whose file it is, its variant and size
  objects,    \* the object store by key
  garbage,    \* the keys in object_garbage
  flights,    \* the builds on their way, by key
  caller,     \* each request, or its last answer
  made,       \* how often each file was made since a build of it failed
  faults      \* the keys a build of which failed in this process

vars == <<recipient, restarts, present, rows, objects, garbage, flights, caller, made, faults>>

Source(file) == [kind |-> file.kind, number |-> file.number]
Sources == {Source(file) : file \in Files}

\* Mutant of Key: version 1 and result 1 of a plan share one.
KeyByNumber(file) == <<file.number, file.format>>

Key(file) == <<file.kind, file.number, file.format>>
Keys == {Key(file) : file \in Files}

NoFile == [kind |-> "", number |-> 0, format |-> ""]
NoContent == [of |-> NoFile, variant |-> ""]
Idle == [pc |-> "idle", file |-> NoFile, variant |-> "", answer |-> "none", got |-> NoContent]

Init ==
  /\ recipient \in Recipients
  /\ restarts = 0
  /\ present = Sources
  /\ rows = << >>
  /\ objects = << >>
  /\ garbage = {}
  /\ flights = << >>
  /\ caller = [c \in Callers |-> Idle]
  /\ made = [k \in Keys |-> 0]
  /\ faults = {}

With(f, key, value) == [k \in DOMAIN f \cup {key} |-> IF k = key THEN value ELSE f[k]]
Without(f, key) == Restrict(f, DOMAIN f \ {key})

\* What the bytes depend on besides the source.
variantOf(file) == IF file.format \in Varied THEN recipient ELSE ""

\* The length of the bytes: encrypting adds to it.
Size(content) == content.variant # ""

\* The file kept under key, when it was built with variant and is whole.
kept(key, variant) ==
  /\ key \in DOMAIN rows
  /\ rows[key].variant = variant
  /\ key \in DOMAIN objects
  /\ Size(objects[key]) = rows[key].size

-----------------------------------------------------------------------------
(* A request.                                                              *)

\* The source is read as every other read of it, then the kept file.
File(c) ==
  /\ caller[c].pc = "idle"
  /\ \E file \in Files :
       LET variant == variantOf(file) IN
       caller' = [caller EXCEPT ![c] =
         IF Source(file) \notin present THEN [Idle EXCEPT !.answer = "missing"]
         ELSE IF kept(Key(file), variant)
         THEN [Idle EXCEPT !.answer = "file", !.file = file, !.got = objects[Key(file)]]
         ELSE [Idle EXCEPT !.pc = "join", !.file = file, !.variant = variant]]
  /\ UNCHANGED <<recipient, restarts, present, rows, objects, garbage, flights, made, faults>>

\* It waits for the build of its key, and begins one where there is none.
Join(c) ==
  LET key == Key(caller[c].file) IN
  /\ caller[c].pc = "join"
  /\ caller' = [caller EXCEPT ![c].pc = "wait"]
  /\ flights' = IF key \in DOMAIN flights THEN flights
                ELSE With(flights, key, [pc |-> "kept", file |-> caller[c].file,
                       variant |-> caller[c].variant, made |-> NoContent])
  /\ UNCHANGED <<recipient, restarts, present, rows, objects, garbage, made, faults>>

-----------------------------------------------------------------------------
(* The build of a key, a step for every call it makes.                     *)

At(key, pc) == key \in DOMAIN flights /\ flights[key].pc = pc

\* Everyone who waits for the key is answered, and the key is free again.
Land(key, answer, content) ==
  /\ flights' = Without(flights, key)
  /\ caller' = [c \in Callers |->
       IF caller[c].pc = "wait" /\ Key(caller[c].file) = key
       THEN [Idle EXCEPT !.answer = answer, !.file = caller[c].file, !.got = content]
       ELSE caller[c]]

\* Mutant of Leave: the build dies with a caller that waits for it.
LeaveCancels(c) ==
  /\ caller[c].pc = "wait"
  /\ flights' = Without(flights, Key(caller[c].file))
  /\ caller' = [o \in Callers |->
       IF o = c THEN Idle
       ELSE IF caller[o].pc = "wait" /\ Key(caller[o].file) = Key(caller[c].file)
       THEN [Idle EXCEPT !.answer = "unavailable", !.file = caller[o].file]
       ELSE caller[o]]
  /\ UNCHANGED <<recipient, restarts, present, rows, objects, garbage, made, faults>>

\* A caller that leaves is answered no more; its build goes on.
Leave(c) ==
  /\ caller[c].pc \in {"join", "wait"}
  /\ caller' = [caller EXCEPT ![c] = Idle]
  /\ UNCHANGED <<recipient, restarts, present, rows, objects, garbage, flights, made, faults>>

Step(key, pc) == flights' = [flights EXCEPT ![key].pc = pc] /\ UNCHANGED caller

\* A build that ended just before this one began has kept the file.
BuildKept(key) ==
  /\ At(key, "kept")
  /\ IF kept(key, flights[key].variant)
     THEN Land(key, "file", objects[key])
     ELSE Step(key, "export")
  /\ UNCHANGED <<recipient, restarts, present, rows, objects, garbage, made, faults>>

\* The document is loaded and the bytes are made; one without a timetable is
\* refused by the exporter.
Export(key) ==
  LET file == flights[key].file IN
  /\ At(key, "export")
  /\ IF Source(file) \in Unplaced
     THEN /\ Land(key, "refused", NoContent)
          /\ UNCHANGED made
     ELSE /\ flights' = [flights EXCEPT ![key].pc = "revive",
               ![key].made = [of |-> file, variant |-> variantOf(file)]]
          /\ made' = [made EXCEPT ![key] = @ + 1]
          /\ UNCHANGED caller
  /\ UNCHANGED <<recipient, restarts, present, rows, objects, garbage, faults>>

\* Revived before the write: an entry of the key waits its hour afresh, which
\* is longer than the build can take.
Revive(key) ==
  /\ At(key, "revive")
  /\ Step(key, "put")
  /\ UNCHANGED <<recipient, restarts, present, rows, objects, garbage, made, faults>>

Put(key) ==
  /\ At(key, "put")
  /\ objects' = With(objects, key, flights[key].made)
  /\ Step(key, "keep")
  /\ UNCHANGED <<recipient, restarts, present, rows, garbage, made, faults>>

\* The row replaces what the key named before; a source removed meanwhile
\* keeps no row, and the bytes are left to the sweep as well as it goes.
KeepExport(key) ==
  LET flight == flights[key] IN
  /\ At(key, "keep")
  /\ IF Source(flight.file) \in present
     THEN /\ rows' = With(rows, key, [of |-> flight.file, variant |-> flight.variant,
                                      size |-> Size(flight.made)])
          /\ Land(key, "file", flight.made)
          /\ UNCHANGED garbage
     ELSE /\ garbage' \in {garbage, garbage \cup {key}}
          /\ Land(key, "missing", NoContent)
          /\ UNCHANGED rows
  /\ UNCHANGED <<recipient, restarts, present, objects, made, faults>>

\* The database, the store or the key is out of reach, or the build's thirty
\* seconds are over.  After the write the key is discarded as well as it goes.
Fails(key) ==
  /\ key \in DOMAIN flights
  /\ garbage' \in {garbage} \cup (IF At(key, "keep") THEN {garbage \cup {key}} ELSE {})
  /\ Land(key, "unavailable", NoContent)
  /\ faults' = faults \cup {key}
  /\ made' = [made EXCEPT ![key] = 0]
  /\ UNCHANGED <<recipient, restarts, present, rows, objects>>

Build(key) ==
  BuildKept(key) \/ Export(key) \/ Revive(key) \/ Put(key) \/ KeepExport(key)

-----------------------------------------------------------------------------
(* What goes on around it.                                                 *)

\* A version is trimmed, a result removed: their rows go by cascade, recorded
\* as garbage first.
Remove(source) ==
  LET keys == {k \in DOMAIN rows : Source(rows[k].of) = source} IN
  /\ source \in present
  /\ present' = present \ {source}
  /\ garbage' = garbage \cup keys
  /\ rows' = Restrict(rows, DOMAIN rows \ keys)
  /\ UNCHANGED <<recipient, restarts, objects, flights, caller, made, faults>>

\* The sweep removes an object no row names, an hour after its entry was made
\* or revived.
Sweep(key) ==
  /\ key \in garbage
  /\ ~At(key, "put") /\ ~At(key, "keep")
  /\ garbage' = garbage \ {key}
  /\ objects' = IF key \in DOMAIN rows THEN objects ELSE Without(objects, key)
  /\ UNCHANGED <<recipient, restarts, present, rows, flights, caller, made, faults>>

\* The process stops wherever it is and starts again, with a school key
\* configured or taken away.
Restart ==
  /\ restarts < MaxRestarts
  /\ restarts' = restarts + 1
  /\ recipient' \in Recipients
  /\ flights' = << >>
  /\ caller' = [c \in Callers |-> Idle]
  /\ made' = [k \in Keys |-> 0]
  /\ faults' = {}
  /\ UNCHANGED <<present, rows, objects, garbage>>

Turn(c) == File(c) \/ Join(c) \/ Leave(c)

Next ==
  \/ \E c \in Callers : Turn(c)
  \/ \E key \in Keys : Build(key) \/ Fails(key) \/ Sweep(key)
  \/ \E source \in Sources : Remove(source)
  \/ Restart

Spec == Init /\ [][Next]_vars

-----------------------------------------------------------------------------
(* Properties.                                                             *)

\* A caller gets the file it asked for, made from that version or result, in
\* that format and for the school's key of now: never a plain file once a key
\* is configured, whatever was kept before, whichever build answered.
OwnFile ==
  \A c \in Callers :
    caller[c].answer = "file" =>
      caller[c].got = [of |-> caller[c].file, variant |-> variantOf(caller[c].file)]

\* Whoever stays is not failed by another caller that leaves: a caller is told
\* to try again only where a step of a build of its file failed.
LeaversHarmNobody ==
  \A c \in Callers : caller[c].answer = "unavailable" => Key(caller[c].file) \in faults

\* A file is made once, however many ask for it at once or one after another,
\* until a build of it fails or its source is removed.
MadeOnce == \A file \in Files : Source(file) \in present => made[Key(file)] <= 1

\* Callers share one build and nothing else: it is not repeated for the next
\* one and does not fail for one that left (Service.File, Service.build).
BuildShared == LeaversHarmNobody /\ MadeOnce
=============================================================================
