------------------------------ MODULE Library -------------------------------
(***************************************************************************)
(* One account's Library (core/library, api/v1/library.go): a versioned    *)
(* arrangement of project ids, read and saved by several devices at once   *)
(* while projects go to Trash, come back and are removed for good.  A save *)
(* carries the version it was made from; the check of that version and the *)
(* write are one statement, the answer is read afterwards.  An arrangement *)
(* is abstracted to the place of each project, where it has one.           *)
(***************************************************************************)
EXTENDS Naturals, FiniteSets, Functions

CONSTANTS
  Devices,     \* the account's devices
  Projects,    \* project ids
  Removable,   \* those whose plan moves to Trash and out of it
  Places,      \* the folders and the top level
  MaxVersion   \* bounds the saves

VARIABLES
  row,      \* the account_libraries row: version 0 before the first save
  project,  \* each plan: "live", "trash" or "gone"
  device,   \* each device's request on its way, or its last answer
  placed    \* where the last save that moved a project put it

vars == <<row, project, device, placed>>

Nowhere == << >>
Unsaved == [version |-> 0, places |-> Nowhere]
Fresh == [pc |-> "idle", answer |-> "none", got |-> Unsaved, next |-> Unsaved,
          moved |-> {}, gone |-> {}]

Init ==
  /\ row = Unsaved
  /\ project = [p \in Projects |-> "live"]
  /\ device = [d \in Devices |-> Fresh]
  /\ placed = Nowhere

Gone == {p \in Projects : project[p] = "gone"}

-----------------------------------------------------------------------------
(* The repository.                                                         *)

\* plans.Lookup: the plans that still have a row, in Trash or not.
Lookup(ids) == {p \in ids : project[p] # "gone"}

\* The arrangement without the projects removed for good.
visible(arrangement) ==
  [arrangement EXCEPT !.places = Restrict(@, Lookup(DOMAIN @))]

\* Get reads the row, then the plans it names.
Get(d) ==
  /\ device[d].pc = "idle"
  /\ device' = [device EXCEPT ![d] =
       [Fresh EXCEPT !.pc = "visible", !.got = row, !.answer = "read", !.gone = Gone]]
  /\ UNCHANGED <<row, project, placed>>

\* The device saves what it was last shown, with one project moved, placed
\* for the first time or taken out.
Edited(d, p) ==
  LET places == device[d].got.places
      rest == Restrict(places, DOMAIN places \ {p})
  IN  {rest} \cup {[q \in DOMAIN rest \cup {p} |-> IF q = p THEN at ELSE rest[q]] : at \in Places}

Save(d) ==
  /\ device[d].pc = "idle"
  /\ device[d].answer \in {"read", "saved", "stale"}
  /\ \E p \in Projects : \E places \in Edited(d, p) :
       device' = [device EXCEPT ![d] =
         [Fresh EXCEPT !.pc = "write", !.moved = {p}, !.gone = Gone,
            !.next = [version |-> device[d].got.version, places |-> places]]]
  /\ UNCHANGED <<row, project, placed>>

\* Mutant of Matches: the update is without its condition on the version.
MatchesAny(version) == version = 0 => row.version = 0

\* The condition of the one statement: the insert takes only a missing row,
\* the update only the version sent.
Matches(version) == row.version = version

\* The write lands.
WriteLands(d) ==
  LET next == device[d].next
      was == device[d].moved
  IN
  /\ device[d].pc = "write"
  /\ row.version < MaxVersion
  /\ Matches(next.version)
  /\ row' = [version |-> row.version + 1, places |-> next.places]
  /\ placed' = [p \in (DOMAIN placed \ was) \cup (was \cap DOMAIN next.places) |->
                  IF p \in was THEN next.places[p] ELSE placed[p]]
  /\ device' = [device EXCEPT ![d].pc = "visible", ![d].answer = "saved",
                  ![d].got = [version |-> next.version + 1, places |-> next.places]]
  /\ UNCHANGED project

\* No row matches: what is stored is read afresh for the refusal.
WriteStale(d) ==
  /\ device[d].pc = "write"
  /\ ~Matches(device[d].next.version)
  /\ device' = [device EXCEPT ![d].pc = "current"]
  /\ UNCHANGED <<row, project, placed>>

Current(d) ==
  /\ device[d].pc = "current"
  /\ device' = [device EXCEPT ![d].pc = "visible", ![d].answer = "stale", ![d].got = row]
  /\ UNCHANGED <<row, project, placed>>

\* The last step of a read, a save and a refusal.
Visible(d) ==
  /\ device[d].pc = "visible"
  /\ device' = [device EXCEPT ![d].pc = "idle", ![d].got = visible(@),
                  ![d].next.places = Nowhere, ![d].moved = {}]
  /\ UNCHANGED <<row, project, placed>>

\* The database does not answer at any of the steps, the ones after the
\* write included: 503, or the answer is lost on its way.
Unavailable(d) ==
  /\ device[d].pc \in {"write", "current", "visible"}
  /\ device' = [device EXCEPT ![d] =
       [@ EXCEPT !.pc = "idle", !.answer = "unavailable", !.got = Unsaved]]
  /\ UNCHANGED <<row, project, placed>>

\* The device sends the save it had no answer to once more.
Retry(d) ==
  /\ device[d].pc = "idle"
  /\ device[d].answer = "unavailable"
  /\ device[d].moved # {}
  /\ device' = [device EXCEPT ![d].pc = "write", ![d].answer = "none", ![d].gone = Gone]
  /\ UNCHANGED <<row, project, placed>>

-----------------------------------------------------------------------------
(* The plans: Trash, restore and purge.                                    *)

Move(p, from, to) ==
  /\ project[p] = from
  /\ project' = [project EXCEPT ![p] = to]
  /\ UNCHANGED <<row, device, placed>>

Trash(p) == Move(p, "live", "trash")
Restore(p) == Move(p, "trash", "live")
Purge(p) == Move(p, "trash", "gone")

Next ==
  \/ \E d \in Devices :
       \/ Get(d) \/ Save(d) \/ WriteLands(d) \/ WriteStale(d) \/ Current(d)
       \/ Visible(d) \/ Unavailable(d) \/ Retry(d)
  \/ \E p \in Removable : Trash(p) \/ Restore(p) \/ Purge(p)

Spec == Init /\ [][Next]_vars

-----------------------------------------------------------------------------
(* Properties.                                                             *)

\* Saves of two devices from one version never undo each other, and neither
\* does a repeated save: every project that was not removed for good is where
\* the last save that moved it put it.  A project in Trash is among them, so a
\* restore finds its place, however often the rest was rearranged meanwhile.
MovesKept ==
  \A p \in Projects \ Gone :
    /\ p \in DOMAIN row.places <=> p \in DOMAIN placed
    /\ p \in DOMAIN placed => row.places[p] = placed[p]

\* A refused save is told an arrangement that is newer than the one it was
\* made from, so the device has something to merge with.
StaleHonest ==
  \A d \in Devices :
    device[d].pc = "idle" /\ device[d].answer = "stale" =>
      device[d].got.version > device[d].next.version /\ device[d].got.version <= row.version

\* No answer names a project that was removed for good before it was asked.
NoGhosts ==
  \A d \in Devices :
    device[d].pc = "idle" => DOMAIN device[d].got.places \cap device[d].gone = {}

\* Devices that rearrange one Library at once undo nothing of each other, and
\* the one that is refused gets what it needs to try again (Service.Save).
SavesStand == MovesKept /\ StaleHonest /\ NoGhosts
=============================================================================
