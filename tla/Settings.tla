------------------------------ MODULE Settings ------------------------------
(***************************************************************************)
(* What an administrator changes while the server runs: the settings file  *)
(* (common/config/settings.go) and the two routes that write it, the       *)
(* lockout (api/v1/security.go) and the server settings                    *)
(* (api/v1/serversettings.go).  A change reads the settings, merges what   *)
(* was sent, writes the file, puts the new values in force and records     *)
(* them in the audit log; the process may stop after any of these.         *)
(***************************************************************************)
EXTENDS Naturals, Sequences, FiniteSets, Functions

CONSTANTS
  Admins,      \* the requests on their way at once
  Fields,      \* the settings
  SectionOf,   \* "lockout" or "server": the route that changes a setting
  AtRestart,   \* the settings the router is built with
  Values,      \* what may be sent
  Invalid,     \* those of them out of range
  Defaults,    \* the schema's defaults, which the first start writes
  MaxWrites,   \* bounds the writes
  MaxCrashes   \* bounds the restarts

VARIABLES
  file,     \* the settings file
  current,  \* the store's copy
  inForce,  \* the guard's limits, the plan index's caps, the router's numbers
  lock,     \* who holds the mutex of each route
  admin,    \* each request
  trail,    \* the audit log: what each entry says was changed
  sent,     \* the value of each setting last written by a change that sent it
  untold,   \* the settings changed since without an entry
  bounds    \* the writes and the restarts so far

vars == <<file, current, inForce, lock, admin, trail, sent, untold, bounds>>

Sections == {"lockout", "server"}
Free == "nobody"
Idle == [pc |-> "idle", section |-> "", change |-> << >>, before |-> << >>, saved |-> << >>]

FieldsOf(section) == {f \in Fields : SectionOf[f] = section}
Section(settings, section) == Restrict(settings, FieldsOf(section))

\* OpenSettings, and serve.go's use of what it read: everything starts as the
\* file says.
Init ==
  /\ file = Defaults
  /\ current = Defaults
  /\ inForce = Defaults
  /\ lock = [s \in Sections |-> Free]
  /\ admin = [a \in Admins |-> Idle]
  /\ trail = << >>
  /\ sent = Defaults
  /\ untold = {}
  /\ bounds = [writes |-> 0, crashes |-> 0]

Merged(settings, change) ==
  [f \in DOMAIN settings |-> IF f \in DOMAIN change THEN change[f] ELSE settings[f]]

-----------------------------------------------------------------------------
(* A change.                                                               *)

\* Mutant of CanBegin: without the mutex two changes read the same settings.
CanBeginAlways(section) == TRUE

CanBegin(section) == lock[section] = Free

\* Under the route's mutex the settings are read and the sent ones put in
\* their place.  A change that sends nothing is refused before.
Begin(a) ==
  /\ admin[a].pc = "idle"
  /\ \E section \in Sections :
       /\ CanBegin(section)
       /\ \E named \in SUBSET FieldsOf(section) \ {{}} :
            \E change \in [named -> Values] :
              /\ lock' = [lock EXCEPT ![section] = a]
              /\ admin' = [admin EXCEPT ![a] =
                   [Idle EXCEPT !.pc = "write", !.section = section, !.change = change,
                      !.before = Section(current, section)]]
  /\ UNCHANGED <<file, current, inForce, trail, sent, untold, bounds>>

Valid(change) == \A f \in DOMAIN change : change[f] \notin Invalid

\* SetLockout and SetServer: under the store's own mutex the section is
\* patched into the file, the schema looks at the whole of it, and the copy
\* is read again.
Write(a) ==
  LET r == admin[a] IN
  /\ r.pc = "write"
  /\ Valid(r.change)
  /\ bounds.writes < MaxWrites
  /\ LET merged == Merged(r.before, r.change) IN
     /\ file' = Merged(file, merged)
     /\ current' = Merged(current, merged)
     /\ admin' = [admin EXCEPT ![a].pc = "apply", ![a].saved = merged]
  /\ sent' = Merged(sent, r.change)
  /\ bounds' = [bounds EXCEPT !.writes = @ + 1]
  /\ UNCHANGED <<inForce, lock, trail, untold>>

\* A value is out of range, or the file cannot be written: neither the file
\* nor the copy changes.
Refused(a) ==
  /\ admin[a].pc = "write"
  /\ lock' = [lock EXCEPT ![admin[a].section] = Free]
  /\ admin' = [admin EXCEPT ![a] = Idle]
  /\ UNCHANGED <<file, current, inForce, trail, sent, untold, bounds>>

\* guard.SetLimits or index.SetCaps, from what was saved; what the router was
\* built with waits for the next start.
Apply(a) ==
  /\ admin[a].pc = "apply"
  /\ inForce' = Merged(inForce, Restrict(admin[a].saved, DOMAIN admin[a].saved \ AtRestart))
  /\ admin' = [admin EXCEPT ![a].pc = "audit"]
  /\ UNCHANGED <<file, current, lock, trail, sent, untold, bounds>>

changedSettings(before, after) ==
  Restrict(after, {f \in DOMAIN after : before[f] # after[f]})

\* The entry names the settings that differ and their new values; without
\* any there is no entry.  A log that cannot be written changes no answer.
Audit(a) ==
  LET r == admin[a]
      changed == changedSettings(r.before, r.saved)
  IN
  /\ r.pc = "audit"
  /\ \/ /\ trail' = IF DOMAIN changed = {} THEN trail ELSE Append(trail, changed)
        /\ untold' = untold \ DOMAIN changed
     \/ /\ DOMAIN changed # {}
        /\ untold' = untold \cup DOMAIN changed
        /\ UNCHANGED trail
  /\ lock' = [lock EXCEPT ![r.section] = Free]
  /\ admin' = [admin EXCEPT ![a] = Idle]
  /\ UNCHANGED <<file, current, inForce, sent, bounds>>

\* The process stops and starts again.
Crash ==
  /\ bounds.crashes < MaxCrashes
  /\ bounds' = [bounds EXCEPT !.crashes = @ + 1]
  /\ current' = file
  /\ inForce' = file
  /\ lock' = [s \in Sections |-> Free]
  /\ admin' = [a \in Admins |-> Idle]
  /\ untold' = untold \cup UNION {DOMAIN changedSettings(admin[a].before, admin[a].saved) :
                                    a \in {b \in Admins : admin[b].pc \in {"apply", "audit"}}}
  /\ UNCHANGED <<file, trail, sent>>

Next ==
  \/ \E a \in Admins : Begin(a) \/ Write(a) \/ Refused(a) \/ Apply(a) \/ Audit(a)
  \/ Crash

Spec == Init /\ [][Next]_vars

-----------------------------------------------------------------------------
(* Properties.                                                             *)

\* Two administrators changing different settings both keep theirs: every
\* setting is what the last change that sent it said, on the file and in the
\* store's copy, however the changes of both routes overlap.
ChangesKept == file = sent /\ current = file

\* Once no change of a route is on its way, what it decides at once is in
\* force as stored: an older change never ends up on top of a newer one.
StoredInForce ==
  \A f \in Fields \ AtRestart :
    (\A a \in Admins : admin[a].pc = "apply" => f \notin DOMAIN admin[a].saved) =>
      inForce[f] = file[f]

\* Read to its end, the audit log tells the stored value of every setting
\* that was ever changed, unless the entry of its last change was lost.
TrailTellsLast ==
  \A f \in Fields \ untold :
    (\A a \in Admins : admin[a].pc \in {"apply", "audit"} => f \notin DOMAIN admin[a].saved) =>
      LET entries == {i \in DOMAIN trail : f \in DOMAIN trail[i]}
          newest == CHOOSE i \in entries : \A j \in entries : j <= i
      IN  file[f] = IF entries = {} THEN Defaults[f] ELSE trail[newest][f]

\* The last change of a setting is the one that is stored, in force and told,
\* whichever routes, failures and restarts it met (UpdateServerSettings,
\* UpdateLockout, config.Settings).
SettingsStand == ChangesKept /\ StoredInForce /\ TrailTellsLast
=============================================================================
