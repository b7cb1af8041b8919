------------------------------- MODULE Checks -------------------------------
(***************************************************************************)
(* The check service: requests for the check of a plan's version or of a   *)
(* result share the one check that runs in their scope (the versions of a  *)
(* plan, or one result), and recent reports are cached by the object and   *)
(* the rules they were made with.  A check of a plan's version replaces    *)
(* one of an older version; a check of a result waits its turn.            *)
(***************************************************************************)
EXTENDS Naturals, Sequences, FiniteSets, SequencesExt

CONSTANTS
    Subjects,       \* what a request may ask about, with the rules it names
    ScopeOf,        \* the plan's versions or the one result
    VersionOf,
    KeyOf,          \* the stored object and the rules that replace its own
    Results,        \* the subjects that are results
    Callers,
    Flights,
    None,
    CacheSize

\* A scope is the versions of one plan or one result; the cache has room.
ASSUME ChecksAssumption ==
    /\ None \notin Subjects \cup Flights
    /\ VersionOf \in [Subjects -> Nat]
    /\ CacheSize \in Nat \ {0}
    /\ \A s, o \in Subjects : ScopeOf[s] = ScopeOf[o] => (s \in Results <=> o \in Results)

VARIABLES
    cache,      \* keys with a report, the most recently used first
    flights,    \* the check known to run in each scope
    flight,
    caller

vars == <<cache, flights, flight, caller>>

Scopes == {ScopeOf[s] : s \in Subjects}
Landed == [pc |-> "free", of |-> None, by |-> None, outcome |-> "none"]
Idle == [pc |-> "idle", of |-> None, on |-> None, got |-> "none", key |-> None, by |-> None]

Init ==
    /\ cache = <<>>
    /\ flights = [s \in Scopes |-> None]
    /\ flight = [f \in Flights |-> Landed]
    /\ caller = [c \in Callers |-> Idle]

Cached(key) == key \in Range(cache)
Refresh(key) == <<key>> \o RemoveAt(cache, CHOOSE i \in DOMAIN cache : cache[i] = key)

Told(c, got, key, by) ==
    caller' = [caller EXCEPT ![c] = [@ EXCEPT !.pc = "answered", !.on = None,
                                              !.got = got, !.key = key, !.by = by]]

-----------------------------------------------------------------------------
(* A request: the handler finds the version or the result, Check looks in  *)
(* the cache and then joins under the service's lock.                      *)

\* The checks that may still be started: the bound of the requests at once.
Grounded == {f \in Flights : flight[f].pc = "free"}

Ask(c, s) ==
    /\ caller[c].pc \in {"idle", "answered"}
    /\ Cardinality(Grounded) > Cardinality({o \in Callers : caller[o].pc \in {"join", "behind"}})
    /\ IF Cached(KeyOf[s])
       THEN /\ cache' = Refresh(KeyOf[s])
            /\ caller' = [caller EXCEPT ![c] = [Idle EXCEPT !.pc = "answered", !.of = s,
                                                   !.got = "report", !.key = KeyOf[s]]]
       ELSE /\ caller' = [caller EXCEPT ![c] = [Idle EXCEPT !.pc = "join", !.of = s]]
            /\ UNCHANGED cache
    /\ UNCHANGED <<flights, flight>>

CheckVersion(c, s) == s \notin Results /\ Ask(c, s)
CheckResult(c, s) == s \in Results /\ Ask(c, s)

Running(c) == flights[ScopeOf[caller[c].of]]
Same(c) == Running(c) # None /\ KeyOf[flight[Running(c)].of] = KeyOf[caller[c].of]

\* The loop of join: a result's request waits for the other check to end.
JoinBehind(c) ==
    /\ caller[c].pc = "join"
    /\ Running(c) # None /\ ~Same(c) /\ caller[c].of \in Results
    /\ caller' = [caller EXCEPT ![c].pc = "behind", ![c].on = Running(c)]
    /\ UNCHANGED <<cache, flights, flight>>

JoinAgain(c) ==
    /\ caller[c].pc = "behind"
    /\ flight[caller[c].on].pc = "done"
    /\ caller' = [caller EXCEPT ![c].pc = "join", ![c].on = None]
    /\ UNCHANGED <<cache, flights, flight>>

JoinRunning(c) ==
    /\ caller[c].pc = "join"
    /\ Same(c)
    /\ caller' = [caller EXCEPT ![c].pc = "wait", ![c].on = Running(c)]
    /\ UNCHANGED <<cache, flights, flight>>

Newer(c) == VersionOf[flight[Running(c)].of] > VersionOf[caller[c].of]

JoinSuperseded(c) ==
    /\ caller[c].pc = "join"
    /\ Running(c) # None /\ ~Same(c) /\ caller[c].of \notin Results
    /\ Newer(c)
    /\ Told(c, "superseded", None, flight[Running(c)].of)
    /\ UNCHANGED <<cache, flights, flight>>

\* The check that runs, if one does, is cancelled; the first cause stays, and
\* it changes nothing for a check that has its outcome.
Cancelled(c) ==
    IF Running(c) # None /\ flight[Running(c)].by = None
    THEN [flight EXCEPT ![Running(c)].by = caller[c].of]
    ELSE flight

JoinStarts(c) ==
    /\ caller[c].pc = "join"
    /\ Running(c) # None => ~Same(c) /\ caller[c].of \notin Results /\ ~Newer(c)

\* A check that ended since the first look left its report.
JoinCached(c) ==
    /\ JoinStarts(c)
    /\ Cached(KeyOf[caller[c].of])
    /\ cache' = Refresh(KeyOf[caller[c].of])
    /\ flight' = Cancelled(c)
    /\ Told(c, "report", KeyOf[caller[c].of], None)
    /\ UNCHANGED flights

\* The new check is detached from its caller.
JoinStart(c) ==
    /\ JoinStarts(c)
    /\ ~Cached(KeyOf[caller[c].of])
    /\ Grounded # {}
    /\ LET f == CHOOSE f \in Grounded : TRUE IN
          /\ flight' = [Cancelled(c) EXCEPT ![f] = [Landed EXCEPT !.pc = "running",
                                                                 !.of = caller[c].of]]
          /\ flights' = [flights EXCEPT ![ScopeOf[caller[c].of]] = f]
          /\ caller' = [caller EXCEPT ![c].pc = "wait", ![c].on = f]
    /\ UNCHANGED cache

Wake(c) ==
    /\ caller[c].pc = "wait"
    /\ LET f == flight[caller[c].on] IN
          /\ f.pc = "done"
          /\ Told(c, f.outcome, IF f.outcome = "report" THEN KeyOf[f.of] ELSE None, f.by)
    /\ UNCHANGED <<cache, flights, flight>>

\* The caller goes away; the check it started does not.
Leave(c) ==
    /\ caller[c].pc \in {"behind", "wait"}
    /\ caller' = [caller EXCEPT ![c] = Idle]
    /\ UNCHANGED <<cache, flights, flight>>

-----------------------------------------------------------------------------
(* The goroutine of a check. *)

\* check: the document is read and the node asked.  An error, the deadline
\* among them, is named after the cause when the context was cancelled; the
\* answer of the node may still beat that.
Ends(f) ==
    /\ flight[f].pc = "running"
    /\ \E outcome \in {"report", IF flight[f].by = None THEN "failed" ELSE "superseded"} :
          flight' = [flight EXCEPT ![f].pc = "ended", ![f].outcome = outcome]
    /\ UNCHANGED <<cache, flights, caller>>

Stored(key) == IF Cached(key) THEN Refresh(key)
               ELSE <<key>> \o SubSeq(cache, 1, Min({CacheSize - 1, Len(cache)}))

Put(f) ==
    /\ flight[f].pc = "ended"
    /\ cache' = IF flight[f].outcome = "report" THEN Stored(KeyOf[flight[f].of]) ELSE cache
    /\ flight' = [flight EXCEPT ![f].pc = "cached"]
    /\ UNCHANGED <<flights, caller>>

\* Mutant of Land: the check may be dropped before its report is cached.
LandFirst(f) ==
    /\ flight[f].pc \in {"ended", "cached"}
    /\ flight' = [flight EXCEPT ![f].pc = IF @ = "ended" THEN "ended" ELSE "done"]
    /\ flights' = [s \in Scopes |-> IF flights[s] = f THEN None ELSE flights[s]]
    /\ UNCHANGED <<cache, caller>>
\* Mutant of Land: a failed check never closes the channel its callers wait on.
LandReports(f) ==
    /\ flight[f].pc = "cached"
    /\ flight[f].outcome = "report" \/ \A c \in Callers : caller[c].on # f
    /\ flight' = [flight EXCEPT ![f].pc = "done"]
    /\ flights' = [s \in Scopes |-> IF flights[s] = f THEN None ELSE flights[s]]
    /\ UNCHANGED <<cache, caller>>
\* The check is dropped under the lock, then its channel is closed; only a
\* log line is written in between.
Land(f) ==
    /\ flight[f].pc = "cached"
    /\ flight' = [flight EXCEPT ![f].pc = "done"]
    /\ flights' = [s \in Scopes |-> IF flights[s] = f THEN None ELSE flights[s]]
    /\ UNCHANGED <<cache, caller>>

\* Nobody holds the ended check any more.
Collect(f) ==
    /\ flight[f].pc = "done"
    /\ \A c \in Callers : caller[c].on # f
    /\ flight' = [flight EXCEPT ![f] = Landed]
    /\ UNCHANGED <<cache, flights, caller>>

-----------------------------------------------------------------------------
Turn(c) == JoinAgain(c) \/ JoinBehind(c) \/ JoinRunning(c) \/ JoinSuperseded(c) \/ JoinCached(c)
           \/ JoinStart(c) \/ Wake(c)
Work(f) == Ends(f) \/ Put(f) \/ Land(f)

Next ==
    \/ \E c \in Callers :
          \/ \E s \in Subjects : CheckVersion(c, s) \/ CheckResult(c, s)
          \/ Turn(c) \/ Leave(c)
    \/ \E f \in Flights : Work(f) \/ Collect(f)

Spec == Init /\ [][Next]_vars

-----------------------------------------------------------------------------
\* A report answers the object and the rules that were asked about, and the
\* cache holds no more than its size (Service.Check, cache.put).
OwnReport ==
    /\ \A c \in Callers : caller[c].got = "report" => caller[c].key = KeyOf[caller[c].of]
    /\ Len(cache) <= CacheSize

\* In a scope at most one check goes on that nothing cancelled, whatever
\* callers and flights come and go (Service.join, Service.run).
OneFlight ==
    \A f, g \in Flights :
        (/\ f # g
         /\ flight[f].pc = "running" /\ flight[f].by = None
         /\ flight[g].pc = "running" /\ flight[g].by = None)
        => ScopeOf[flight[f].of] # ScopeOf[flight[g].of]

\* Who is told the check was superseded asked about a version, and what
\* replaced it is another check of the same plan, no older than the check it
\* replaced (Service.join, ErrSuperseded).
SupersededHonest ==
    /\ \A c \in Callers : caller[c].got = "superseded" =>
          /\ caller[c].of \notin Results
          /\ caller[c].by # None
          /\ ScopeOf[caller[c].by] = ScopeOf[caller[c].of]
          /\ KeyOf[caller[c].by] # KeyOf[caller[c].of]
    /\ \A f \in Flights : flight[f].by # None =>
          VersionOf[flight[f].by] >= VersionOf[flight[f].of]

\* Cached before it is dropped: while the report of a check that nobody
\* cancelled is on its way to the cache, the node is not asked for it again
\* (Service.run, Service.join).
NoRepeat ==
    \A f, g \in Flights :
        flight[f].pc = "ended" /\ flight[f].outcome = "report" /\ flight[f].by = None
        => ~(flight[g].pc = "running" /\ flight[g].by = None /\ flight[g].of = flight[f].of)

\* The callers of one scope, whatever they ask about and whenever they leave,
\* share one check at a time and get the report of what they asked, or the
\* true reason why not (Service.Check, Service.join, Service.run).
ScopeShared == OwnReport /\ OneFlight /\ SupersededHonest /\ NoRepeat

\* Who waits for a check hears of it, however the check ends (Service.run,
\* Service.Check).
Answered == \A c \in Callers : caller[c].pc = "wait" ~> caller[c].pc # "wait"
=============================================================================
