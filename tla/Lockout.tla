------------------------------ MODULE Lockout -------------------------------
(***************************************************************************)
(* Failed sign-ins: the guard of core/lockout, which counts them per name  *)
(* and per address, and the proxy of api/v1/proxy.go and signin.go, which  *)
(* asks it before it forwards a sign-in to the identity server and tells   *)
(* it afterwards how the sign-in ended.  Several sign-ins are on their way *)
(* at once; the clock ticks between any two steps.                         *)
(***************************************************************************)
EXTENDS Integers, Sequences, FiniteSets, FiniteSetsExt, SequencesExt, Functions

CONSTANTS
  Proxies,       \* the sign-ins that can be on their way at once
  Names,         \* the names people type, "" among them
  NormalOf,      \* a name as the identity server compares it
  Addresses,     \* the addresses they come from
  LimitChoices,  \* what an administrator may set: [account, address, block], each at least 1
  MaxTracked,    \* the bound of each table
  MaxTime,       \* the last tick of the clock
  MaxFailures    \* bounds the failures the identity server answers

VARIABLES
  now,        \* the clock
  limits,     \* the limits in force
  accounts,   \* the tracked names: failures, since, until
  addresses,  \* the tracked addresses
  proxy,      \* each sign-in on its way
  history     \* the refused sign-ins since a name was cleared: their times

vars == <<now, limits, accounts, addresses, proxy, history>>

Never == 0
Ready == [pc |-> "idle", account |-> "", address |-> ""]
Normals == Range(NormalOf) \ {""}

Init ==
  /\ now = 1
  /\ limits \in LimitChoices
  /\ accounts = << >>
  /\ addresses = << >>
  /\ proxy = [p \in Proxies |-> Ready]
  /\ history = [n \in Normals |-> << >>]

-----------------------------------------------------------------------------
(* The guard: every one of these is one hold of its mutex.                 *)

Running(entry) == entry.until > now

remaining(table, key) ==
  IF key \in DOMAIN table /\ Running(table[key]) THEN table[key].until - now ELSE 0

Blocked(account, address) ==
  Max({remaining(accounts, NormalOf[account]), remaining(addresses, address)})

\* A counting entry has run out when it is no longer blocked and its first
\* failure is a block's length ago.
Stale(entry) ==
  ~Running(entry) /\ (entry.failures = 0 \/ now - entry.since >= limits.block)

\* When an entry started: a blocked one counts as late as its end, not as
\* early as the zero time its start was reset to.
\*
\* Mutant of Started: it does not.
StartedSince(entry) == entry.since
Started(entry) == IF entry.since = Never THEN entry.until ELSE entry.since

\* At the bound everything stale is dropped, and the entry that started
\* first when nothing was; the map's order decides between equals.
Roomy(table) ==
  IF Cardinality(DOMAIN table) < MaxTracked THEN {table}
  ELSE LET kept == {k \in DOMAIN table : ~Stale(table[k])}
           oldest == {k \in kept : \A o \in kept : Started(table[k]) <= Started(table[o])}
       IN  IF Cardinality(kept) < MaxTracked THEN {Restrict(table, kept)}
           ELSE {Restrict(table, kept \ {k}) : k \in oldest}

\* Mutant of Count: the window is begun again by every later failure.
CountSliding(entry, limit) ==
  LET fresh == entry.failures = 0 \/ now > entry.since
      failures == (IF fresh THEN 0 ELSE entry.failures) + 1
  IN  IF Running(entry) THEN entry
      ELSE IF failures < limit
           THEN [failures |-> failures, since |-> now, until |-> entry.until]
           ELSE [failures |-> 0, since |-> Never, until |-> now + limits.block]

\* One more failure of an entry, and the block it may start.  A failure
\* during a block changes nothing.
Count(entry, limit) ==
  LET fresh == entry.failures = 0 \/ now - entry.since >= limits.block
      failures == (IF fresh THEN 0 ELSE entry.failures) + 1
  IN  IF Running(entry) THEN entry
      ELSE IF failures < limit
           THEN [failures |-> failures, until |-> entry.until,
                 since |-> IF fresh THEN now ELSE entry.since]
           ELSE [failures |-> 0, since |-> Never, until |-> now + limits.block]

\* The tables fail can leave behind.
fail(table, key, limit) ==
  IF key = "" THEN {table}
  ELSE IF key \in DOMAIN table
  THEN {[table EXCEPT ![key] = Count(@, limit)]}
  ELSE {[k \in DOMAIN roomy \cup {key} |->
           IF k = key THEN Count([failures |-> 0, since |-> Never, until |-> Never], limit)
           ELSE roomy[k]] : roomy \in Roomy(table)}

\* A name that is no longer tracked starts afresh.
Forgotten(old, new) ==
  [n \in Normals |-> IF n \in DOMAIN accounts /\ n \notin DOMAIN new
                     THEN << >> ELSE old[n]]

-----------------------------------------------------------------------------
(* The proxy.                                                              *)

\* A sign-in reaches the proxy.  A body that is too long or cannot be read
\* is answered at once and counts nothing; so is a blocked name or address.
Submit(p) ==
  /\ proxy[p].pc = "idle"
  /\ \E account \in Names, address \in Addresses :
       /\ Blocked(account, address) = 0
       /\ proxy' = [proxy EXCEPT ![p] =
            [pc |-> "forwarded", account |-> account, address |-> address]]
  /\ UNCHANGED <<now, limits, accounts, addresses, history>>

\* The identity server took the credentials.
Succeeded(p) ==
  /\ proxy[p].pc = "forwarded"
  /\ LET name == NormalOf[proxy[p].account] IN
     /\ accounts' = Restrict(accounts, DOMAIN accounts \ {name})
     /\ history' = [n \in Normals |-> IF n = name THEN << >> ELSE history[n]]
  /\ proxy' = [proxy EXCEPT ![p] = Ready]
  /\ UNCHANGED <<now, limits, addresses>>

\* It refused them.
Failed(p) ==
  /\ proxy[p].pc = "forwarded"
  /\ FoldSet(LAMBDA n, sum : sum + Len(history[n]), 0, Normals) < MaxFailures
  /\ LET name == NormalOf[proxy[p].account] IN
     /\ accounts' \in fail(accounts, name, limits.account)
     /\ addresses' \in fail(addresses, proxy[p].address, limits.address)
     /\ history' = Forgotten(
          [n \in Normals |-> IF n = name THEN Append(history[n], now) ELSE history[n]],
          accounts')
  /\ proxy' = [proxy EXCEPT ![p] = Ready]
  /\ UNCHANGED <<now, limits>>

\* It failed, or the flow had expired: nobody's wrong password.
Neither(p) ==
  /\ proxy[p].pc = "forwarded"
  /\ proxy' = [proxy EXCEPT ![p] = Ready]
  /\ UNCHANGED <<now, limits, accounts, addresses, history>>

\* An administrator changes the limits; a running block keeps its end.
SetLimits ==
  /\ limits' \in LimitChoices \ {limits}
  /\ UNCHANGED <<now, accounts, addresses, proxy, history>>

Tick ==
  /\ now < MaxTime
  /\ now' = now + 1
  /\ UNCHANGED <<limits, accounts, addresses, proxy, history>>

Next ==
  \/ \E p \in Proxies : Submit(p) \/ Succeeded(p) \/ Failed(p) \/ Neither(p)
  \/ SetLimits
  \/ Tick

Spec == Init /\ [][Next]_vars

-----------------------------------------------------------------------------
(* Properties.                                                             *)

\* Neither table grows past its bound, however many names are made up.
TablesBounded ==
  Cardinality(DOMAIN accounts) <= MaxTracked /\ Cardinality(DOMAIN addresses) <= MaxTracked

\* A flood of made-up names does not lift a block: while it runs, a name
\* loses it to a sign-in that succeeded, or to the bound when every other
\* tracked name is blocked at least as long.
BlockKept ==
  [][\A n \in DOMAIN accounts :
       Running(accounts[n]) /\ n \notin DOMAIN accounts' =>
         \/ \E p \in Proxies : Succeeded(p) /\ NormalOf[proxy[p].account] = n
         \/ \A o \in DOMAIN accounts :
              Running(accounts[o]) /\ accounts[o].until >= accounts[n].until]_vars

\* The loosest limit of a name and the shortest block that may be in force.
Loosest == Max({l.account : l \in LimitChoices})
Window == Min({l.block : l \in LimitChoices})

\* How many guesses at one name may lie less than the shortest block apart.  A
\* run of failures the limit did not reach goes stale with its first, or a block
\* ends with those that were on their way when it began; then a run reaches the
\* limit, and each other sign-in may have passed the check before that block.
MostGuesses ==
  LET others == Cardinality(Proxies) - 1
  IN  Max({Loosest - 2, others}) + Loosest + others

\* More guesses at one name take the shortest block at least, whatever failures,
\* floods of other names, changes of the limits and late answers come between
\* (lockout.fail, kratosHandler).
GuessesBounded ==
  \A n \in Normals : \A i, j \in DOMAIN history[n] :
    j - i >= MostGuesses => history[n][j] - history[n][i] >= Window

\* A flood costs the tables no more than their bound and buys no more guesses
\* than that (lockout.fail, lockout.makeRoom, kratosHandler).
FloodHeld == TablesBounded /\ GuessesBounded
=============================================================================
