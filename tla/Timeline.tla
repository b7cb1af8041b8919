------------------------------ MODULE Timeline ------------------------------
(***************************************************************************)
(* The timeline of one plan: versions uploaded onto a parent, the backups  *)
(* cap, checkpoints and their Trash, and the solves that read a version.   *)
(*                                                                         *)
(* There is no lock on a plan.  An upload names the version it came from   *)
(* and is refused when that is no longer the newest; a client that lost    *)
(* the answer sends the same upload again under the same upload key.  Each *)
(* transaction is one step; what a request reads outside of one may be     *)
(* stale by the time it is used.                                           *)
(***************************************************************************)
EXTENDS Naturals, FiniteSets

CONSTANTS
    Uploads,        \* documents clients upload, each onto one parent
    KeyOf,          \* the upload key a client chose for an upload
    NoKey,          \* KeyOf an upload sent without one
    First,          \* the document a plan is created with
    None,           \* no version
    Requests,
    Solves,         \* jobs
    OwnCaps,        \* backups caps a plan may be given
    ServerCaps,     \* backups caps the server may be given
    MaxVersion      \* bound of the version numbers

ASSUME TimelineAssumption ==
    /\ First \notin Uploads /\ None \notin Uploads /\ First # None
    /\ OwnCaps \cup ServerCaps \subseteq Nat \ {0}
    /\ MaxVersion \in Nat \ {0}

Numbers == 1..MaxVersion

VARIABLES
    content,    \* plan_versions: the upload each version holds
    mark,       \* plain, checkpoint, or a checkpoint in Trash
    own,        \* the plan's own backups cap, 0 without one
    server,     \* the server's backups cap
    trashed,    \* the plan is in Trash
    parent,     \* the parent each upload names, 0 before its first send
    request,
    solve,      \* the version each pending or running job reads, 0 for none
    line,       \* history: every version ever stored
    spared      \* history: versions a trim left because a solve read them

vars == <<content, mark, own, server, trashed, parent, request, solve, line, spared>>

history == <<line, spared>>
plan == <<own, server, trashed>>

IdleRequest == [pc |-> "idle", up |-> First, own |-> 0, failed |-> "none"]

\* Create: a plan is born with version 1.
Init ==
    /\ content = [v \in Numbers |-> IF v = 1 THEN First ELSE None]
    /\ mark = [v \in Numbers |-> "plain"]
    /\ own = 0
    /\ server \in ServerCaps
    /\ trashed = FALSE
    /\ parent = [u \in Uploads |-> 0]
    /\ request = [q \in Requests |-> IdleRequest]
    /\ solve = [j \in Solves |-> 0]
    /\ line = content
    /\ spared = {}

Versions == {v \in Numbers : content[v] # None}
IsNewest(v) == v \in Versions /\ \A o \in Versions : o <= v
Solving == {solve[j] : j \in Solves}

KeepFor(planOwn) == IF planOwn > 0 THEN planOwn ELSE server

-----------------------------------------------------------------------------
(* The backups cap. *)

\* The plain versions below newest, in a timeline given by its versions and
\* marks.
Backups(present, marks, newest) ==
    {v \in present : v < newest /\ marks[v] = "plain"}

\* The cutoff is the backup with exactly keep newer ones.
\*
\* Mutant of BeyondCap: one too many is kept.
BeyondCapOffByOne(present, marks, newest, keep) ==
    LET backups == Backups(present, marks, newest)
    IN  {v \in backups : Cardinality({b \in backups : b > v}) > keep}
BeyondCap(present, marks, newest, keep) ==
    LET backups == Backups(present, marks, newest)
    IN  {v \in backups : Cardinality({b \in backups : b > v}) >= keep}

\* Trim removes what is beyond the cap and no open solve reads; docs
\* and marks are the timeline after the writes the same transaction made before.
\*
\* Mutant of Trim: a version an open solve reads goes too.
TrimWhileSolving(docs, marks, newest, keep) ==
    LET removed == BeyondCap({v \in Numbers : docs[v] # None}, marks, newest, keep)
    IN  /\ content' = [v \in Numbers |-> IF v \in removed THEN None ELSE docs[v]]
        /\ mark' = marks
        /\ spared' = spared \ removed
Trim(docs, marks, newest, keep) ==
    LET beyond == BeyondCap({v \in Numbers : docs[v] # None}, marks, newest, keep)
        removed == beyond \ Solving
    IN  /\ content' = [v \in Numbers |-> IF v \in removed THEN None ELSE docs[v]]
        /\ mark' = marks
        /\ spared' = (spared \cup (beyond \cap Solving)) \ removed

\* TrimBackups: an administrator applies the cap in force now.
TrimPlan ==
    /\ \E newest \in Versions :
          /\ IsNewest(newest)
          /\ BeyondCap(Versions, mark, newest, KeepFor(own)) \ Solving # {}
          /\ Trim(content, mark, newest, KeepFor(own))
    /\ UNCHANGED <<plan, parent, request, solve, line>>

\* Update and SetCaps change a cap and remove nothing.

Update(keep) ==
    /\ ~trashed /\ keep # own
    /\ own' = keep
    /\ UNCHANGED <<content, mark, server, trashed, parent, request, solve, history>>

SetCaps(keep) ==
    /\ keep # server
    /\ server' = keep
    /\ UNCHANGED <<content, mark, own, trashed, parent, request, solve, history>>

-----------------------------------------------------------------------------
(* Checkpoints. *)

NameCheckpoint(v) ==
    /\ v \in Versions /\ mark[v] # "checkpoint"
    /\ mark' = [mark EXCEPT ![v] = "checkpoint"]
    /\ UNCHANGED <<content, plan, parent, request, solve, history>>

DeleteCheckpoint(v) ==
    /\ v \in Versions /\ mark[v] = "checkpoint"
    /\ mark' = [mark EXCEPT ![v] = "trashed"]
    /\ UNCHANGED <<content, plan, parent, request, solve, history>>

RestoreCheckpoint(v) ==
    /\ v \in Versions /\ mark[v] = "trashed"
    /\ mark' = [mark EXCEPT ![v] = "checkpoint"]
    /\ UNCHANGED <<content, plan, parent, request, solve, history>>

\* Those whose time in Trash is up become plain backups and the cap is applied.
PurgeCheckpoints(ended) ==
    /\ ended # {} /\ \A v \in ended : v \in Versions /\ mark[v] = "trashed"
    /\ \E newest \in Versions :
          /\ IsNewest(newest)
          /\ Trim(content, [v \in Numbers |-> IF v \in ended THEN "plain" ELSE mark[v]],
                  newest, KeepFor(own))
    /\ UNCHANGED <<plan, parent, request, solve, line>>

-----------------------------------------------------------------------------
(* AddVersion. *)

\* A stored version answers to the upload's key.
StoredUnder(u) ==
    {v \in Versions : content[v] \in Uploads /\ KeyOf[content[v]] = KeyOf[u]
                      /\ KeyOf[u] # NoKey}

Reply(q) == request' = [request EXCEPT ![q] = IdleRequest]
Fail(q, why) ==
    request' = [request EXCEPT ![q] = [pc |-> "failed", up |-> request[q].up,
                                       own |-> request[q].own, failed |-> why]]

\* A client sends an upload, for the first time or again; AddVersion reads the
\* plan, and its own cap with it.
Get(q, u, p) ==
    /\ request[q].pc = "idle"
    /\ ~trashed
    /\ IF parent[u] = 0 THEN line[p] # None ELSE p = parent[u]
    /\ parent' = [parent EXCEPT ![u] = p]
    /\ request' = [request EXCEPT ![q] = [pc |-> "got", up |-> u, own |-> own,
                                          failed |-> "none"]]
    /\ UNCHANGED <<content, mark, plan, solve, history>>

\* A key the plan stored answers with that version, or refuses a reused key.
Replay(q) ==
    /\ request[q].pc = "got"
    /\ IF StoredUnder(request[q].up) # {} THEN Reply(q)
       ELSE request' = [request EXCEPT ![q].pc = "inserting"]
    /\ UNCHANGED <<content, mark, plan, parent, solve, history>>

\* The parent is there and nothing is newer.
ParentNewest(p) == content[p] # None /\ \A v \in Versions : v <= p

\* Mutant of InsertVersion: the version goes after the newest, not its parent.
InsertAfterNewest(q) ==
    /\ request[q].pc = "inserting"
    /\ \E newest \in Versions :
          /\ IsNewest(newest) /\ newest + 1 \in Numbers
          /\ StoredUnder(request[q].up) = {}
          /\ Trim([content EXCEPT ![newest + 1] = request[q].up], mark, newest + 1,
                  KeepFor(request[q].own))
          /\ line' = [line EXCEPT ![newest + 1] = request[q].up]
    /\ Reply(q)
    /\ UNCHANGED <<plan, parent, solve>>

InsertVersion(q) ==
    LET u == request[q].up
        v == parent[u] + 1
        docs == [content EXCEPT ![v] = u]
        marks == [mark EXCEPT ![v] = "plain"]
    IN  /\ request[q].pc = "inserting"
        /\ v \in Numbers
        /\ ParentNewest(parent[u]) /\ content[v] = None
        /\ StoredUnder(u) = {}
        /\ Trim(docs, marks, v, KeepFor(request[q].own))
        /\ line' = [line EXCEPT ![v] = u]
        /\ Reply(q)
        /\ UNCHANGED <<plan, parent, solve>>

InsertRefused(q) ==
    /\ request[q].pc = "inserting"
    /\ ~ParentNewest(parent[request[q].up])
    /\ Fail(q, "refused")
    /\ UNCHANGED <<content, mark, plan, parent, solve, history>>

\* The key's unique index, a busy database, a lost connection.
InsertFails(q) ==
    /\ request[q].pc = "inserting"
    /\ Fail(q, "error")
    /\ UNCHANGED <<content, mark, plan, parent, solve, history>>

\* Two sends of one upload racing: the loser answers with the winner.
\*
\* Mutant of ReplayAgain: the loser does not look for the winner.
ReplayAgainNever(q) ==
    /\ request[q].pc = "failed"
    /\ request' = [request EXCEPT ![q].pc = "unknown"]
    /\ UNCHANGED <<content, mark, plan, parent, solve, history>>

ReplayAgain(q) ==
    /\ request[q].pc = "failed"
    /\ IF StoredUnder(request[q].up) # {} THEN Reply(q)
       ELSE request' = [request EXCEPT ![q].pc = "unknown"]
    /\ UNCHANGED <<content, mark, plan, parent, solve, history>>

\* The current version decides between a conflict and the error.
Current(q) ==
    /\ request[q].pc = "unknown"
    /\ IF /\ ~trashed
          /\ \/ request[q].failed = "refused"
             \/ \E v \in Versions : v > parent[request[q].up]
       THEN request' = [request EXCEPT ![q].pc = "conflict"]
       ELSE Reply(q)
    /\ UNCHANGED <<content, mark, plan, parent, solve, history>>

Conflict(q) ==
    /\ request[q].pc = "conflict"
    /\ Reply(q)
    /\ UNCHANGED <<content, mark, plan, parent, solve, history>>

-----------------------------------------------------------------------------
(* Solves. *)

\* The version is read before the job's row is written, and may have been
\* trimmed in between: any version that was ever stored.
CreateJob(j, v) ==
    /\ solve[j] = 0
    /\ line[v] # None
    /\ solve' = [solve EXCEPT ![j] = v]
    /\ UNCHANGED <<content, mark, plan, parent, request, history>>

FinishJob(j) ==
    /\ solve[j] # 0
    /\ solve' = [solve EXCEPT ![j] = 0]
    /\ UNCHANGED <<content, mark, plan, parent, request, history>>

-----------------------------------------------------------------------------
Trash ==
    /\ trashed' = ~trashed
    /\ UNCHANGED <<content, mark, own, server, parent, request, solve, history>>

\* Requests die; jobs left open are closed at the next boot.
Crash ==
    /\ request' = [q \in Requests |-> IdleRequest]
    /\ solve' = [j \in Solves |-> 0]
    /\ UNCHANGED <<content, mark, plan, parent, history>>

Next ==
    \/ \E q \in Requests :
          \/ \E u \in Uploads, p \in Numbers : Get(q, u, p)
          \/ Replay(q) \/ InsertVersion(q) \/ InsertRefused(q) \/ InsertFails(q)
          \/ ReplayAgain(q) \/ Current(q) \/ Conflict(q)
    \/ TrimPlan
    \/ \E keep \in OwnCaps \cup {0} : Update(keep)
    \/ \E keep \in ServerCaps : SetCaps(keep)
    \/ \E v \in Numbers :
          NameCheckpoint(v) \/ DeleteCheckpoint(v) \/ RestoreCheckpoint(v)
    \/ \E ended \in SUBSET Numbers : PurgeCheckpoints(ended)
    \/ \E j \in Solves :
          \/ \E v \in Numbers : CreateJob(j, v)
          \/ FinishJob(j)
    \/ Trash
    \/ Crash

Spec == Init /\ [][Next]_vars

-----------------------------------------------------------------------------
TypeOK ==
    /\ content \in [Numbers -> Uploads \cup {First, None}]
    /\ mark \in [Numbers -> {"plain", "checkpoint", "trashed"}]
    /\ own \in OwnCaps \cup {0}
    /\ server \in ServerCaps
    /\ trashed \in BOOLEAN
    /\ parent \in [Uploads -> Numbers \cup {0}]
    /\ request \in [Requests ->
          [pc : {"idle", "got", "inserting", "failed", "unknown", "conflict"},
           up : Uploads \cup {First}, own : OwnCaps \cup {0},
           failed : {"none", "refused", "error"}]]
    /\ solve \in [Solves -> Numbers \cup {0}]
    /\ line \in [Numbers -> Uploads \cup {First, None}]
    /\ spared \subseteq Numbers

\* The timeline is one line whatever the cap, the purges and racing uploads
\* remove from it: the newest version ever stored is never removed, every version
\* was stored on the one before it, and a version that is still there holds what
\* was stored under its number (plans.insertVersion, plans.trim).
Linear ==
    /\ \A v \in Versions : content[v] = line[v]
    /\ \A v \in Numbers : line[v] # None => \E o \in Versions : o >= v
    /\ \A v \in Numbers : line[v] \in Uploads =>
          v > 1 /\ parent[line[v]] = v - 1 /\ line[v - 1] # None

\* However often a client sends it, with or without a key, through lost answers,
\* crashes and trims, an upload becomes at most one version (plans.AddVersion).
UploadOnce ==
    \A v, o \in Numbers : line[v] \in Uploads /\ line[o] = line[v] => o = v

\* A version number is used once: nothing that was removed comes back under it,
\* so a parent, a job or an exported file that names a number never reads another
\* document (plans.insertVersion).
NeverReused ==
    [][\A v \in Numbers : line[v] # None =>
          line'[v] = line[v] /\ content'[v] \in {content[v], None}]_vars

\* No step removes the newest version, a live checkpoint, or the version an open
\* solve reads (plans.trim, plans.purgeCheckpointsOf).
Protected ==
    [][\A v \in Versions : mark[v] = "checkpoint" \/ v \in Solving \/ IsNewest(v) =>
          content'[v] = content[v]]_vars

\* A plan never holds more backups than the largest cap it was ever given, but for
\* those that a solve kept when their turn came, however caps, checkpoints and
\* their purges change (plans.trim, plans.PurgeCheckpoints).
BackupsBounded ==
    \A newest \in Versions : IsNewest(newest) =>
        \E cap \in OwnCaps \cup ServerCaps : Cardinality(Backups(Versions, mark, newest) \ spared) <= cap

\* An insert refused for its parent is answered with a conflict only when the plan
\* holds no version under the upload's key: of two racing sends the loser is
\* answered with the winner's version (plans.AddVersion, plans.replay).
ConflictHonest ==
    \A q \in Requests : request[q].pc = "conflict" /\ request[q].failed = "refused" =>
        StoredUnder(request[q].up) = {}

\* An upload that was stored under a key is never answered with a conflict
\* (migrations/00001_init.sql, upload_key).
LostAnswerNoConflict ==
    \A q \in Requests : request[q].pc = "conflict" /\ KeyOf[request[q].up] # NoKey =>
        \A v \in Numbers : line[v] # request[q].up
=============================================================================
