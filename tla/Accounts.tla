------------------------------ MODULE Accounts ------------------------------
(***************************************************************************)
(* The school's accounts.  Kratos holds them; this server and its command  *)
(* line change them in several calls each, one writer at a time under a    *)
(* file lock, while people sign in, change their own passwords and ask for *)
(* routes.                                                                 *)
(*                                                                         *)
(* A call may fail, or be done and its answer lost: either way the writer  *)
(* stops where it is and lets go of the lock (Fail).                       *)
(***************************************************************************)
EXTENDS Naturals

CONSTANTS
    Ids,            \* accounts, by the name they sign in with
    First,          \* the name Bootstrap uses
    Workers,        \* requests, commands and boots at a time
    Nobody,
    Edits,          \* pairs of a role and a state that an update may ask for
    MaxHash         \* bound: passwords ever set

ASSUME AccountsAssumption ==
    /\ First \in Ids /\ Nobody \notin Workers /\ MaxHash \in Nat
    /\ Edits \subseteq ({"admin", "planner", "keep"} \X {"on", "off", "keep"}) \ {<<"keep", "keep">>}

VARIABLES
    account,        \* Kratos's identities
    sessions,       \* live sessions of each, by the password that opened them
    hashes,         \* passwords set so far: the stored hashes are 1 .. hashes
    shown,          \* generated passwords that were told to somebody
    lock,           \* the holder of the file lock
    worker

vars == <<account, sessions, hashes, shown, lock, worker>>

Absent == [there |-> FALSE, role |-> "planner", active |-> FALSE,
           must |-> FALSE, mark |-> 0, hash |-> 0]
Idle == [op |-> "none", pc |-> "idle", id |-> First, role |-> "keep", active |-> "keep",
         seen |-> Absent, hash |-> 0, mark |-> 0]

Init ==
    /\ account = [i \in Ids |-> Absent]
    /\ sessions = [i \in Ids |-> {}]
    /\ hashes = 0 /\ shown = {}
    /\ lock = Nobody
    /\ worker = [w \in Workers |-> Idle]

\* Worker w comes to p.
At(w, p) == worker[w].pc = p
Goto(w, p) == worker' = [worker EXCEPT ![w].pc = p]
Mine(w) == account[worker[w].id]
Store(w, identity) == account' = [account EXCEPT ![worker[w].id] = identity]

\* Worker w is done, with whatever answer.
End(w) ==
    /\ worker' = [worker EXCEPT ![w] = Idle]
    /\ lock' = IF lock = w THEN Nobody ELSE lock

\* lockChanges.  A writer that has read nothing yet is not told apart from one
\* that has not been asked.
\*
\* Mutant of Free: nobody waits.
FreeAlways == TRUE
Free == lock = Nobody

Begin(w, op, i, role, active) ==
    /\ At(w, "idle") /\ Free
    /\ lock' = w
    /\ worker' = [worker EXCEPT ![w] = [Idle EXCEPT !.op = op, !.pc = "read", !.id = i,
                                                    !.role = role, !.active = active]]
    /\ UNCHANGED <<account, sessions, hashes, shown>>

Enter(w) ==
    /\ At(w, "lock") /\ Free
    /\ lock' = w
    /\ Goto(w, "read")
    /\ UNCHANGED <<account, sessions, hashes, shown>>

Fail(w) ==
    /\ ~At(w, "idle")
    /\ End(w)
    /\ UNCHANGED <<account, sessions, hashes, shown>>

-----------------------------------------------------------------------------
(* A new account, and the first one. *)

CreateUser(w, i, role) == Begin(w, "create", i, role, "keep")

\* The look for an administrator, be it one who is disabled, is outside the lock.
Bootstrap(w) ==
    /\ At(w, "idle")
    /\ \A i \in Ids : account[i].role # "admin"
    /\ worker' = [worker EXCEPT ![w] = [Idle EXCEPT !.op = "create", !.pc = "lock", !.role = "admin"]]
    /\ UNCHANGED <<account, sessions, hashes, shown, lock>>

Create(w) ==
    /\ worker[w].op = "create" /\ At(w, "read")
    /\ \/ /\ Mine(w).there
          /\ End(w)
          /\ UNCHANGED <<account, hashes>>
       \/ /\ ~Mine(w).there /\ hashes < MaxHash
          /\ hashes' = hashes + 1
          /\ Store(w, [there |-> TRUE, role |-> worker[w].role, active |-> TRUE,
                       must |-> TRUE, mark |-> 0, hash |-> hashes + 1])
          /\ worker' = [worker EXCEPT ![w].pc = "mark", ![w].hash = hashes + 1]
          /\ UNCHANGED lock
    /\ UNCHANGED <<sessions, shown>>

\* setMustChangePassword: the mark is read, then stored with the flag.
PasswordMark(w) ==
    /\ At(w, "mark")
    /\ worker' = [worker EXCEPT ![w].pc = "flag", ![w].mark = Mine(w).hash]
    /\ UNCHANGED <<account, sessions, hashes, shown, lock>>

SetMustChangePassword(w) ==
    /\ At(w, "flag")
    /\ Store(w, [Mine(w) EXCEPT !.must = TRUE, !.mark = worker[w].mark])
    /\ worker' = [worker EXCEPT ![w].pc = IF worker[w].op = "reset" THEN "sessions" ELSE "answer",
                                ![w].mark = 0]
    /\ UNCHANGED <<sessions, hashes, shown, lock>>

-----------------------------------------------------------------------------
(* A changed role or state. *)

UpdateUser(w, i, edit) == Begin(w, "update", i, edit[1], edit[2])

\* The command line, which finds the account by its name first.
UsersSetRole(w, i, role) == account[i].there /\ Begin(w, "update", i, role, "keep")

EnabledAdmin(identity) == identity.role = "admin" /\ identity.active
Changed(identity, role, active) ==
    [identity EXCEPT !.role = IF role = "keep" THEN @ ELSE role,
                     !.active = IF active = "keep" THEN @ ELSE active = "on"]

LeavesNoAdmin(w) ==
    /\ EnabledAdmin(Mine(w))
    /\ \A i \in Ids \ {worker[w].id} : ~EnabledAdmin(account[i])
    /\ ~EnabledAdmin(Changed(Mine(w), worker[w].role, worker[w].active))

Update(w) ==
    /\ worker[w].op = "update" /\ At(w, "read")
    /\ IF LeavesNoAdmin(w) \/ ~Mine(w).there
       THEN End(w)
       ELSE Goto(w, "patch") /\ UNCHANGED lock
    /\ UNCHANGED <<account, sessions, hashes, shown>>

Patch(w) ==
    /\ At(w, "patch")
    /\ Store(w, Changed(Mine(w), worker[w].role, worker[w].active))
    /\ worker' = [worker EXCEPT ![w].pc = IF worker[w].active = "off" THEN "sessions" ELSE "answer",
                                ![w].role = "keep"]
    /\ UNCHANGED <<sessions, hashes, shown, lock>>

\* Mutant of EndSessions: the sessions are left to run out.
EndSessionsNot(w) ==
    /\ At(w, "sessions")
    /\ Goto(w, "answer")
    /\ UNCHANGED <<account, sessions, hashes, shown, lock>>
EndSessions(w) ==
    /\ At(w, "sessions")
    /\ sessions' = [sessions EXCEPT ![worker[w].id] = {}]
    /\ Goto(w, "answer")
    /\ UNCHANGED <<account, hashes, shown, lock>>

-----------------------------------------------------------------------------
(* A new password, chosen by the server. *)

ResetPassword(w, i) == account[i].there /\ Begin(w, "reset", i, "keep", "keep")

\* setPassword: the whole identity is read and sent back with another password.
ReadIdentity(w) ==
    /\ worker[w].op = "reset" /\ At(w, "read")
    /\ worker' = [worker EXCEPT ![w].pc = "put", ![w].seen = Mine(w)]
    /\ UNCHANGED <<account, sessions, hashes, shown, lock>>

SetPassword(w) ==
    /\ At(w, "put") /\ hashes < MaxHash
    /\ hashes' = hashes + 1
    /\ Store(w, [worker[w].seen EXCEPT !.hash = hashes + 1])
    /\ worker' = [worker EXCEPT ![w].pc = "mark", ![w].hash = hashes + 1, ![w].seen = Absent]
    /\ UNCHANGED <<sessions, shown, lock>>

\* The answer of a creation or a reset is the one place that shows its password.
Answer(w) ==
    /\ At(w, "answer")
    /\ shown' = IF worker[w].op = "update" THEN shown ELSE shown \cup {worker[w].hash}
    /\ End(w)
    /\ UNCHANGED <<account, sessions, hashes>>

-----------------------------------------------------------------------------
(* requirePasswordChanged: a request of an account whose session says that it *)
(* has to change its password.                                                *)

Arrive(w, i) ==
    /\ At(w, "idle")
    /\ sessions[i] # {} /\ account[i].active /\ account[i].must
    /\ worker' = [worker EXCEPT ![w] = [Idle EXCEPT !.op = "guard", !.pc = "get", !.id = i]]
    /\ UNCHANGED <<account, sessions, hashes, shown, lock>>

\* satisfied: the account is read again, and without a flag it is let through.
Satisfied(w) ==
    /\ At(w, "get")
    /\ \/ ~Mine(w).must /\ End(w)
       \/ /\ Mine(w).must
          /\ worker' = [worker EXCEPT ![w].pc = "compare", ![w].mark = Mine(w).mark]
          /\ UNCHANGED lock
    /\ UNCHANGED <<account, sessions, hashes, shown>>

PasswordChanged(w) ==
    /\ At(w, "compare")
    /\ IF worker[w].mark # 0 /\ Mine(w).hash # worker[w].mark
       THEN Goto(w, "lock") /\ UNCHANGED lock
       ELSE End(w)
    /\ UNCHANGED <<account, sessions, hashes, shown>>

\* Mutant of SameMark: the flag goes whatever mark it has by now.
SameMarkAny(w) == TRUE
SameMark(w) == Mine(w).mark = worker[w].mark

\* ClearMustChangePassword: read again under the lock, then cleared.
ClearMustChangePassword(w) ==
    /\ worker[w].op = "guard" /\ At(w, "read")
    /\ IF Mine(w).must /\ SameMark(w)
       THEN Goto(w, "clear") /\ UNCHANGED lock
       ELSE End(w)
    /\ UNCHANGED <<account, sessions, hashes, shown>>

Clear(w) ==
    /\ At(w, "clear")
    /\ Store(w, [Mine(w) EXCEPT !.must = FALSE, !.mark = 0])
    /\ End(w)
    /\ UNCHANGED <<sessions, hashes, shown>>

-----------------------------------------------------------------------------
(* What people do, and the ends of single sessions. *)

SignIn(i) ==
    /\ account[i].there /\ account[i].active
    /\ sessions' = [sessions EXCEPT ![i] = @ \cup {account[i].hash}]
    /\ UNCHANGED <<account, hashes, shown, lock, worker>>

ChangePassword(i) ==
    /\ sessions[i] # {} /\ account[i].active /\ hashes < MaxHash
    /\ hashes' = hashes + 1
    /\ account' = [account EXCEPT ![i].hash = hashes + 1]
    /\ UNCHANGED <<sessions, shown, lock, worker>>

\* One session; RevokeUserSessions ends them all, and neither waits for the lock.
RevokeUserSession(i, s) ==
    /\ s \in sessions[i]
    /\ sessions' = [sessions EXCEPT ![i] = @ \ {s}]
    /\ UNCHANGED <<account, hashes, shown, lock, worker>>

RevokeUserSessions(i) ==
    /\ sessions[i] # {}
    /\ sessions' = [sessions EXCEPT ![i] = {}]
    /\ UNCHANGED <<account, hashes, shown, lock, worker>>

-----------------------------------------------------------------------------
Step(w) ==
    \/ Enter(w) \/ Fail(w)
    \/ Create(w) \/ PasswordMark(w) \/ SetMustChangePassword(w)
    \/ Update(w) \/ Patch(w) \/ EndSessions(w)
    \/ ReadIdentity(w) \/ SetPassword(w) \/ Answer(w)
    \/ Satisfied(w) \/ PasswordChanged(w) \/ ClearMustChangePassword(w) \/ Clear(w)

Request(w) ==
    \/ Bootstrap(w)
    \/ \E i \in Ids :
          \/ \E role \in {"admin", "planner"} : CreateUser(w, i, role) \/ UsersSetRole(w, i, role)
          \/ \E edit \in Edits : UpdateUser(w, i, edit)
          \/ ResetPassword(w, i)
          \/ Arrive(w, i)

People ==
    \E i \in Ids :
        \/ SignIn(i) \/ ChangePassword(i)
        \/ RevokeUserSessions(i)
        \/ \E s \in sessions[i] : RevokeUserSession(i, s)

Next == (\E w \in Workers : Step(w) \/ Request(w)) \/ People

Spec == Init /\ [][Next]_vars

-----------------------------------------------------------------------------
Identities == [there : BOOLEAN, role : {"admin", "planner"}, active : BOOLEAN,
               must : BOOLEAN, mark : Nat, hash : Nat]

TypeOK ==
    /\ account \in [Ids -> Identities]
    /\ sessions \in [Ids -> SUBSET Nat]
    /\ hashes \in Nat /\ shown \subseteq 1 .. hashes
    /\ lock \in Workers \cup {Nobody}
    /\ worker \in [Workers ->
          [op : {"none", "create", "update", "reset", "guard"},
           pc : {"idle", "lock", "read", "mark", "flag", "patch", "put", "sessions", "answer",
                 "get", "compare", "clear"},
           id : Ids, role : {"admin", "planner", "keep"}, active : {"on", "off", "keep"},
           seen : Identities, hash : Nat, mark : Nat]]

\* However changes of several accounts, resets and failures interleave, no step
\* takes the last enabled administrator away (identity.Update).
AdminLeft ==
    [][(\E i \in Ids : EnabledAdmin(account[i])) => \E i \in Ids : EnabledAdmin(account'[i])]_vars

\* A password that this server generated and told to somebody never belongs to an
\* account without the first-sign-in flag: neither a failing reset nor a request
\* that compared marks before a reset lifts the flag from it
\* (identity.ResetPassword, v1.satisfied, identity.ClearMustChangePassword).
Handed == \A i \in Ids : account[i].there /\ ~account[i].must => account[i].hash \notin shown

\* Sending the whole identity back with a new password undoes no change of role,
\* state or flag that was made meanwhile (identity.setPassword).
NothingUndone ==
    [][\A i \in Ids, w \in Workers : At(w, "put") /\ account'[i].hash # account[i].hash =>
          [account'[i] EXCEPT !.hash = account[i].hash] = account[i]]_vars

\* When a reset is answered no session is left that an earlier password opened, and
\* when the disabling of an account is answered it has no session at all
\* (identity.ResetPassword, identity.Update).
SignedOut ==
    \A w \in Workers : At(w, "answer") =>
        LET live == sessions[worker[w].id]
        IN  /\ worker[w].op = "reset" => \A s \in live : s >= worker[w].hash
            /\ worker[w].active = "off" => live = {}
=============================================================================
