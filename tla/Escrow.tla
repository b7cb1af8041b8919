------------------------------- MODULE Escrow -------------------------------
(***************************************************************************)
(* The school's key (core/escrow, api/v1/school.go, cmd/serve.go): one row *)
(* that holds the key sealed with the operator's passphrase.  Several      *)
(* servers start over one database at once, each with the passphrase it    *)
(* was given or none, find no key and make one; the row decides.           *)
(***************************************************************************)
EXTENDS Naturals, FiniteSets

CONSTANTS
  Servers,      \* the processes over one database
  Passphrases,  \* what each may be started with, "" for none
  MaxKeys       \* bounds the keys generated

VARIABLES
  row,     \* the school_key table: none, or a key and what it is sealed with
  server,  \* each process: its step, passphrase, generated and remembered key
  keys,    \* the keys generated so far
  files    \* what each exported file is encrypted to, and whether the server
           \* that wrote it was given a passphrase

vars == <<row, server, keys, files>>

NoKey == 0
NoRow == [key |-> NoKey, sealed |-> ""]
Down == [pc |-> "down", passphrase |-> "", made |-> NoKey, fileKey |-> NoKey]

Init ==
  /\ row = NoRow
  /\ server = [s \in Servers |-> Down]
  /\ keys = 0
  /\ files = {}

Enabled(s) == server[s].passphrase # ""

\* Unsealing fails with another passphrase than the one it was sealed with.
Opens(s) == row # NoRow /\ row.sealed = server[s].passphrase

Goto(s, pc) == server' = [server EXCEPT ![s].pc = pc]

-----------------------------------------------------------------------------
(* A start.                                                                *)

Boot(s) ==
  /\ server[s].pc = "down"
  /\ \E p \in Passphrases :
       server' = [server EXCEPT ![s] =
         [Down EXCEPT !.pc = IF p = "" THEN "up" ELSE "get", !.passphrase = p]]
  /\ UNCHANGED <<row, keys, files>>

\* The stored key opens and is this process's from here on.
EnsureFound(s) ==
  /\ server[s].pc \in {"get", "again"}
  /\ Opens(s)
  /\ server' = [server EXCEPT ![s].pc = "up", ![s].fileKey = row.key, ![s].made = NoKey]
  /\ UNCHANGED <<row, keys, files>>

\* It does not open, or the database does not answer: the start is given up.
EnsureFails(s) ==
  /\ server[s].pc \in {"get", "insert", "again"}
  /\ server' = [server EXCEPT ![s] = Down]
  /\ UNCHANGED <<row, keys, files>>

\* There is none: one is generated and sealed.
Generate(s) ==
  /\ server[s].pc = "get"
  /\ row = NoRow
  /\ keys < MaxKeys
  /\ keys' = keys + 1
  /\ server' = [server EXCEPT ![s].pc = "insert", ![s].made = keys + 1]
  /\ UNCHANGED <<row, files>>

\* The row's id is always 1, so the second insert fails.
Inserted(s) ==
  /\ server[s].pc = "insert"
  /\ row = NoRow
  /\ row' = [key |-> server[s].made, sealed |-> server[s].passphrase]
  /\ server' = [server EXCEPT ![s].pc = "up", ![s].fileKey = server[s].made, ![s].made = NoKey]
  /\ UNCHANGED <<keys, files>>

\* Mutant of InsertRefused: a start keeps its own key where another was first.
InsertRefusedOwn(s) ==
  /\ server[s].pc = "insert"
  /\ row # NoRow
  /\ server' = [server EXCEPT ![s].pc = "up", ![s].fileKey = server[s].made, ![s].made = NoKey]
  /\ UNCHANGED <<row, keys, files>>

\* Somebody else was first: theirs is the school's key.
InsertRefused(s) ==
  /\ server[s].pc = "insert"
  /\ row # NoRow
  /\ Goto(s, "again")
  /\ UNCHANGED <<row, keys, files>>

\* The insert lands and its answer is lost: the row is read all the same.
InsertUnanswered(s) ==
  /\ server[s].pc = "insert"
  /\ row = NoRow
  /\ row' = [key |-> server[s].made, sealed |-> server[s].passphrase]
  /\ Goto(s, "again")
  /\ UNCHANGED <<keys, files>>

Stop(s) ==
  /\ server[s].pc # "down"
  /\ server' = [server EXCEPT ![s] = Down]
  /\ UNCHANGED <<row, keys, files>>

-----------------------------------------------------------------------------
(* A running server.                                                       *)

\* What new files are encrypted to: the remembered key, else the row's public
\* half; plain only without a passphrase or a key.
Recipient(s) ==
  IF ~Enabled(s) THEN NoKey
  ELSE IF server[s].fileKey # NoKey THEN server[s].fileKey
  ELSE row.key

ExportFile(s) ==
  /\ server[s].pc = "up"
  /\ files' = files \cup {[to |-> Recipient(s), configured |-> Enabled(s)]}
  /\ UNCHANGED <<row, server, keys>>

Next ==
  \E s \in Servers :
    \/ Boot(s) \/ EnsureFound(s) \/ EnsureFails(s) \/ Generate(s)
    \/ Inserted(s) \/ InsertRefused(s) \/ InsertUnanswered(s) \/ Stop(s)
    \/ ExportFile(s)

Spec == Init /\ [][Next]_vars

-----------------------------------------------------------------------------
(* Properties.                                                             *)

\* The key a desktop is handed opens every file the school ever encrypted:
\* servers that raced at first boot, starts given up halfway and answers lost
\* never leave a file behind that is encrypted to another key than the row's,
\* and none that a configured server wrote in the clear.
OneSchoolKey ==
  \A f \in files :
    /\ f.configured => f.to # NoKey
    /\ f.to # NoKey => f.to = row.key

=============================================================================
