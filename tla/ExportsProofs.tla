--------------------------- MODULE ExportsProofs ---------------------------
(***************************************************************************)
(* Proofs about exported files and the key they are encrypted to, for any  *)
(* servers, passphrases, callers, files and formats: the school has one    *)
(* key and keeps it; a caller gets its own file for the key in force, and a *)
(* build is shared and not repeated.                                       *)
(***************************************************************************)
EXTENDS Services, TLAPS

-----------------------------------------------------------------------------
(* The school's key. *)

Phrases == Passphrases \cup {""}
KeyRow == [key : Nat, sealed : Phrases]
ServerRecord ==
    [pc : {"down", "get", "insert", "again", "up"}, passphrase : Phrases,
     made : Nat, fileKey : Nat]

EscrowType ==
    /\ schoolKey \in KeyRow
    /\ schoolServer \in [SchoolServers -> ServerRecord]
    /\ schoolKeys \in Nat
    /\ schoolFiles \subseteq [to : Nat, configured : BOOLEAN]

\* A process that looks for the key has a passphrase, one that inserts has made a
\* key, and one that is up with a passphrase has the row's.
ServerOK(s) ==
    /\ schoolServer[s].pc \in {"get", "insert", "again"} => K!Enabled(s)
    /\ schoolServer[s].pc = "insert" => schoolServer[s].made # K!NoKey
    /\ schoolServer[s].pc = "up" /\ K!Enabled(s) => schoolKey # K!NoRow /\ schoolServer[s].fileKey = schoolKey.key

EscrowInv ==
    /\ EscrowType
    /\ schoolKey # K!NoRow => schoolKey.key # K!NoKey
    /\ \A s \in SchoolServers : ServerOK(s)
    /\ K!OneSchoolKey

LEMMA EscrowTypeStep ==
    ASSUME EscrowType, [K!Next]_(K!vars)
    PROVE  EscrowType'
<1>1. CASE UNCHANGED K!vars
  BY <1>1 DEF K!vars, EscrowType
<1>2. ASSUME NEW s \in SchoolServers,
             \/ K!Boot(s) \/ K!EnsureFound(s) \/ K!EnsureFails(s) \/ K!Generate(s) \/ K!Inserted(s)
             \/ K!InsertRefused(s) \/ K!InsertUnanswered(s) \/ K!Stop(s) \/ K!ExportFile(s)
      PROVE  EscrowType'
  <2>1. /\ schoolServer[s] \in ServerRecord /\ K!NoKey \in Nat /\ K!Down \in ServerRecord
        /\ schoolKey.key \in Nat
    BY DEF EscrowType, K!NoKey, K!Down, ServerRecord, KeyRow, Phrases
  <2>2. schoolKeys' \in Nat
    <3>1. schoolKeys' = schoolKeys \/ schoolKeys' = schoolKeys + 1
      BY <1>2 DEF K!Boot, K!EnsureFound, K!EnsureFails, K!Generate, K!Inserted, K!InsertRefused,
             K!InsertUnanswered, K!Stop, K!ExportFile
    <3> QED
      BY <3>1 DEF EscrowType
  <2>3. schoolKey' \in KeyRow
    <3>1. schoolKey' = schoolKey \/ schoolKey' = [key |-> schoolServer[s].made, sealed |-> schoolServer[s].passphrase]
      BY <1>2 DEF K!Boot, K!EnsureFound, K!EnsureFails, K!Generate, K!Inserted, K!InsertRefused,
             K!InsertUnanswered, K!Stop, K!ExportFile
    <3> QED
      BY <2>1, <3>1 DEF EscrowType, KeyRow, ServerRecord
  <2>4. schoolFiles' \subseteq [to : Nat, configured : BOOLEAN]
    <3>1. CASE K!ExportFile(s)
      <4>1. K!Recipient(s) \in Nat
        BY <2>1 DEF ServerRecord, K!Recipient
      <4>2. [to |-> K!Recipient(s), configured |-> K!Enabled(s)] \in [to : Nat, configured : BOOLEAN]
        BY <4>1 DEF K!Enabled
      <4> QED
        BY <3>1, <4>2 DEF EscrowType, K!ExportFile
    <3>2. CASE ~K!ExportFile(s)
      BY <1>2, <3>2 DEF EscrowType, K!Boot, K!EnsureFound, K!EnsureFails, K!Generate, K!Inserted,
           K!InsertRefused,
             K!InsertUnanswered, K!Stop
    <3> QED
      BY <3>1, <3>2
  <2>5. schoolServer' \in [SchoolServers -> ServerRecord]
    <3>1. CASE K!Boot(s)
      <4>1. PICK p \in Passphrases : schoolServer' = [schoolServer EXCEPT ![s] =
              [K!Down EXCEPT !.pc = IF p = "" THEN "up" ELSE "get", !.passphrase = p]]
        BY <3>1 DEF K!Boot
      <4>2. [K!Down EXCEPT !.pc = IF p = "" THEN "up" ELSE "get", !.passphrase = p] \in ServerRecord
        BY <2>1 DEF K!Down, ServerRecord, Phrases
      <4> QED
        BY <4>1, <4>2 DEF EscrowType
    <3>2. CASE K!EnsureFound(s)
      <4>1. schoolServer' = [schoolServer EXCEPT ![s].pc = "up", ![s].fileKey = schoolKey.key, ![s].made = K!NoKey]
        BY <3>2 DEF K!EnsureFound
      <4>2. [schoolServer[s] EXCEPT !.pc = "up", !.fileKey = schoolKey.key, !.made = K!NoKey] \in ServerRecord
        BY <2>1 DEF ServerRecord
      <4> QED
        BY <4>1, <4>2 DEF EscrowType
    <3>3. CASE K!EnsureFails(s) \/ K!Stop(s)
      BY <2>1, <3>3 DEF EscrowType, K!EnsureFails, K!Stop
    <3>4. CASE K!Generate(s)
      <4>1. schoolKeys + 1 \in Nat
        BY DEF EscrowType
      <4>2. [schoolServer[s] EXCEPT !.pc = "insert", !.made = schoolKeys + 1] \in ServerRecord
        BY <2>1, <4>1 DEF ServerRecord
      <4>3. schoolServer' = [schoolServer EXCEPT ![s] = [schoolServer[s] EXCEPT !.pc = "insert", !.made = schoolKeys + 1]]
        BY <3>4 DEF K!Generate, EscrowType
      <4> QED
        BY <4>2, <4>3 DEF EscrowType
    <3>5. CASE K!Inserted(s)
      BY <2>1, <3>5 DEF EscrowType, ServerRecord, K!Inserted
    <3>6. CASE K!InsertRefused(s) \/ K!InsertUnanswered(s)
      <4>1. schoolServer' = [schoolServer EXCEPT ![s].pc = "again"]
        BY <3>6 DEF K!InsertRefused, K!InsertUnanswered, K!Goto
      <4> QED
        BY <2>1, <4>1 DEF EscrowType, ServerRecord
    <3>7. CASE K!ExportFile(s)
      BY <3>7 DEF EscrowType, K!ExportFile
    <3> QED
      BY <1>2, <3>1, <3>2, <3>3, <3>4, <3>5, <3>6, <3>7
  <2> QED
    BY <2>2, <2>3, <2>4, <2>5 DEF EscrowType
<1> QED
  BY <1>1, <1>2 DEF K!Next

\* The row is written once, with a key of its own.
RowStep == schoolKey' = schoolKey \/ (schoolKey = K!NoRow /\ schoolKey'.key # K!NoKey)

LEMMA RowSteps ==
    ASSUME EscrowInv, [K!Next]_(K!vars)
    PROVE  RowStep
<1>1. ASSUME NEW s \in SchoolServers, K!Inserted(s) \/ K!InsertUnanswered(s) PROVE RowStep
  BY <1>1 DEF EscrowInv, ServerOK, K!Inserted, K!InsertUnanswered, RowStep
<1> QED
  BY <1>1 DEF K!Next, K!vars, RowStep, K!Boot, K!EnsureFound, K!EnsureFails, K!Generate,
       K!InsertRefused, K!Stop,
         K!ExportFile

LEMMA ServerStep ==
    ASSUME EscrowInv, [K!Next]_(K!vars), NEW o \in SchoolServers
    PROVE  ServerOK(o)'
<1>1. RowStep /\ schoolServer[o] \in ServerRecord /\ ServerOK(o) /\ EscrowType
  BY RowSteps DEF EscrowInv, EscrowType
<1>2. CASE schoolServer'[o] = schoolServer[o]
  BY <1>1, <1>2 DEF RowStep, ServerOK, K!Enabled
<1>3. ASSUME NEW s \in SchoolServers, s # o,
             \/ K!Boot(s) \/ K!EnsureFound(s) \/ K!EnsureFails(s) \/ K!Generate(s) \/ K!Inserted(s)
             \/ K!InsertRefused(s) \/ K!InsertUnanswered(s) \/ K!Stop(s) \/ K!ExportFile(s)
      PROVE  schoolServer'[o] = schoolServer[o]
  BY <1>1, <1>3 DEF EscrowType, K!Boot, K!EnsureFound, K!EnsureFails, K!Generate, K!Inserted,
       K!InsertRefused,
         K!InsertUnanswered, K!Stop, K!ExportFile, K!Goto
<1>4. CASE K!Boot(o)
  <2>1. PICK p \in Passphrases : schoolServer' = [schoolServer EXCEPT ![o] =
          [K!Down EXCEPT !.pc = IF p = "" THEN "up" ELSE "get", !.passphrase = p]]
    BY <1>4 DEF K!Boot
  <2>2. schoolServer'[o].pc = (IF p = "" THEN "up" ELSE "get") /\ schoolServer'[o].passphrase = p
    BY <1>1, <2>1 DEF EscrowType, K!Down
  <2> QED
    BY <2>2 DEF ServerOK, K!Enabled
<1>5. CASE K!EnsureFound(o)
  <2>1. /\ schoolServer'[o].pc = "up" /\ schoolServer'[o].fileKey = schoolKey.key /\ schoolKey # K!NoRow /\ schoolKey' = schoolKey
    BY <1>1, <1>5 DEF EscrowType, ServerRecord, K!EnsureFound, K!Opens
  <2> QED
    BY <2>1 DEF ServerOK
<1>6. CASE K!EnsureFails(o) \/ K!Stop(o)
  <2>1. schoolServer'[o].pc = "down"
    <3>1. schoolServer' = [schoolServer EXCEPT ![o] = K!Down]
      BY <1>6 DEF K!EnsureFails, K!Stop
    <3> QED
      BY <1>1, <3>1 DEF EscrowType, K!Down
  <2> QED
    BY <2>1 DEF ServerOK
<1>7. CASE K!Generate(o)
  <2>1. /\ schoolServer'[o].pc = "insert" /\ schoolServer'[o].passphrase = schoolServer[o].passphrase
        /\ schoolServer'[o].made = schoolKeys + 1 /\ schoolServer[o].pc = "get" /\ schoolKeys + 1 # K!NoKey
    <3>1. /\ schoolServer' = [schoolServer EXCEPT ![o].pc = "insert", ![o].made = schoolKeys + 1]
          /\ schoolServer[o].pc = "get"
      BY <1>7 DEF K!Generate
    <3>2. schoolKeys + 1 # K!NoKey
      BY <1>1 DEF EscrowType, K!NoKey
    <3> QED
      BY <1>1, <3>1, <3>2 DEF EscrowType, ServerRecord
  <2> QED
    BY <1>1, <2>1 DEF ServerOK, K!Enabled
<1>8. CASE K!Inserted(o)
  <2>1. /\ schoolServer'[o].pc = "up" /\ schoolServer'[o].fileKey = schoolServer[o].made
        /\ schoolServer[o].pc = "insert" /\ schoolKey'.key = schoolServer[o].made
    BY <1>1, <1>8 DEF EscrowType, ServerRecord, K!Inserted
  <2>2. schoolServer[o].made # K!NoKey
    BY <1>1, <2>1 DEF ServerOK
  <2> QED
    <3>1. schoolKey' # K!NoRow
      <4>1. K!NoRow.key = K!NoKey
        BY DEF K!NoRow
      <4> QED
        BY <2>1, <2>2, <4>1
    <3> QED
      BY <2>1, <3>1 DEF ServerOK
<1>9. CASE K!InsertRefused(o) \/ K!InsertUnanswered(o)
  <2>1. /\ schoolServer'[o].pc = "again" /\ schoolServer'[o].passphrase = schoolServer[o].passphrase
        /\ schoolServer[o].pc = "insert"
    <3>1. schoolServer' = [schoolServer EXCEPT ![o].pc = "again"] /\ schoolServer[o].pc = "insert"
      BY <1>9 DEF K!InsertRefused, K!InsertUnanswered, K!Goto
    <3> QED
      BY <1>1, <3>1 DEF EscrowType, ServerRecord
  <2> QED
    BY <1>1, <2>1 DEF ServerOK, K!Enabled
<1>10. CASE K!ExportFile(o)
  BY <1>2, <1>10 DEF K!ExportFile
<1>11. CASE UNCHANGED K!vars
  BY <1>2, <1>11 DEF K!vars
<1> QED
  BY <1>2, <1>3, <1>4, <1>5, <1>6, <1>7, <1>8, <1>9, <1>10, <1>11 DEF K!Next

LEMMA FilesStep ==
    ASSUME EscrowInv, [K!Next]_(K!vars)
    PROVE  K!OneSchoolKey'
<1>1. RowStep /\ EscrowType /\ K!OneSchoolKey
  BY RowSteps DEF EscrowInv
<1>2. CASE schoolFiles' = schoolFiles
  <2>1. schoolKey = K!NoRow => \A f \in schoolFiles : f.to = K!NoKey
    <3>1. K!NoRow.key = K!NoKey
      BY DEF K!NoRow
    <3> QED
      BY <1>1, <3>1 DEF K!OneSchoolKey
  <2> QED
    BY <1>1, <1>2, <2>1 DEF RowStep, K!OneSchoolKey
<1>3. ASSUME NEW s \in SchoolServers, K!ExportFile(s) PROVE K!OneSchoolKey'
  <2> DEFINE new == [to |-> K!Recipient(s), configured |-> K!Enabled(s)]
  <2>1. schoolFiles' = schoolFiles \cup {new} /\ schoolKey' = schoolKey /\ schoolServer[s].pc = "up"
    BY <1>3 DEF K!ExportFile
  <2>2. ~K!Enabled(s) => K!Recipient(s) = K!NoKey
    BY DEF K!Recipient
  <2>3. K!Enabled(s) => K!Recipient(s) = schoolKey.key /\ schoolKey.key # K!NoKey
    BY <2>1 DEF EscrowInv, ServerOK, K!Recipient
  <2>4. (new.configured => new.to # K!NoKey) /\ (new.to # K!NoKey => new.to = schoolKey.key)
    <3>1. CASE K!Enabled(s)
      BY <2>3, <3>1
    <3>2. CASE ~K!Enabled(s)
      BY <2>2, <3>2
    <3> QED
      BY <3>1, <3>2
  <2> HIDE DEF new
  <2> QED
    BY <1>1, <2>1, <2>4 DEF K!OneSchoolKey
<1> QED
  BY <1>2, <1>3 DEF K!Next, K!vars, K!Boot, K!EnsureFound, K!EnsureFails, K!Generate, K!Inserted,
       K!InsertRefused,
         K!InsertUnanswered, K!Stop

LEMMA EscrowInvariance == K!Spec => []EscrowInv
<1>1. K!Init => EscrowInv
  <2> SUFFICES ASSUME K!Init PROVE EscrowInv
    OBVIOUS
  <2>1. K!Down \in ServerRecord /\ K!Down.pc = "down" /\ K!NoRow \in KeyRow
    BY DEF K!Down, K!NoRow, K!NoKey, KeyRow, ServerRecord, Phrases
  <2>2. EscrowType
    BY <2>1 DEF K!Init, EscrowType
  <2>3. \A s \in SchoolServers : ServerOK(s)
    BY <2>1 DEF K!Init, ServerOK
  <2> QED
    BY <2>2, <2>3 DEF K!Init, EscrowInv, K!OneSchoolKey
<1>2. EscrowInv /\ [K!Next]_(K!vars) => EscrowInv'
  <2> SUFFICES ASSUME EscrowInv, [K!Next]_(K!vars) PROVE EscrowInv'
    OBVIOUS
  <2>1. EscrowType'
    BY EscrowTypeStep DEF EscrowInv
  <2>2. (schoolKey # K!NoRow => schoolKey.key # K!NoKey)'
    BY RowSteps DEF EscrowInv, RowStep
  <2>3. \A s \in SchoolServers : ServerOK(s)'
    BY ServerStep
  <2> QED
    BY <2>1, <2>2, <2>3, FilesStep DEF EscrowInv
<1> QED
  BY <1>1, <1>2, PTL DEF K!Spec

\* Every file any server wrote is encrypted to the key in the row, and none that
\* a server with a passphrase wrote is in the clear, however many servers start
\* over one database at once and stop halfway (escrow.Service.Ensure, Recipient).
THEOREM OneSchoolKeyTheorem == K!Spec => []OneSchoolKey
<1>1. EscrowInv => K!OneSchoolKey
  BY DEF EscrowInv
<1> QED
  BY <1>1, EscrowInvariance, PTL DEF OneSchoolKey

\* The school's key, once stored, stays: no start replaces the row.
THEOREM KeyStaysTheorem == K!Spec => [][schoolKey # K!NoRow => schoolKey' = schoolKey]_(K!vars)
<1>1. EscrowInv /\ [K!Next]_(K!vars) => [schoolKey # K!NoRow => schoolKey' = schoolKey]_(K!vars)
  BY RowSteps DEF RowStep
<1> QED
  BY <1>1, EscrowInvariance, PTL DEF K!Spec

-----------------------------------------------------------------------------
(* Exported files. *)

Variants == Recipients \cup {""}
Contents == [of : Files, variant : Variants]

RowRecord == [of : Files, variant : Variants, size : BOOLEAN]
FlightRecord ==
    [pc : {"kept", "export", "revive", "put", "keep"}, file : Files, variant : Variants,
     made : Contents \cup {X!NoContent}]
CallerRecord ==
    [pc : {"idle", "join", "wait"}, file : Files \cup {X!NoFile}, variant : Variants,
     answer : {"none", "missing", "file", "refused", "unavailable"},
     got : Contents \cup {X!NoContent}]

\* A table maps some keys to values.
Table(f, Images) ==
    DOMAIN f \subseteq X!Keys /\ f = [k \in DOMAIN f |-> f[k]] /\ \A k \in DOMAIN f : f[k] \in Images

ExportsType ==
    /\ recipient \in Recipients
    /\ present \subseteq X!Sources
    /\ Table(exported, RowRecord)
    /\ Table(objects, Contents)
    /\ Table(builds, FlightRecord)
    /\ asker \in [Askers -> CallerRecord]
    /\ made \in [X!Keys -> Nat]
    /\ faults \subseteq X!Keys

\* What file is built into now.
Wanted(file) == [of |-> file, variant |-> X!variantOf(file)]

\* A row names the file of its key, whose source is there and whose size is
\* that of its variant.
RowOK(k) ==
    /\ X!Key(exported[k].of) = k /\ X!Source(exported[k].of) \in present
    /\ exported[k].size <=> exported[k].variant # ""

\* A build makes the file of its key for the school's key of now; what it is
\* about to keep is stored.
FlightOK(k) ==
    /\ X!Key(builds[k].file) = k /\ builds[k].variant = X!variantOf(builds[k].file)
    /\ builds[k].pc \in {"revive", "put", "keep"} => builds[k].made = Wanted(builds[k].file)
    /\ builds[k].pc = "keep" => k \in DOMAIN objects /\ objects[k] = builds[k].made

\* A caller that waits, waits for the file it asked for; one that is told to try
\* again was failed by a build of its file.
CallerOK(c) ==
    /\ asker[c].pc # "idle" =>
          /\ asker[c].file \in Files /\ asker[c].variant = X!variantOf(asker[c].file)
          /\ asker[c].answer = "none"
    /\ asker[c].answer = "file" => asker[c].got = Wanted(asker[c].file)
    /\ asker[c].answer = "unavailable" => asker[c].file \in Files /\ X!Key(asker[c].file) \in faults

\* A file that was made is on its way into the store, or kept and looked at by
\* every later build before it exports.
MadeOK(file) ==
    LET k == X!Key(file) IN
    /\ made[k] = 1
    /\ \/ X!At(k, "revive") \/ X!At(k, "put") \/ X!At(k, "keep")
       \/ X!kept(k, X!variantOf(file)) /\ ~X!At(k, "export")

RowsOK == \A k \in DOMAIN exported : RowOK(k)
ObjectsOK == \A k \in DOMAIN objects : X!Key(objects[k].of) = k
FlightsOK == \A k \in DOMAIN builds : FlightOK(k)
CallersOK == \A c \in Askers : CallerOK(c)
MadesOK == \A file \in Files :
    X!Source(file) \in present /\ made[X!Key(file)] # 0 => MadeOK(file)

ExportsInv ==
    /\ ExportsType
    /\ RowsOK
    /\ ObjectsOK
    /\ FlightsOK
    /\ CallersOK
    /\ MadesOK
-----------------------------------------------------------------------------
(* The operators. *)

LEMMA KeyOne ==
    ASSUME FilesTyped, NEW f \in Files, NEW g \in Files, X!Key(f) = X!Key(g)
    PROVE  f = g
BY DEF FilesTyped, X!Key

LEMMA EmptyTable ==
    ASSUME NEW Images
    PROVE  DOMAIN << >> = {} /\ Table(<< >>, Images)
<1>1. << >> = [k \in {} |-> k]
  OBVIOUS
<1> QED
  BY <1>1 DEF Table

LEMMA WithTyped ==
    ASSUME NEW Images, NEW f, Table(f, Images), NEW key \in X!Keys, NEW value \in Images
    PROVE  Table(X!With(f, key, value), Images)
BY DEF X!With, Table

LEMMA RestrictTable ==
    ASSUME NEW f, NEW S
    PROVE  /\ DOMAIN X!Restrict(f, S) = S
           /\ \A k \in S : X!Restrict(f, S)[k] = f[k]
           /\ \A Images : Table(f, Images) /\ S \subseteq DOMAIN f => Table(X!Restrict(f, S), Images)
BY DEF X!Restrict, Table

LEMMA WithoutTable ==
    ASSUME NEW f, NEW key
    PROVE  /\ DOMAIN X!Without(f, key) = DOMAIN f \ {key}
           /\ \A k \in DOMAIN f \ {key} : X!Without(f, key)[k] = f[k]
           /\ \A Images : Table(f, Images) => Table(X!Without(f, key), Images)
BY RestrictTable DEF X!Without

LEMMA VariantType ==
    ASSUME ExportsType, NEW file \in Files
    PROVE  X!variantOf(file) \in Variants /\ Wanted(file) \in Contents
BY DEF ExportsType, X!variantOf, Variants, Wanted, Contents

\* The file of a row or of an object, of the right variant, is the one wanted.
LEMMA KeptWanted ==
    ASSUME ExportsInv, FilesTyped, OneKey, NEW file \in Files, X!kept(X!Key(file), X!variantOf(file))
    PROVE  objects[X!Key(file)] = Wanted(file)
<1> DEFINE k == X!Key(file)
<1>1. /\ k \in DOMAIN exported /\ k \in DOMAIN objects
      /\ exported[k].variant = X!variantOf(file) /\ X!Size(objects[k]) = exported[k].size
  BY DEF X!kept
<1>2. objects[k] \in Contents /\ exported[k] \in [of : Files, variant : Variants, size : BOOLEAN]
  BY <1>1 DEF ExportsInv, ExportsType, Table, RowRecord
<1>3. objects[k].of = file
  BY <1>1, <1>2, KeyOne DEF ExportsInv, ObjectsOK, Contents
<1>4. objects[k].variant # "" <=> exported[k].variant # ""
  BY <1>1, <1>2 DEF ExportsInv, RowsOK, RowOK, X!Size
<1>5. objects[k].variant = X!variantOf(file)
  <2>1. objects[k].variant \in Recipients \cup {""} /\ exported[k].variant \in Recipients \cup {""}
    BY <1>2 DEF Contents, Variants
  <2> QED
    BY <1>1, <1>4, <2>1 DEF OneKey
<1> QED
  BY <1>2, <1>3, <1>5 DEF Wanted, Contents

-----------------------------------------------------------------------------
(* The answer of a build. *)

Told(c, answer, content) ==
    [X!Idle EXCEPT !.answer = answer, !.file = asker[c].file, !.got = content]

LEMMA LandTypes ==
    ASSUME ExportsType, NEW key \in X!Keys,
           NEW answer \in {"missing", "file", "refused", "unavailable"},
           NEW content \in Contents \cup {X!NoContent}, X!Land(key, answer, content)
    PROVE  /\ Table(builds', FlightRecord) /\ DOMAIN builds' = DOMAIN builds \ {key}
           /\ \A k \in DOMAIN builds \ {key} : builds'[k] = builds[k]
           /\ asker' \in [Askers -> CallerRecord]
           /\ \A c \in Askers :
                 \/ asker'[c] = asker[c]
                 \/ /\ asker[c].pc = "wait" /\ X!Key(asker[c].file) = key
                    /\ asker'[c] = Told(c, answer, content)
<1>1. /\ Table(builds', FlightRecord) /\ DOMAIN builds' = DOMAIN builds \ {key}
      /\ \A k \in DOMAIN builds \ {key} : builds'[k] = builds[k]
  BY WithoutTable DEF X!Land, ExportsType
<1>2. ASSUME NEW c \in Askers
      PROVE  Told(c, answer, content) \in CallerRecord
  <2>1. asker[c].file \in Files \cup {X!NoFile}
    BY DEF ExportsType, CallerRecord
  <2> QED
    BY <2>1 DEF Told, X!Idle, CallerRecord, Variants
<1>3. \A c \in Askers : asker[c] \in CallerRecord
  BY DEF ExportsType
<1> QED
  BY <1>1, <1>2, <1>3 DEF X!Land, Told

\* Everyone who waited for the key is told the truth.
LEMMA LandCallers ==
    ASSUME ExportsType, CallersOK, NEW key \in X!Keys,
           NEW answer \in {"missing", "file", "refused", "unavailable"},
           NEW content \in Contents \cup {X!NoContent}, X!Land(key, answer, content),
           recipient' = recipient, faults \subseteq faults',
           answer = "unavailable" => key \in faults',
           answer = "file" => \A file \in Files : X!Key(file) = key => content = Wanted(file)
    PROVE  CallersOK'
<1> SUFFICES ASSUME NEW c \in Askers PROVE CallerOK(c)'
  BY DEF CallersOK
<1>1. CallerOK(c) /\ \A file : X!variantOf(file)' = X!variantOf(file) /\ Wanted(file)' = Wanted(file)
  BY DEF CallersOK, X!variantOf, Wanted
<1>2. CASE asker'[c] = asker[c]
  BY <1>1, <1>2 DEF CallerOK
<1>3. CASE /\ asker[c].pc = "wait" /\ X!Key(asker[c].file) = key
           /\ asker'[c] = Told(c, answer, content)
  <2>1. /\ asker'[c].pc = "idle" /\ asker'[c].answer = answer
        /\ asker'[c].file = asker[c].file /\ asker'[c].got = content
    BY <1>3 DEF Told, X!Idle
  <2>2. asker[c].file \in Files
    BY <1>1, <1>3 DEF CallerOK
  <2> QED
    BY <1>1, <1>3, <2>1, <2>2 DEF CallerOK
<1>4. \/ asker'[c] = asker[c]
      \/ /\ asker[c].pc = "wait" /\ X!Key(asker[c].file) = key
         /\ asker'[c] = Told(c, answer, content)
  BY DEF X!Land, Told
<1> QED
  BY <1>2, <1>3, <1>4

LEMMA AtType ==
    ASSUME ExportsType, NEW key \in DOMAIN builds
    PROVE  builds[key] \in FlightRecord /\ key \in X!Keys
BY DEF ExportsType, Table

LEMMA StepTypes ==
    ASSUME ExportsType, NEW key \in DOMAIN builds,
           NEW pc \in {"kept", "export", "revive", "put", "keep"}, X!Step(key, pc)
    PROVE  /\ Table(builds', FlightRecord) /\ DOMAIN builds' = DOMAIN builds
           /\ builds'[key] = [builds[key] EXCEPT !.pc = pc]
           /\ \A k \in DOMAIN builds \ {key} : builds'[k] = builds[k]
           /\ asker' = asker
<1>1. builds[key] \in FlightRecord
  BY AtType
<1>2. [builds[key] EXCEPT !.pc = pc] \in FlightRecord
  BY <1>1 DEF FlightRecord
<1> QED
  BY <1>2 DEF X!Step, ExportsType, Table

-----------------------------------------------------------------------------
(* Types. *)

LEMMA TypeInit ==
    ASSUME X!Init
    PROVE  ExportsType
<1>1. /\ Table(exported, RowRecord) /\ Table(objects, Contents) /\ Table(builds, FlightRecord)
  BY EmptyTable DEF X!Init
<1> QED
  BY <1>1 DEF X!Init, ExportsType, X!Idle, CallerRecord, Variants

LEMMA TypeStep ==
    ASSUME ExportsInv, [X!Next]_(X!vars)
    PROVE  ExportsType'
<1>1. ExportsType
  BY DEF ExportsInv
<1>2. CASE UNCHANGED X!vars
  BY <1>1, <1>2 DEF X!vars, ExportsType, Table
<1>3. ASSUME NEW c \in Askers, X!File(c) PROVE ExportsType'
  <2>1. PICK file \in Files :
           asker' = [asker EXCEPT ![c] =
             IF X!Source(file) \notin present THEN [X!Idle EXCEPT !.answer = "missing"]
             ELSE IF X!kept(X!Key(file), X!variantOf(file))
             THEN [X!Idle EXCEPT !.answer = "file", !.file = file, !.got = objects[X!Key(file)]]
             ELSE [X!Idle EXCEPT !.pc = "join", !.file = file, !.variant = X!variantOf(file)]]
    BY <1>3 DEF X!File
  <2>2. X!kept(X!Key(file), X!variantOf(file)) => objects[X!Key(file)] \in Contents
    BY <1>1 DEF ExportsType, Table, X!kept
  <2>3. X!variantOf(file) \in Variants
    BY <1>1, VariantType
  <2>4. asker' \in [Askers -> CallerRecord]
    BY <1>1, <2>1, <2>2, <2>3 DEF ExportsType, CallerRecord, X!Idle, Variants
  <2> QED
    BY <1>1, <1>3, <2>4 DEF ExportsType, Table, X!File
<1>4. ASSUME NEW c \in Askers, X!Join(c) PROVE ExportsType'
  <2> DEFINE key == X!Key(asker[c].file)
             new == [pc |-> "kept", file |-> asker[c].file, variant |-> asker[c].variant,
                     made |-> X!NoContent]
  <2>1. asker[c] \in CallerRecord /\ asker[c].file \in Files
    BY <1>1, <1>4 DEF ExportsType, X!Join, ExportsInv, CallersOK, CallerOK
  <2>2. asker' \in [Askers -> CallerRecord]
    BY <1>1, <1>4 DEF ExportsType, X!Join, CallerRecord
  <2>3. key \in X!Keys /\ new \in FlightRecord
    BY <2>1 DEF FlightRecord, CallerRecord, X!Keys
  <2>4. builds' = builds \/ builds' = X!With(builds, key, new)
    BY <1>4 DEF X!Join
  <2>5. Table(builds', FlightRecord)
    <3>1. Table(builds, FlightRecord)
      BY <1>1 DEF ExportsType
    <3>2. Table(X!With(builds, key, new), FlightRecord)
      <4> HIDE DEF key, new
      <4> QED
        BY <2>3, <3>1, WithTyped
    <3> QED
      BY <2>4, <3>1, <3>2
  <2> QED
    BY <1>1, <1>4, <2>2, <2>5 DEF ExportsType, Table, X!Join
<1>5. ASSUME NEW c \in Askers, X!Leave(c) PROVE ExportsType'
  <2>1. asker' \in [Askers -> CallerRecord]
    BY <1>1, <1>5 DEF ExportsType, X!Leave, CallerRecord, X!Idle, Variants
  <2> QED
    BY <1>1, <1>5, <2>1 DEF ExportsType, Table, X!Leave
<1>6. ASSUME NEW key \in X!Keys, X!BuildKept(key) PROVE ExportsType'
  <2>1. key \in DOMAIN builds
    BY <1>6 DEF X!BuildKept, X!At
  <2>2. CASE X!kept(key, builds[key].variant) /\ X!Land(key, "file", objects[key])
    <3>1. objects[key] \in Contents
      BY <1>1, <2>2 DEF ExportsType, Table, X!kept
    <3> QED
      BY <1>1, <1>6, <2>2, <3>1, LandTypes DEF ExportsType, Table, X!BuildKept
  <2>3. CASE X!Step(key, "export")
    BY <1>1, <1>6, <2>1, <2>3, StepTypes DEF ExportsType, Table, X!BuildKept
  <2> QED
    BY <1>6, <2>2, <2>3 DEF X!BuildKept
<1>7. ASSUME NEW key \in X!Keys, X!Export(key) PROVE ExportsType'
  <2>1. key \in DOMAIN builds
    BY <1>7 DEF X!Export, X!At
  <2>2. CASE X!Land(key, "refused", X!NoContent) /\ UNCHANGED made
    <3>1. Table(builds', FlightRecord) /\ asker' \in [Askers -> CallerRecord]
      BY <1>1, <2>2, LandTypes
    <3> QED
      BY <1>1, <1>7, <2>2, <3>1 DEF ExportsType, Table, X!Export
  <2>3. CASE /\ builds' = [builds EXCEPT ![key].pc = "revive",
                  ![key].made = [of |-> builds[key].file, variant |-> X!variantOf(builds[key].file)]]
             /\ made' = [made EXCEPT ![key] = @ + 1]
             /\ UNCHANGED asker
    <3>1. builds[key] \in FlightRecord
      BY <1>1, <2>1, AtType
    <3>2. Wanted(builds[key].file) \in Contents
      BY <1>1, <3>1, VariantType DEF FlightRecord
    <3>3. Table(builds', FlightRecord)
      BY <1>1, <2>1, <2>3, <3>1, <3>2 DEF ExportsType, Table, FlightRecord, Wanted
    <3>4. made' \in [X!Keys -> Nat]
      BY <1>1, <2>3 DEF ExportsType
    <3> QED
      BY <1>1, <1>7, <2>3, <3>3, <3>4 DEF ExportsType, Table, X!Export
  <2> QED
    BY <1>7, <2>2, <2>3 DEF X!Export
<1>8. ASSUME NEW key \in X!Keys, X!Revive(key) PROVE ExportsType'
  BY <1>1, <1>8, StepTypes DEF ExportsType, Table, X!Revive, X!At
<1>9. ASSUME NEW key \in X!Keys, X!Put(key) PROVE ExportsType'
  <2>1. key \in DOMAIN builds /\ builds[key].pc = "put"
    BY <1>9 DEF X!Put, X!At
  <2>2. builds[key].made \in Contents
    <3>1. builds[key].file \in Files /\ builds[key].made = Wanted(builds[key].file)
      BY <1>1, <2>1, AtType DEF FlightRecord, ExportsInv, FlightsOK, FlightOK
    <3> QED
      BY <1>1, <3>1, VariantType
  <2>3. Table(objects', Contents)
    BY <1>1, <1>9, <2>2, WithTyped DEF ExportsType, X!Put
  <2> QED
    BY <1>1, <1>9, <2>1, <2>3, StepTypes DEF ExportsType, Table, X!Put
<1>10. ASSUME NEW key \in X!Keys, X!KeepExport(key) PROVE ExportsType'
  <2>1. key \in DOMAIN builds /\ builds[key] \in FlightRecord
    BY <1>1, <1>10, AtType DEF X!KeepExport, X!At
  <2>2. CASE /\ exported' = X!With(exported, key, [of |-> builds[key].file, variant |-> builds[key].variant,
                                         size |-> X!Size(builds[key].made)])
             /\ X!Land(key, "file", builds[key].made)
    <3>1. [of |-> builds[key].file, variant |-> builds[key].variant,
           size |-> X!Size(builds[key].made)] \in RowRecord
      BY <2>1 DEF FlightRecord, RowRecord, X!Size
    <3>2. Table(exported', RowRecord)
      <4> DEFINE new == [of |-> builds[key].file, variant |-> builds[key].variant,
                         size |-> X!Size(builds[key].made)]
      <4>1. Table(exported, RowRecord) /\ new \in RowRecord /\ exported' = X!With(exported, key, new)
        BY <1>1, <2>2, <3>1 DEF ExportsType
      <4> HIDE DEF new
      <4> QED
        BY <4>1, WithTyped
    <3>3. builds[key].made \in Contents \cup {X!NoContent}
      BY <2>1 DEF FlightRecord
    <3> QED
      BY <1>1, <1>10, <2>2, <3>2, <3>3, LandTypes DEF ExportsType, Table, X!KeepExport
  <2>3. CASE X!Land(key, "missing", X!NoContent) /\ UNCHANGED exported
    BY <1>1, <1>10, <2>3, LandTypes DEF ExportsType, Table, X!KeepExport
  <2> QED
    BY <1>10, <2>2, <2>3 DEF X!KeepExport
<1>11. ASSUME NEW key \in X!Keys, X!Fails(key) PROVE ExportsType'
  <2>1. made' \in [X!Keys -> Nat] /\ faults' \subseteq X!Keys
    BY <1>1, <1>11 DEF ExportsType, X!Fails
  <2> QED
    <3>1. Table(builds', FlightRecord) /\ asker' \in [Askers -> CallerRecord]
      BY <1>1, <1>11, LandTypes DEF X!Fails
    <3> QED
      BY <1>1, <1>11, <2>1, <3>1 DEF ExportsType, Table, X!Fails
<1>12. ASSUME NEW key \in X!Keys, X!Sweep(key) PROVE ExportsType'
  <2>1. Table(objects', Contents)
    BY <1>1, <1>12, WithoutTable DEF ExportsType, X!Sweep
  <2> QED
    BY <1>1, <1>12, <2>1 DEF ExportsType, Table, X!Sweep
<1>13. ASSUME NEW source \in X!Sources, X!Remove(source) PROVE ExportsType'
  <2>1. Table(exported', RowRecord)
    BY <1>1, <1>13, RestrictTable DEF ExportsType, X!Remove
  <2> QED
    BY <1>1, <1>13, <2>1 DEF ExportsType, Table, X!Remove
<1>14. CASE X!Restart
  <2>1. /\ recipient' \in Recipients /\ Table(builds', FlightRecord)
        /\ asker' \in [Askers -> CallerRecord] /\ made' \in [X!Keys -> Nat] /\ faults' = {}
    <3>1. X!Idle \in CallerRecord
      BY DEF X!Idle, CallerRecord, Variants
    <3> QED
      BY <1>14, <3>1, EmptyTable DEF X!Restart
  <2> QED
    BY <1>1, <1>14, <2>1 DEF ExportsType, Table, X!Restart
<1> QED
  BY <1>2, <1>3, <1>4, <1>5, <1>6, <1>7, <1>8, <1>9, <1>10, <1>11, <1>12, <1>13, <1>14
  DEF X!Next, X!Turn, X!Build

-----------------------------------------------------------------------------
(* The store and the rows. *)

LEMMA RowsStep ==
    ASSUME ExportsInv, [X!Next]_(X!vars)
    PROVE  RowsOK'
<1>1. CASE UNCHANGED <<exported, present>>
  BY <1>1 DEF ExportsInv, RowsOK, RowOK
<1>2. ASSUME NEW key \in X!Keys, X!KeepExport(key) PROVE RowsOK'
  <2>1. key \in DOMAIN builds /\ builds[key] \in FlightRecord /\ FlightOK(key) /\ builds[key].pc = "keep"
    BY <1>2, AtType DEF X!KeepExport, X!At, ExportsInv, FlightsOK
  <2>2. CASE UNCHANGED exported
    BY <1>1, <1>2, <2>2 DEF X!KeepExport
  <2>3. CASE /\ X!Source(builds[key].file) \in present
             /\ exported' = X!With(exported, key, [of |-> builds[key].file, variant |-> builds[key].variant,
                                         size |-> X!Size(builds[key].made)])
    <3>1. exported'[key].of = builds[key].file /\ exported'[key].variant = builds[key].variant
      BY <2>3 DEF X!With
    <3>2. exported'[key].size <=> exported'[key].variant # ""
      <4>1. exported'[key] = [of |-> builds[key].file, variant |-> builds[key].variant,
                          size |-> X!Size(builds[key].made)]
        BY <2>3 DEF X!With
      <4>2. builds[key].made.variant = builds[key].variant
        BY <2>1 DEF FlightOK, Wanted
      <4>3. CASE X!Size(builds[key].made)
        <5>1. exported'[key].size
          BY <4>1, <4>3
        <5> QED
          BY <3>1, <4>2, <4>3, <5>1 DEF X!Size
      <4>4. CASE ~X!Size(builds[key].made)
        <5>1. ~exported'[key].size
          BY <4>1, <4>4
        <5> QED
          BY <3>1, <4>2, <4>4, <5>1 DEF X!Size
      <4> QED
        BY <4>3, <4>4
    <3>3. RowOK(key)'
      BY <1>2, <2>1, <2>3, <3>1, <3>2 DEF RowOK, FlightOK, X!KeepExport
    <3>4. ASSUME NEW k \in DOMAIN exported', k # key PROVE RowOK(k)'
      <4>1. k \in DOMAIN exported /\ exported'[k] = exported[k]
        BY <2>3, <3>4 DEF X!With
      <4> QED
        BY <1>2, <4>1 DEF ExportsInv, RowsOK, RowOK, X!KeepExport
    <3> QED
      BY <3>3, <3>4 DEF RowsOK
  <2> QED
    BY <1>2, <2>2, <2>3 DEF X!KeepExport
<1>3. ASSUME NEW source \in X!Sources, X!Remove(source) PROVE RowsOK'
  <2> SUFFICES ASSUME NEW k \in DOMAIN exported' PROVE RowOK(k)'
    BY DEF RowsOK
  <2>1. k \in DOMAIN exported /\ exported'[k] = exported[k] /\ X!Source(exported[k].of) # source
    BY <1>3, RestrictTable DEF X!Remove
  <2> QED
    BY <1>3, <2>1 DEF ExportsInv, RowsOK, RowOK, X!Remove
<1> QED
  BY <1>1, <1>2, <1>3
  DEF X!Next, X!Turn, X!Build, X!File, X!Join, X!Leave, X!BuildKept, X!Export, X!Revive, X!Put,
       X!Fails, X!Sweep, X!Restart, X!vars

LEMMA ObjectsStep ==
    ASSUME ExportsInv, [X!Next]_(X!vars)
    PROVE  ObjectsOK'
<1>1. CASE UNCHANGED objects
  BY <1>1 DEF ExportsInv, ObjectsOK
<1>2. ASSUME NEW key \in X!Keys, X!Put(key) PROVE ObjectsOK'
  <2>1. key \in DOMAIN builds /\ FlightOK(key) /\ builds[key].pc = "put"
    BY <1>2 DEF X!Put, X!At, ExportsInv, FlightsOK
  <2>2. builds[key].made.of = builds[key].file /\ X!Key(builds[key].file) = key
    BY <2>1 DEF FlightOK, Wanted
  <2> SUFFICES ASSUME NEW k \in DOMAIN objects' PROVE X!Key(objects'[k].of) = k
    BY DEF ObjectsOK
  <2>3. objects' = X!With(objects, key, builds[key].made)
    BY <1>2 DEF X!Put
  <2>4. CASE k = key
    BY <2>2, <2>3, <2>4 DEF X!With
  <2>5. CASE k # key
    BY <2>3, <2>5 DEF X!With, ExportsInv, ObjectsOK
  <2> QED
    BY <2>4, <2>5
<1>3. ASSUME NEW key \in X!Keys, X!Sweep(key) PROVE ObjectsOK'
  <2>1. \A k \in DOMAIN objects' : k \in DOMAIN objects /\ objects'[k] = objects[k]
    BY <1>3 DEF X!Sweep, X!Without, X!Restrict
  <2> QED
    BY <2>1 DEF ExportsInv, ObjectsOK
<1> QED
  BY <1>1, <1>2, <1>3
  DEF X!Next, X!Turn, X!Build, X!File, X!Join, X!Leave, X!BuildKept, X!Export, X!Revive,
       X!KeepExport, X!Fails, X!Remove, X!Restart, X!vars

-----------------------------------------------------------------------------
(* The builds. *)

LEMMA VariantStays ==
    ASSUME recipient' = recipient
    PROVE  \A file : X!variantOf(file)' = X!variantOf(file) /\ Wanted(file)' = Wanted(file)
BY DEF X!variantOf, Wanted

LEMMA FlightStays ==
    ASSUME recipient' = recipient, NEW k \in DOMAIN builds, FlightOK(k), builds'[k] = builds[k],
           builds[k].pc = "keep" /\ k \in DOMAIN objects => k \in DOMAIN objects' /\ objects'[k] = objects[k]
    PROVE  FlightOK(k)'
BY VariantStays DEF FlightOK

LEMMA FlightsLand ==
    ASSUME ExportsType, FlightsOK, recipient' = recipient, objects' = objects, NEW key \in X!Keys,
           NEW answer, NEW content, X!Land(key, answer, content)
    PROVE  FlightsOK'
<1>1. DOMAIN builds' = DOMAIN builds \ {key} /\ \A k \in DOMAIN builds' : builds'[k] = builds[k]
  BY WithoutTable DEF X!Land
<1> QED
  BY <1>1, FlightStays DEF FlightsOK

LEMMA FlightsStep ==
    ASSUME ExportsInv, [X!Next]_(X!vars)
    PROVE  FlightsOK'
<1>1. ExportsType /\ FlightsOK
  BY DEF ExportsInv
<1>2. CASE UNCHANGED <<builds, recipient, objects>>
  BY <1>1, <1>2, FlightStays DEF FlightsOK
<1>3. ASSUME NEW c \in Askers, X!Join(c) PROVE FlightsOK'
  <2>1. CASE builds' = builds
    BY <1>2, <1>3, <2>1 DEF X!Join
  <2>2. ASSUME NEW key, NEW new, key = X!Key(asker[c].file), builds' = X!With(builds, key, new),
               new = [pc |-> "kept", file |-> asker[c].file, variant |-> asker[c].variant,
                      made |-> X!NoContent]
        PROVE  FlightsOK'
    <3>1. DOMAIN builds' = DOMAIN builds \cup {key} /\ builds'[key] = new
          /\ \A k \in DOMAIN builds : k # key => builds'[k] = builds[k]
      BY <2>2 DEF X!With
    <3>2. FlightOK(key)'
      <4>1. asker[c].variant = X!variantOf(asker[c].file)
        BY <1>3 DEF X!Join, ExportsInv, CallersOK, CallerOK
      <4> QED
        BY <1>3, <2>2, <3>1, <4>1, VariantStays DEF FlightOK, X!Join
    <3>3. ASSUME NEW k \in DOMAIN builds, k # key PROVE FlightOK(k)'
      BY <1>1, <1>3, <3>1, <3>3, FlightStays DEF FlightsOK, X!Join
    <3> QED
      BY <3>1, <3>2, <3>3 DEF FlightsOK
  <2> QED
    BY <1>3, <2>1, <2>2 DEF X!Join
<1>4. ASSUME NEW key \in DOMAIN builds, NEW pc \in {"export", "put", "keep"}, X!Step(key, pc),
             recipient' = recipient,
             \A k \in DOMAIN objects \ {key} : k \in DOMAIN objects' /\ objects'[k] = objects[k],
             pc \in {"put", "keep"} => builds[key].pc \in {"revive", "put"},
             pc = "keep" => key \in DOMAIN objects' /\ objects'[key] = builds[key].made
      PROVE  FlightsOK'
  <2>1. builds[key] \in FlightRecord /\ FlightOK(key)
    BY <1>1, AtType DEF FlightsOK
  <2>2. /\ DOMAIN builds' = DOMAIN builds /\ builds'[key] = [builds[key] EXCEPT !.pc = pc]
        /\ \A k \in DOMAIN builds \ {key} : builds'[k] = builds[k]
    BY <1>1, <1>4, StepTypes
  <2>3. /\ builds'[key].pc = pc /\ builds'[key].file = builds[key].file
        /\ builds'[key].variant = builds[key].variant /\ builds'[key].made = builds[key].made
    BY <2>1, <2>2 DEF FlightRecord
  <2>4. FlightOK(key)'
    BY <1>4, <2>1, <2>3, VariantStays DEF FlightOK
  <2>5. ASSUME NEW k \in DOMAIN builds, k # key PROVE FlightOK(k)'
    BY <1>1, <1>4, <2>2, <2>5, FlightStays DEF FlightsOK
  <2> QED
    BY <2>2, <2>4, <2>5 DEF FlightsOK
<1>5. ASSUME NEW key \in X!Keys, X!BuildKept(key) PROVE FlightsOK'
  <2>1. CASE X!Land(key, "file", objects[key])
    BY <1>1, <1>5, <2>1, FlightsLand DEF X!BuildKept
  <2>2. CASE X!Step(key, "export")
    BY <1>4, <1>5, <2>2 DEF X!BuildKept, X!At
  <2> QED
    BY <1>5, <2>1, <2>2 DEF X!BuildKept
<1>6. ASSUME NEW key \in X!Keys, X!Export(key) PROVE FlightsOK'
  <2>1. CASE X!Land(key, "refused", X!NoContent)
    BY <1>1, <1>6, <2>1, FlightsLand DEF X!Export
  <2>2. CASE builds' = [builds EXCEPT ![key].pc = "revive",
               ![key].made = [of |-> builds[key].file, variant |-> X!variantOf(builds[key].file)]]
    <3>1. key \in DOMAIN builds /\ builds[key] \in FlightRecord /\ FlightOK(key)
      BY <1>1, <1>6, AtType DEF X!Export, X!At, FlightsOK
    <3>2. /\ DOMAIN builds' = DOMAIN builds
          /\ builds'[key].pc = "revive" /\ builds'[key].file = builds[key].file
          /\ builds'[key].variant = builds[key].variant
          /\ builds'[key].made = Wanted(builds[key].file)
          /\ \A k \in DOMAIN builds \ {key} : builds'[k] = builds[k]
      BY <2>2, <3>1 DEF FlightRecord, Wanted
    <3>3. FlightOK(key)'
      BY <1>6, <3>1, <3>2, VariantStays DEF FlightOK, X!Export
    <3>4. ASSUME NEW k \in DOMAIN builds, k # key PROVE FlightOK(k)'
      BY <1>1, <1>6, <3>2, <3>4, FlightStays DEF FlightsOK, X!Export
    <3> QED
      BY <3>2, <3>3, <3>4 DEF FlightsOK
  <2> QED
    BY <1>6, <2>1, <2>2 DEF X!Export
<1>7. ASSUME NEW key \in X!Keys, X!Revive(key) PROVE FlightsOK'
  BY <1>4, <1>7 DEF X!Revive, X!At
<1>8. ASSUME NEW key \in X!Keys, X!Put(key) PROVE FlightsOK'
  <2>1. objects' = X!With(objects, key, builds[key].made)
    BY <1>8 DEF X!Put
  <2>2. /\ key \in DOMAIN objects' /\ objects'[key] = builds[key].made
        /\ \A k \in DOMAIN objects \ {key} : k \in DOMAIN objects' /\ objects'[k] = objects[k]
    BY <2>1 DEF X!With
  <2> QED
    BY <1>4, <1>8, <2>2 DEF X!Put, X!At
<1>9. ASSUME NEW key \in X!Keys, X!KeepExport(key) PROVE FlightsOK'
  <2>1. X!Land(key, "file", builds[key].made) \/ X!Land(key, "missing", X!NoContent)
    BY <1>9 DEF X!KeepExport
  <2> QED
    BY <1>1, <1>9, <2>1, FlightsLand DEF X!KeepExport
<1>10. ASSUME NEW key \in X!Keys, X!Fails(key) PROVE FlightsOK'
  BY <1>1, <1>10, FlightsLand DEF X!Fails
<1>11. ASSUME NEW key \in X!Keys, X!Sweep(key) PROVE FlightsOK'
  <2>1. \A k \in DOMAIN objects \ {key} : k \in DOMAIN objects' /\ objects'[k] = objects[k]
    BY <1>11, WithoutTable DEF X!Sweep
  <2>2. ASSUME NEW k \in DOMAIN builds PROVE FlightOK(k)'
    <3>1. builds[k].pc = "keep" => k # key
      BY <1>11 DEF X!Sweep, X!At
    <3> QED
      BY <1>1, <1>11, <2>1, <3>1, FlightStays DEF FlightsOK, X!Sweep
  <2> QED
    BY <1>11, <2>2 DEF FlightsOK, X!Sweep
<1>12. CASE X!Restart
  <2>1. DOMAIN builds' = {}
    BY <1>12, EmptyTable DEF X!Restart
  <2> QED
    BY <2>1 DEF FlightsOK
<1> QED
  BY <1>2, <1>3, <1>5, <1>6, <1>7, <1>8, <1>9, <1>10, <1>11, <1>12
  DEF X!Next, X!Turn, X!Build, X!File, X!Leave, X!Remove, X!vars

-----------------------------------------------------------------------------
(* The callers. *)

LEMMA CallerStays ==
    ASSUME recipient' = recipient, faults \subseteq faults', NEW c \in Askers, CallerOK(c),
           asker'[c] = asker[c]
    PROVE  CallerOK(c)'
BY VariantStays DEF CallerOK

LEMMA CallersStep ==
    ASSUME FilesTyped, OneKey, ExportsInv, [X!Next]_(X!vars)
    PROVE  CallersOK'
<1>1. ExportsType /\ CallersOK /\ \A c \in Askers : asker[c] \in CallerRecord
  BY DEF ExportsInv, ExportsType
<1>2. CASE UNCHANGED <<asker, recipient, faults>>
  BY <1>1, <1>2, CallerStays DEF CallersOK
<1>3. ASSUME NEW c \in Askers, NEW new \in CallerRecord, asker' = [asker EXCEPT ![c] = new],
             recipient' = recipient, faults' = faults,
             new.pc # "idle" =>
                new.file \in Files /\ new.variant = X!variantOf(new.file) /\ new.answer = "none",
             new.answer = "file" => new.got = Wanted(new.file),
             new.answer # "unavailable"
      PROVE  CallersOK'
  <2>1. asker'[c] = new /\ \A o \in Askers \ {c} : asker'[o] = asker[o]
    BY <1>1, <1>3 DEF ExportsType
  <2>2. CallerOK(c)'
    BY <1>3, <2>1, VariantStays DEF CallerOK
  <2>3. ASSUME NEW o \in Askers, o # c PROVE CallerOK(o)'
    BY <1>1, <1>3, <2>1, <2>3, CallerStays DEF CallersOK
  <2> QED
    BY <2>2, <2>3 DEF CallersOK
<1>4. ASSUME NEW c \in Askers, X!File(c) PROVE CallersOK'
  <2>1. PICK file \in Files :
           asker' = [asker EXCEPT ![c] =
             IF X!Source(file) \notin present THEN [X!Idle EXCEPT !.answer = "missing"]
             ELSE IF X!kept(X!Key(file), X!variantOf(file))
             THEN [X!Idle EXCEPT !.answer = "file", !.file = file, !.got = objects[X!Key(file)]]
             ELSE [X!Idle EXCEPT !.pc = "join", !.file = file, !.variant = X!variantOf(file)]]
    BY <1>4 DEF X!File
  <2>2. Wanted(file) \in Contents /\ X!variantOf(file) \in Variants
    BY <1>1, VariantType
  <2>3. recipient' = recipient /\ faults' = faults
    BY <1>4 DEF X!File
  <2>4. CASE asker' = [asker EXCEPT ![c] = [X!Idle EXCEPT !.answer = "missing"]]
    <3> DEFINE new == [X!Idle EXCEPT !.answer = "missing"]
    <3>1. new \in CallerRecord /\ new.pc = "idle" /\ new.answer = "missing"
      BY DEF X!Idle, CallerRecord, Variants
    <3> QED
      BY <1>3, <2>3, <2>4, <3>1
  <2>5. CASE /\ X!kept(X!Key(file), X!variantOf(file))
             /\ asker' = [asker EXCEPT ![c] =
                  [X!Idle EXCEPT !.answer = "file", !.file = file, !.got = objects[X!Key(file)]]]
    <3> DEFINE new == [X!Idle EXCEPT !.answer = "file", !.file = file, !.got = objects[X!Key(file)]]
    <3>1. objects[X!Key(file)] = Wanted(file)
      BY <2>5, KeptWanted
    <3>2. new \in CallerRecord
      BY <2>2, <3>1 DEF X!Idle, CallerRecord, Variants
    <3>3. new.pc = "idle" /\ new.answer = "file" /\ new.file = file /\ new.got = Wanted(file)
      BY <3>1 DEF X!Idle
    <3> QED
      BY <1>3, <2>3, <2>5, <3>2, <3>3
  <2>6. CASE asker' = [asker EXCEPT ![c] =
                  [X!Idle EXCEPT !.pc = "join", !.file = file, !.variant = X!variantOf(file)]]
    <3> DEFINE new == [X!Idle EXCEPT !.pc = "join", !.file = file, !.variant = X!variantOf(file)]
    <3>1. new \in CallerRecord
      BY <2>2 DEF X!Idle, CallerRecord
    <3>2. new.pc = "join" /\ new.answer = "none" /\ new.file = file /\ new.variant = X!variantOf(file)
      BY DEF X!Idle
    <3> QED
      BY <1>3, <2>3, <2>6, <3>1, <3>2
  <2> QED
    BY <2>1, <2>4, <2>5, <2>6
<1>5. ASSUME NEW c \in Askers, X!Join(c) PROVE CallersOK'
  <2> DEFINE new == [asker[c] EXCEPT !.pc = "wait"]
  <2>1. CallerOK(c) /\ asker[c] \in CallerRecord /\ asker[c].pc = "join"
    BY <1>1, <1>5 DEF CallersOK, X!Join
  <2>2. /\ new \in CallerRecord /\ new.file = asker[c].file /\ new.variant = asker[c].variant
        /\ new.answer = asker[c].answer
    BY <2>1 DEF CallerRecord
  <2>3. new.file \in Files /\ new.variant = X!variantOf(new.file) /\ new.answer = "none"
    BY <2>1, <2>2 DEF CallerOK
  <2>4. asker' = [asker EXCEPT ![c] = new] /\ recipient' = recipient /\ faults' = faults
    BY <1>5 DEF X!Join
  <2> HIDE DEF new
  <2> QED
    BY <1>3, <2>2, <2>3, <2>4
<1>6. ASSUME NEW c \in Askers, X!Leave(c) PROVE CallersOK'
  <2>1. X!Idle \in CallerRecord /\ X!Idle.pc = "idle" /\ X!Idle.answer = "none"
    BY DEF X!Idle, CallerRecord, Variants
  <2> QED
    BY <1>3, <1>6, <2>1 DEF X!Leave
<1>7. ASSUME NEW key \in X!Keys, X!BuildKept(key), ~UNCHANGED asker PROVE CallersOK'
  <2>1. X!Land(key, "file", objects[key]) /\ X!kept(key, builds[key].variant)
    BY <1>7 DEF X!BuildKept, X!Step
  <2>2. key \in DOMAIN builds /\ builds[key] \in FlightRecord /\ FlightOK(key)
    BY <1>1, <1>7, AtType DEF X!BuildKept, X!At, ExportsInv, FlightsOK
  <2>3. objects[key] = Wanted(builds[key].file) /\ builds[key].file \in Files
    BY <2>1, <2>2, KeptWanted DEF FlightOK, FlightRecord
  <2>4. \A file \in Files : X!Key(file) = key => objects[key] = Wanted(file)
    BY <2>2, <2>3, KeyOne DEF FlightOK
  <2>5. objects[key] \in Contents
    BY <1>1, <2>3, VariantType
  <2> QED
    BY <1>1, <1>7, <2>1, <2>4, <2>5, LandCallers DEF X!BuildKept
<1>8. ASSUME NEW key \in X!Keys, X!Export(key), ~UNCHANGED asker PROVE CallersOK'
  <2>1. X!Land(key, "refused", X!NoContent)
    BY <1>8 DEF X!Export
  <2> QED
    BY <1>1, <1>8, <2>1, LandCallers DEF X!Export
<1>9. ASSUME NEW key \in X!Keys, X!KeepExport(key) PROVE CallersOK'
  <2>1. /\ key \in DOMAIN builds /\ builds[key] \in FlightRecord /\ FlightOK(key)
        /\ builds[key].pc = "keep"
    BY <1>1, <1>9, AtType DEF X!KeepExport, X!At, ExportsInv, FlightsOK
  <2>2. CASE X!Land(key, "missing", X!NoContent)
    BY <1>1, <1>9, <2>2, LandCallers DEF X!KeepExport
  <2>3. CASE X!Land(key, "file", builds[key].made)
    <3>1. builds[key].made = Wanted(builds[key].file) /\ builds[key].file \in Files
      BY <2>1 DEF FlightOK, FlightRecord
    <3>2. \A file \in Files : X!Key(file) = key => builds[key].made = Wanted(file)
      BY <2>1, <3>1, KeyOne DEF FlightOK
    <3>3. builds[key].made \in Contents
      BY <1>1, <3>1, VariantType
    <3> QED
      BY <1>1, <1>9, <2>3, <3>2, <3>3, LandCallers DEF X!KeepExport
  <2> QED
    BY <1>9, <2>2, <2>3 DEF X!KeepExport
<1>10. ASSUME NEW key \in X!Keys, X!Fails(key) PROVE CallersOK'
  <2>1. X!Land(key, "unavailable", X!NoContent) /\ recipient' = recipient /\ faults' = faults \cup {key}
    BY <1>10 DEF X!Fails
  <2> QED
    BY <1>1, <2>1, LandCallers
<1>11. CASE X!Restart
  <2>1. ASSUME NEW c \in Askers PROVE CallerOK(c)'
    <3>1. asker'[c] = X!Idle
      BY <1>11 DEF X!Restart
    <3>2. X!Idle.pc = "idle" /\ X!Idle.answer = "none"
      BY DEF X!Idle
    <3> QED
      BY <3>1, <3>2 DEF CallerOK
  <2> QED
    BY <2>1 DEF CallersOK
<1>12. ASSUME NEW key \in X!Keys, X!BuildKept(key) \/ X!Export(key), UNCHANGED asker PROVE CallersOK'
  BY <1>2, <1>12 DEF X!BuildKept, X!Export
<1> QED
  BY <1>2, <1>4, <1>5, <1>6, <1>7, <1>8, <1>9, <1>10, <1>11, <1>12
  DEF X!Next, X!Turn, X!Build, X!Revive, X!Put, X!Step, X!Sweep, X!Remove, X!vars

-----------------------------------------------------------------------------
(* What was made. *)

\* The row and the object of a key, as they were.
Same(f, g, k) == (k \in DOMAIN f <=> k \in DOMAIN g) /\ (k \in DOMAIN f => f[k] = g[k])

LEMMA KeptStays ==
    ASSUME recipient' = recipient, NEW file \in Files, X!kept(X!Key(file), X!variantOf(file)),
           Same(exported, exported', X!Key(file)), Same(objects, objects', X!Key(file))
    PROVE  X!kept(X!Key(file), X!variantOf(file))'
BY VariantStays DEF X!kept, Same

LEMMA MadeStays ==
    ASSUME recipient' = recipient, NEW file \in Files, MadeOK(file),
           made'[X!Key(file)] = made[X!Key(file)], Same(builds, builds', X!Key(file)),
           Same(exported, exported', X!Key(file)), Same(objects, objects', X!Key(file))
    PROVE  MadeOK(file)'
<1>1. \A pc : X!At(X!Key(file), pc)' <=> X!At(X!Key(file), pc)
  BY DEF X!At, Same
<1> QED
  BY <1>1, KeptStays DEF MadeOK

\* A step of the build of one key is none of another's.
LEMMA StepSame ==
    ASSUME ExportsType, NEW key \in DOMAIN builds,
           NEW pc \in {"kept", "export", "revive", "put", "keep"}, X!Step(key, pc)
    PROVE  /\ \A k : k # key => Same(builds, builds', k)
           /\ X!At(key, pc)'
<1>1. builds[key] \in FlightRecord
  BY AtType
<1>2. /\ DOMAIN builds' = DOMAIN builds
      /\ builds'[key] = [builds[key] EXCEPT !.pc = pc]
      /\ \A k \in DOMAIN builds \ {key} : builds'[k] = builds[k]
  BY StepTypes
<1>3. \A k : k # key => Same(builds, builds', k)
  BY <1>2 DEF Same
<1>4. X!At(key, pc)'
  BY <1>1, <1>2 DEF X!At, FlightRecord
<1> QED
  BY <1>3, <1>4

LEMMA LandSame ==
    ASSUME NEW key, NEW answer, NEW content, X!Land(key, answer, content)
    PROVE  /\ \A k : k # key => Same(builds, builds', k)
           /\ \A pc : ~X!At(key, pc)'
<1>1. builds' = X!Without(builds, key)
  BY DEF X!Land
<1>2. /\ DOMAIN builds' = DOMAIN builds \ {key}
      /\ \A k \in DOMAIN builds \ {key} : builds'[k] = builds[k]
  BY <1>1 DEF X!Without, X!Restrict
<1> QED
  BY <1>2 DEF Same, X!At

LEMMA MadesStep ==
    ASSUME FilesTyped, ExportsInv, [X!Next]_(X!vars)
    PROVE  MadesOK'
<1> SUFFICES ASSUME NEW file \in Files, X!Source(file) \in present', made'[X!Key(file)] # 0
             PROVE  MadeOK(file)'
  BY DEF MadesOK
<1> DEFINE k == X!Key(file)
<1>1. ExportsType /\ k \in X!Keys /\ \A f : Same(f, f, k)
  BY DEF ExportsInv, X!Keys, Same
<1>2. X!Source(file) \in present /\ made[k] # 0 => MadeOK(file)
  BY DEF ExportsInv, MadesOK
<1>3. k \in DOMAIN builds => FlightOK(k) /\ builds[k].file = file /\ builds[k] \in FlightRecord
  <2>1. ASSUME k \in DOMAIN builds PROVE FlightOK(k) /\ builds[k] \in FlightRecord
    BY <1>1, <2>1, AtType DEF ExportsInv, FlightsOK
  <2> QED
    BY <2>1, KeyOne DEF FlightOK, FlightRecord
<1>4. CASE UNCHANGED <<recipient, present, exported, objects, builds, made>>
  BY <1>1, <1>2, <1>4, MadeStays
<1>5. ASSUME NEW c \in Askers, X!Join(c) PROVE MadeOK(file)'
  <2>1. MadeOK(file)
    BY <1>2, <1>5 DEF X!Join
  <2>2. CASE Same(builds, builds', k)
    BY <1>1, <1>5, <2>1, <2>2, MadeStays DEF X!Join
  <2>3. CASE ~Same(builds, builds', k)
    <3>1. k \notin DOMAIN builds /\ k \in DOMAIN builds' /\ builds'[k].pc = "kept"
      BY <1>5, <2>3 DEF X!Join, X!With, Same
    <3>2. X!kept(k, X!variantOf(file)) /\ ~X!At(k, "export")'
      BY <2>1, <3>1 DEF MadeOK, X!At
    <3> QED
      BY <1>1, <1>5, <2>1, <3>2, KeptStays DEF MadeOK, X!Join
  <2> QED
    BY <2>2, <2>3
<1>6. ASSUME NEW key \in X!Keys, X!BuildKept(key) PROVE MadeOK(file)'
  <2>1. MadeOK(file) /\ recipient' = recipient /\ exported' = exported /\ objects' = objects /\ made' = made
    BY <1>2, <1>6 DEF X!BuildKept
  <2>2. key \in DOMAIN builds /\ builds[key].pc = "kept"
    BY <1>6 DEF X!BuildKept, X!At
  <2>3. CASE key # k
    <3>1. Same(builds, builds', k)
      BY <1>1, <1>6, <2>2, <2>3, StepSame, LandSame DEF X!BuildKept
    <3> QED
      BY <1>1, <2>1, <3>1, MadeStays
  <2>4. CASE key = k
    <3>1. X!kept(k, X!variantOf(file))
      BY <2>1, <2>2, <2>4 DEF MadeOK, X!At
    <3>2. builds[k].variant = X!variantOf(file)
      BY <1>3, <2>2, <2>4 DEF FlightOK
    <3>3. X!Land(k, "file", objects[k])
      BY <1>6, <2>4, <3>1, <3>2 DEF X!BuildKept
    <3>4. ~X!At(k, "export")'
      BY <3>3, LandSame
    <3>5. X!kept(k, X!variantOf(file))'
      BY <1>1, <2>1, <3>1, KeptStays
    <3> QED
      BY <2>1, <3>4, <3>5 DEF MadeOK
  <2> QED
    BY <2>3, <2>4
<1>7. ASSUME NEW key \in X!Keys, X!Export(key) PROVE MadeOK(file)'
  <2>1. /\ recipient' = recipient /\ exported' = exported /\ objects' = objects
        /\ X!Source(file) \in present /\ key \in DOMAIN builds /\ X!At(key, "export")
        /\ \A o \in X!Keys : o # key => made'[o] = made[o]
    BY <1>1, <1>7 DEF X!Export, X!At, ExportsType
  <2>2. CASE key # k
    <3>1. Same(builds, builds', k)
      <4>1. CASE X!Land(key, "refused", X!NoContent)
        BY <2>2, <4>1, LandSame
      <4>2. CASE builds' = [builds EXCEPT ![key].pc = "revive",
               ![key].made = [of |-> builds[key].file, variant |-> X!variantOf(builds[key].file)]]
        BY <2>1, <2>2, <4>2 DEF Same
      <4> QED
        BY <1>7, <4>1, <4>2 DEF X!Export
    <3> QED
      BY <1>1, <1>2, <2>1, <2>2, <3>1, MadeStays
  <2>3. CASE key = k
    <3>1. made[k] = 0
      BY <1>2, <2>1, <2>3 DEF MadeOK, X!At
    <3>2. /\ builds' = [builds EXCEPT ![k].pc = "revive",
                ![k].made = [of |-> builds[k].file, variant |-> X!variantOf(builds[k].file)]]
          /\ made' = [made EXCEPT ![k] = @ + 1]
      BY <1>7, <2>3, <3>1 DEF X!Export
    <3>3. made'[k] = 1
      BY <1>1, <3>1, <3>2 DEF ExportsType
    <3>4. X!At(k, "revive")'
      BY <1>3, <2>1, <2>3, <3>2 DEF X!At, FlightRecord
    <3> QED
      BY <3>3, <3>4 DEF MadeOK
  <2> QED
    BY <2>2, <2>3
<1>8. ASSUME NEW key \in X!Keys, X!Revive(key) PROVE MadeOK(file)'
  <2>1. /\ MadeOK(file) /\ recipient' = recipient /\ exported' = exported /\ objects' = objects /\ made' = made
        /\ key \in DOMAIN builds /\ X!Step(key, "put")
    BY <1>2, <1>8 DEF X!Revive, X!At
  <2>2. CASE key # k
    BY <1>1, <2>1, <2>2, StepSame, MadeStays
  <2>3. CASE key = k
    <3>1. X!At(k, "put")'
      BY <1>1, <2>1, <2>3, StepSame
    <3> QED
      BY <2>1, <3>1 DEF MadeOK
  <2> QED
    BY <2>2, <2>3
<1>9. ASSUME NEW key \in X!Keys, X!Put(key) PROVE MadeOK(file)'
  <2>1. /\ MadeOK(file) /\ recipient' = recipient /\ exported' = exported /\ made' = made
        /\ key \in DOMAIN builds /\ X!Step(key, "keep")
        /\ objects' = X!With(objects, key, builds[key].made)
    BY <1>2, <1>9 DEF X!Put, X!At
  <2>2. CASE key # k
    <3>1. Same(objects, objects', k)
      BY <2>1, <2>2 DEF Same, X!With
    <3> QED
      BY <1>1, <2>1, <2>2, <3>1, StepSame, MadeStays
  <2>3. CASE key = k
    <3>1. X!At(k, "keep")'
      BY <1>1, <2>1, <2>3, StepSame
    <3> QED
      BY <2>1, <3>1 DEF MadeOK
  <2> QED
    BY <2>2, <2>3
<1>10. ASSUME NEW key \in X!Keys, X!KeepExport(key) PROVE MadeOK(file)'
  <2>1. /\ MadeOK(file) /\ recipient' = recipient /\ objects' = objects /\ made' = made
        /\ X!Source(file) \in present
        /\ key \in DOMAIN builds /\ builds[key].pc = "keep"
    BY <1>2, <1>10 DEF X!KeepExport, X!At
  <2>2. /\ \A o : o # key => Same(builds, builds', o)
        /\ \A pc : ~X!At(key, pc)'
    BY <1>10, LandSame DEF X!KeepExport
  <2>3. CASE key # k
    <3>1. Same(exported, exported', k)
      BY <1>1, <1>10, <2>3 DEF X!KeepExport, X!With, Same
    <3> QED
      BY <1>1, <2>1, <2>2, <2>3, <3>1, MadeStays
  <2>4. CASE key = k
    <3>1. /\ k \in DOMAIN objects /\ objects[k] = Wanted(file) /\ builds[k].made = Wanted(file)
          /\ builds[k].variant = X!variantOf(file) /\ builds[k].file = file
      BY <1>3, <2>1, <2>4 DEF FlightOK
    <3>2. exported' = X!With(exported, k, [of |-> file, variant |-> X!variantOf(file), size |-> X!Size(Wanted(file))])
      BY <1>10, <2>1, <2>4, <3>1 DEF X!KeepExport
    <3>3. /\ k \in DOMAIN exported'
          /\ exported'[k] = [of |-> file, variant |-> X!variantOf(file), size |-> X!Size(Wanted(file))]
      BY <3>2 DEF X!With
    <3>4. X!kept(k, X!variantOf(file))'
      <4>1. exported'[k].variant = X!variantOf(file) /\ exported'[k].size = X!Size(Wanted(file))
        BY <3>3
      <4>2. objects'[k] = Wanted(file) /\ k \in DOMAIN objects' /\ X!variantOf(file)' = X!variantOf(file)
        BY <2>1, <3>1, VariantStays
      <4> QED
        BY <3>3, <4>1, <4>2 DEF X!kept
    <3> QED
      BY <2>1, <2>2, <2>4, <3>4 DEF MadeOK
  <2> QED
    BY <2>3, <2>4
<1>11. ASSUME NEW key \in X!Keys, X!Fails(key) PROVE MadeOK(file)'
  <2>1. key # k /\ made'[k] = made[k]
    BY <1>1, <1>11 DEF X!Fails, ExportsType
  <2>2. Same(builds, builds', k)
    BY <1>11, <2>1, LandSame DEF X!Fails
  <2> QED
    BY <1>1, <1>2, <1>11, <2>1, <2>2, MadeStays DEF X!Fails
<1>12. ASSUME NEW key \in X!Keys, X!Sweep(key) PROVE MadeOK(file)'
  <2>1. /\ MadeOK(file) /\ recipient' = recipient /\ exported' = exported /\ builds' = builds /\ made' = made
        /\ objects' = IF key \in DOMAIN exported THEN objects ELSE X!Without(objects, key)
    BY <1>2, <1>12 DEF X!Sweep
  <2>2. CASE key # k \/ key \in DOMAIN exported
    <3>1. Same(objects, objects', k)
      BY <2>1, <2>2 DEF Same, X!Without, X!Restrict
    <3> QED
      BY <1>1, <2>1, <3>1, MadeStays
  <2>3. CASE key = k /\ key \notin DOMAIN exported
    <3>1. X!At(k, "revive")
      BY <1>12, <2>1, <2>3 DEF MadeOK, X!kept, X!Sweep
    <3>2. X!At(k, "revive")'
      BY <2>1, <3>1 DEF X!At
    <3> QED
      BY <2>1, <3>2 DEF MadeOK
  <2> QED
    BY <2>2, <2>3
<1>13. ASSUME NEW source \in X!Sources, X!Remove(source) PROVE MadeOK(file)'
  <2>1. /\ MadeOK(file) /\ recipient' = recipient /\ objects' = objects /\ builds' = builds
        /\ made' = made /\ X!Source(file) # source
    BY <1>2, <1>13 DEF X!Remove
  <2>2. k \in DOMAIN exported => exported[k].of = file
    <3>1. k \in DOMAIN exported => exported[k] \in RowRecord /\ X!Key(exported[k].of) = k
      BY <1>1 DEF ExportsInv, ExportsType, Table, RowsOK, RowOK
    <3> QED
      BY <3>1, KeyOne DEF RowRecord
  <2>3. Same(exported, exported', k)
    BY <1>13, <2>1, <2>2 DEF X!Remove, X!Restrict, Same
  <2> QED
    BY <1>1, <2>1, <2>3, MadeStays
<1>14. CASE X!Restart
  BY <1>1, <1>14 DEF X!Restart
<1> QED
  BY <1>4, <1>5, <1>6, <1>7, <1>8, <1>9, <1>10, <1>11, <1>12, <1>13, <1>14
  DEF X!Next, X!Turn, X!Build, X!File, X!Leave, X!vars

-----------------------------------------------------------------------------
(* The theorems. *)

LEMMA ExportsInvariance == FilesTyped /\ OneKey => (X!Spec => []ExportsInv)
<1> SUFFICES ASSUME FilesTyped, OneKey PROVE X!Spec => []ExportsInv
  OBVIOUS
<1>1. X!Init => ExportsInv
  <2> SUFFICES ASSUME X!Init PROVE ExportsInv
    OBVIOUS
  <2>1. DOMAIN exported = {} /\ DOMAIN objects = {} /\ DOMAIN builds = {}
    BY EmptyTable DEF X!Init
  <2>2. \A c \in Askers : asker[c].pc = "idle" /\ asker[c].answer = "none"
    BY DEF X!Init, X!Idle
  <2>3. \A file \in Files : made[X!Key(file)] = 0
    BY DEF X!Init, X!Keys
  <2> QED
    BY <2>1, <2>2, <2>3, TypeInit
    DEF ExportsInv, RowsOK, ObjectsOK, FlightsOK, CallersOK, CallerOK, MadesOK
<1>2. ExportsInv /\ [X!Next]_(X!vars) => ExportsInv'
  BY TypeStep, RowsStep, ObjectsStep, FlightsStep, CallersStep, MadesStep DEF ExportsInv
<1> QED
  BY <1>1, <1>2, PTL DEF X!Spec

\* A caller is answered with the file it asked for, encrypted to the school's key
\* where one is configured, whatever File finds kept and whichever build answers.
THEOREM OwnFileTheorem == X!Spec => []OwnFile
<1>0. FilesTyped /\ OneKey
  BY ServicesAssumption
<1>1. ExportsInv => X!OwnFile
  BY DEF ExportsInv, CallersOK, CallerOK, X!OwnFile, Wanted
<1> QED
  BY <1>0, <1>1, ExportsInvariance, PTL DEF OwnFile

\* A caller that leaves fails no build that others wait for, and a file is built
\* once until a build of it fails or its source is removed (Service.File).
THEOREM BuildSharedTheorem == X!Spec => []BuildShared
<1>0. FilesTyped /\ OneKey
  BY ServicesAssumption
<1>1. ExportsInv => X!LeaversHarmNobody
  BY DEF ExportsInv, CallersOK, CallerOK, X!LeaversHarmNobody
<1>2. ExportsInv => X!MadeOnce
  <2> SUFFICES ASSUME ExportsInv, NEW file \in Files, X!Source(file) \in present PROVE made[X!Key(file)] <= 1
    BY DEF X!MadeOnce
  <2>1. made[X!Key(file)] = 0 \/ made[X!Key(file)] = 1
    BY DEF ExportsInv, MadesOK, MadeOK
  <2> QED
    BY <2>1
<1> QED
  BY <1>0, <1>1, <1>2, ExportsInvariance, PTL DEF BuildShared, X!BuildShared
=============================================================================
