------------------------------ MODULE Services ------------------------------
(***************************************************************************)
(* The services that keep little state of their own and share none, each   *)
(* under a letter.  A behaviour takes the steps of one of them, the others *)
(* stay in their first state.                                              *)
(***************************************************************************)
EXTENDS Integers, Sequences, FiniteSets

VARIABLE service

-----------------------------------------------------------------------------
(* Requests, from the router to their answers. *)

CONSTANTS Requests, Asks(_), CallersOf(_), Contexts, NoContext, Servers
VARIABLES server, request, holder, readers, seen

httpVars == <<server, request, holder, readers, seen>>

H == INSTANCE Requests WITH Callers <- CallersOf

ContractKept == H!ContractKept
OwnContext == H!OwnContext

-----------------------------------------------------------------------------
(* Failed sign-ins. *)

CONSTANTS Proxies, Names, NormalOf, Addresses, LimitChoices, MaxTracked, MaxTime, MaxFailures
VARIABLES now, limits, accounts, addresses, proxy, history

lockoutVars == <<now, limits, accounts, addresses, proxy, history>>

G == INSTANCE Lockout

FloodHeld == G!FloodHeld
BlockKept == G!BlockKept

\* The bound of a table and the limits the settings schema allows.
LimitsGiven ==
    /\ MaxTracked \in Nat \ {0}
    /\ \A l \in LimitChoices : l.block \in Nat

\* What an administrator may set is one at least, and there is a loosest limit and
\* a shortest block among it: the settings schema bounds both.  A server has
\* finitely many sign-ins on their way.
GuessesGiven ==
    /\ LimitsGiven
    /\ IsFiniteSet(Proxies)
    /\ \A l \in LimitChoices : l.account \in Nat \ {0} /\ l.block \in Nat \ {0}
    /\ \E l \in LimitChoices : \A o \in LimitChoices : o.account <= l.account
    /\ \E l \in LimitChoices : \A o \in LimitChoices : l.block <= o.block

-----------------------------------------------------------------------------
(* The school's key, and the exported files of one plan. *)

CONSTANTS SchoolServers, Passphrases, MaxKeys
VARIABLES schoolKey, schoolServer, schoolKeys, schoolFiles

escrowVars == <<schoolKey, schoolServer, schoolKeys, schoolFiles>>

K == INSTANCE Escrow WITH
    Servers <- SchoolServers,
    row <- schoolKey, server <- schoolServer, keys <- schoolKeys, files <- schoolFiles

OneSchoolKey == K!OneSchoolKey

CONSTANTS Askers, Files, Varied, Recipients, Unplaced, MaxRestarts
VARIABLES recipient, restarts, present, exported, objects, garbage, builds, asker, made, faults

exportVars == <<recipient, restarts, present, exported, objects, garbage, builds, asker, made, faults>>

X == INSTANCE Exports WITH
    Callers <- Askers, rows <- exported, flights <- builds, caller <- asker

OwnFile == X!OwnFile
BuildShared == X!BuildShared

\* A file is named by its source and its format.
FilesTyped == Files \subseteq [kind : STRING, number : Nat, format : STRING]

\* A school has one key: every start has that one or none (Escrow).
OneKey == \A r, s \in Recipients : r # "" /\ s # "" => r = s

-----------------------------------------------------------------------------
(* An account's Library. *)

CONSTANTS Devices, Projects, Removable, Places, MaxVersion
VARIABLES row, project, device, placed

libraryVars == <<row, project, device, placed>>

L == INSTANCE Library

SavesStand == L!SavesStand

-----------------------------------------------------------------------------
(* The rule profiles. *)

CONSTANTS Workers, Editors, Ids, Typed, Trimmed, Lists, Malformed, MaxOverrides
VARIABLES table, idsDrawn, worker, last

profileVars == <<table, idsDrawn, worker, last>>

P == INSTANCE Profiles WITH drawn <- idsDrawn

ProfilesStand == P!ProfilesStand

\* A name without the spaces around it has none to lose (strings.TrimSpace).
TrimmedOnce == \A t \in Typed : Trimmed[t] \in Typed /\ Trimmed[Trimmed[t]] = Trimmed[t]

-----------------------------------------------------------------------------
(* The settings of the server. *)

CONSTANTS Admins, Fields, SectionOf, AtRestart, Values, Invalid, Defaults, MaxWrites, MaxCrashes
VARIABLES stored, current, inForce, lock, admin, trail, sent, untold, bounds

settingVars == <<stored, current, inForce, lock, admin, trail, sent, untold, bounds>>

C == INSTANCE Settings WITH file <- stored

SettingsStand == C!SettingsStand

\* Every setting has a default and is of one route; no request is nobody.
SettingsGiven ==
    /\ DOMAIN Defaults = Fields /\ Defaults = [f \in Fields |-> Defaults[f]]
    /\ SectionOf \in [Fields -> {"lockout", "server"}]
    /\ "nobody" \notin Admins

-----------------------------------------------------------------------------
(* The results of a plan. *)

CONSTANTS Engines, Solves, Uploads, ServerCaps, MaxResults, MaxChanges
VARIABLES engine, results, cap, drawn, work, adding, changes

resultVars == <<engine, results, cap, drawn, work, adding, changes>>

R == INSTANCE Results

ResultsKept == R!ResultsKept

\* Jobs and uploads are told apart, and nobody is neither.
SendersApart == Solves \cap Uploads = {} /\ "nobody" \notin Solves \cup Uploads

\* A plan keeps one result at least: results_keep of the settings schema.
CapsPositive == ServerCaps \subseteq Nat \ {0}

-----------------------------------------------------------------------------
ASSUME ServicesAssumption ==
    /\ GuessesGiven
    /\ FilesTyped /\ OneKey
    /\ Removable \subseteq Projects
    /\ TrimmedOnce
    /\ SettingsGiven
    /\ SendersApart /\ CapsPositive /\ MaxResults \in Nat

vars == <<service, httpVars, lockoutVars, escrowVars, exportVars, libraryVars, profileVars,
          settingVars, resultVars>>

Init ==
    /\ service \in {"http", "lockout", "escrow", "exports", "library", "profiles", "settings", "results"}
    /\ H!Init /\ G!Init /\ K!Init /\ X!Init /\ L!Init /\ P!Init /\ C!Init /\ R!Init

\* A step of the chosen service.
Next ==
    /\ UNCHANGED service
    /\ IF service = "http" THEN H!Next ELSE UNCHANGED httpVars
    /\ IF service = "lockout" THEN G!Next ELSE UNCHANGED lockoutVars
    /\ IF service = "escrow" THEN K!Next ELSE UNCHANGED escrowVars
    /\ IF service = "exports" THEN X!Next ELSE UNCHANGED exportVars
    /\ IF service = "library" THEN L!Next ELSE UNCHANGED libraryVars
    /\ IF service = "profiles" THEN P!Next ELSE UNCHANGED profileVars
    /\ IF service = "settings" THEN C!Next ELSE UNCHANGED settingVars
    /\ IF service = "results" THEN R!Next ELSE UNCHANGED resultVars

Spec == Init /\ [][Next]_vars
=============================================================================
