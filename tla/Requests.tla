------------------------------ MODULE Requests ------------------------------
(***************************************************************************)
(* A request's way through the server: the routes api/v1/server.go wires   *)
(* by hand, the group each is on, the session and the rate limit of the    *)
(* library that mounts the groups, the guard of a first sign-in, the role  *)
(* of the back office, the generated boundary and the handler.             *)
(*                                                                         *)
(* gin keeps its contexts in a pool and hands one to the next request as   *)
(* soon as a response is written, while the database still reads from the  *)
(* context a handler was called with; a reader is that database.           *)
(***************************************************************************)
EXTENDS Contract

CONSTANTS
  Requests,      \* the requests that arrive
  Asks(_),       \* the operations a request may ask for
  Callers(_),    \* who may send it: members of Caller
  Contexts,      \* gin's pooled contexts
  NoContext,     \* none of them
  Servers        \* the configurations: sets of "kratos" and "demo"

\* Who calls: signed out, with the identity server down, with a generated
\* password, with one changed since, a planner, an administrator.
Caller == {"nobody", "unreachable", "newcomer", "renewed", "planner", "admin"}

VARIABLES
  server,    \* what is configured
  request,   \* where each request is and what it was answered
  holder,    \* the request each pooled context carries, its last one included
  readers,   \* the readers still running: <<request, context>>
  seen       \* what readers saw: <<the reader's request, the one it read>>

vars == <<server, request, holder, readers, seen>>

Waiting == [stage |-> "waiting", op |-> "none", caller |-> "none",
            context |-> NoContext, answer |-> "none", ran |-> FALSE]

Init ==
  /\ server \in Servers
  /\ request = [r \in Requests |-> Waiting]
  /\ holder = [c \in Contexts |-> "none"]
  /\ readers = {}
  /\ seen = {}

-----------------------------------------------------------------------------
(* The wiring.                                                             *)

\* Mounted on the bare engine: it answers whatever else is down.
Open == {<<"GET", "/api/info", "info">>}

Guarded ==
  {<<"GET", "/plans", "ListPlans">>,
   <<"GET", "/plans/:planId", "GetPlan">>,
   <<"PATCH", "/plans/:planId", "UpdatePlan">>,
   <<"DELETE", "/plans/:planId", "DeletePlan">>,
   <<"POST", "/plans/:planId/restore", "RestorePlan">>,
   <<"POST", "/plans/:planId/fork", "ForkPlan">>,
   <<"GET", "/trash", "ListTrash">>,
   <<"GET", "/changes", "ListChanges">>,
   <<"GET", "/plans/:planId/versions", "ListVersions">>,
   <<"GET", "/plans/:planId/versions/:version", "DownloadVersion">>,
   <<"PUT", "/plans/:planId/versions/:version/checkpoint", "NameCheckpoint">>,
   <<"DELETE", "/plans/:planId/versions/:version/checkpoint",
     "DeleteCheckpoint">>,
   <<"POST", "/plans/:planId/versions/:version/checkpoint/restore",
     "RestoreCheckpoint">>,
   <<"GET", "/plans/:planId/versions/:version/check", "CheckVersion">>,
   <<"GET", "/plans/:planId/results", "ListResults">>,
   <<"GET", "/plans/:planId/results/:resultId", "DownloadResult">>,
   <<"PATCH", "/plans/:planId/results/:resultId", "UpdateResult">>,
   <<"DELETE", "/plans/:planId/results/:resultId", "DeleteResult">>,
   <<"POST", "/plans/:planId/results/:resultId/restore", "RestoreResult">>,
   <<"GET", "/plans/:planId/results/:resultId/check", "CheckResult">>,
   <<"GET", "/plans/:planId/versions/:version/export/:format",
     "ExportVersion">>,
   <<"GET", "/plans/:planId/results/:resultId/export/:format",
     "ExportResult">>,
   <<"GET", "/rules", "GetRuleCatalogue">>,
   <<"GET", "/rules/profiles", "ListRuleProfiles">>,
   <<"POST", "/rules/profiles", "CreateRuleProfile">>,
   <<"PATCH", "/rules/profiles/:profileId", "UpdateRuleProfile">>,
   <<"DELETE", "/rules/profiles/:profileId", "DeleteRuleProfile">>,
   <<"GET", "/account/library", "GetAccountLibrary">>,
   <<"PUT", "/account/library", "SaveAccountLibrary">>}

\* Keys and solving are a planner's too; the last is wired by hand, as it
\* writes a stream of events.
GuardedSolving ==
  {<<"GET", "/school/key", "GetSchoolKey">>,
   <<"POST", "/school/key/release", "ReleaseSchoolKey">>,
   <<"GET", "/plans/:planId/jobs", "ListJobs">>,
   <<"POST", "/plans/:planId/jobs", "CreateJob">>,
   <<"GET", "/jobs", "ListAllJobs">>,
   <<"GET", "/jobs/:jobId", "GetJob">>,
   <<"DELETE", "/jobs/:jobId", "CancelJob">>,
   <<"GET", "/jobs/:jobId/preview", "GetJobPreview">>,
   <<"GET", "/jobs/:jobId/events", "watch">>}

GuardedUploads ==
  {<<"POST", "/plans", "CreatePlan">>,
   <<"POST", "/plans/:planId/versions", "UploadVersion">>,
   <<"POST", "/plans/:planId/results", "UploadResult">>,
   <<"POST", "/import", "ImportPlan">>,
   <<"POST", "/import/preview", "PreviewImport">>}

Demo == {<<"POST", "/plans/demo", "CreateDemoPlan">>}

Admin ==
  {<<"GET", "/users", "ListUsers">>,
   <<"POST", "/users", "CreateUser">>,
   <<"GET", "/users/:userId", "GetUser">>,
   <<"PATCH", "/users/:userId", "UpdateUser">>,
   <<"POST", "/users/:userId/password", "ResetUserPassword">>,
   <<"GET", "/users/:userId/sessions", "ListUserSessions">>,
   <<"DELETE", "/users/:userId/sessions", "RevokeUserSessions">>,
   <<"DELETE", "/users/:userId/sessions/:sessionId", "RevokeUserSession">>,
   <<"GET", "/security/lockout", "GetLockout">>,
   <<"PATCH", "/security/lockout", "UpdateLockout">>,
   <<"GET", "/security/password-rules", "GetPasswordRules">>,
   <<"GET", "/nodes", "ListNodes">>,
   <<"POST", "/nodes", "PairNode">>,
   <<"GET", "/nodes/:nodeId", "GetNode">>,
   <<"PATCH", "/nodes/:nodeId", "UpdateNode">>,
   <<"DELETE", "/nodes/:nodeId", "RevokeNode">>,
   <<"GET", "/nodes/:nodeId/status", "GetNodeStatus">>,
   <<"GET", "/nodes/:nodeId/jobs", "ListNodeJobs">>,
   <<"GET", "/server/settings", "GetServerSettings">>,
   <<"PATCH", "/server/settings", "UpdateServerSettings">>,
   <<"GET", "/storage", "GetStorage">>,
   <<"POST", "/storage/trash/empty", "EmptyTrash">>,
   <<"POST", "/storage/backups/trim", "TrimBackups">>,
   <<"POST", "/storage/sweep", "SweepObjects">>,
   <<"GET", "/logs", "ListLogs">>,
   <<"GET", "/audit", "ListAudit">>,
   <<"PUT", "/plans/:planId/owner", "TransferPlan">>}


\* Without the identity server no guarded route exists; the demo school is
\* there when it is asked for.
register ==
  IF "kratos" \in server
  THEN Guarded \cup GuardedSolving \cup GuardedUploads \cup Admin
         \cup (IF "demo" \in server THEN Demo ELSE {})
  ELSE {}

Routed(routes) == {route[3] : route \in routes}

\* The cap on a request's size is the group's.
CapOf(op) == IF op \in Routed(GuardedUploads) THEN "upload" ELSE "json"

\* A body of each size against each cap.
Fits(size, cap) == size = "small" \/ (size = "document" /\ cap = "upload")

\* The operations requestScoped hands the request's own context.
ScopedFirst ==
  {"ImportPlan", "PreviewImport", "CancelJob", "GetJob", "ListNodes",
   "PairNode", "RevokeNode", "GetNode", "UpdateNode", "GetNodeStatus",
   "ListNodeJobs", "ListPlans", "CreatePlan", "CreateDemoPlan", "DeletePlan",
   "GetPlan", "UpdatePlan", "ListJobs", "CreateJob", "RestorePlan",
   "ListVersions", "UploadVersion", "DownloadVersion", "DeleteCheckpoint",
   "NameCheckpoint", "RestoreCheckpoint", "GetSchoolKey",
   "ReleaseSchoolKey", "ListTrash", "ListChanges", "ListUsers",
   "CreateUser", "GetUser", "UpdateUser", "ResetUserPassword"}

ScopedRest ==
  {"CheckVersion", "GetRuleCatalogue", "ListAllJobs", "GetJobPreview",
   "ListResults", "UploadResult", "DownloadResult", "UpdateResult",
   "DeleteResult", "RestoreResult", "CheckResult", "ExportVersion",
   "ExportResult", "GetAccountLibrary", "SaveAccountLibrary",
   "ListRuleProfiles", "CreateRuleProfile", "UpdateRuleProfile",
   "DeleteRuleProfile", "ListUserSessions", "RevokeUserSessions",
   "RevokeUserSession", "GetLockout", "UpdateLockout", "GetPasswordRules",
   "GetServerSettings", "UpdateServerSettings", "GetStorage", "EmptyTrash",
   "TrimBackups", "SweepObjects", "ListLogs", "ListAudit", "ForkPlan",
   "TransferPlan"}

\* Mutant of Scoped: half of the methods are left to an embedded interface.
ScopedInPart == ScopedRest

Scoped == ScopedFirst \cup ScopedRest

-----------------------------------------------------------------------------
(* The way of a request.                                                   *)

At(r, stage) == request[r].stage = stage

\* The request answered: gin's context goes back to the pool.
Respond(r, status, body) ==
  /\ request' = [request EXCEPT ![r].stage = "done",
                                ![r].answer = [status |-> status, body |-> body]]
  /\ UNCHANGED <<server, holder, readers, seen>>

\* Every error the server itself answers with is the error envelope.
Refuse(r, status) == Respond(r, status, "json")

Passes(r, stage) ==
  /\ request' = [request EXCEPT ![r].stage = stage]
  /\ UNCHANGED <<server, holder, readers, seen>>

\* A pooled context no request is using.
Idle(c) == \A r \in Requests : request[r].context = c => At(r, "done")

\* gin takes a context from its pool and looks the route up.
Arrive(r) ==
  /\ At(r, "waiting")
  /\ \E op \in Asks(r), who \in Callers(r), c \in {x \in Contexts : Idle(x)} :
       /\ request' = [request EXCEPT ![r] =
            [stage |-> IF op \in Routed(Open) THEN "open"
                       ELSE IF op \in Routed(register) THEN "mounted"
                       ELSE "missing",
             op |-> op, caller |-> who, context |-> c, answer |-> "none",
             ran |-> FALSE]]
       /\ holder' = [holder EXCEPT ![c] = r]
  /\ UNCHANGED <<server, readers, seen>>

NoRoute(r) == At(r, "missing") /\ Refuse(r, 404)

\* Discovery reads settings in memory, and a ceiling whose failure is zero.
handleInfo(r) == At(r, "open") /\ Respond(r, 200, "json")

\* The middleware of the mounted groups: the rate limit, the cap on a
\* declared length and the session.
Mount(r) ==
  /\ At(r, "mounted")
  /\ \/ Refuse(r, 429)
     \/ \E size \in {"small", "document", "huge"} :
          /\ ~Fits(size, CapOf(request[r].op))
          /\ Refuse(r, 413)
     \/ request[r].caller = "nobody" /\ Refuse(r, 401)
     \/ request[r].caller = "unreachable" /\ Refuse(r, 503)
     \/ /\ request[r].caller \notin {"nobody", "unreachable"}
        /\ Passes(r, "signed in")

\* Mutant of requirePasswordChanged: the guard is on one group only, and the
\* uploads are its sibling, not its child.
requirePasswordChangedNotOnUploads(r) ==
  /\ At(r, "signed in")
  /\ \/ /\ request[r].caller \in {"newcomer", "renewed"}
        /\ request[r].op \notin Routed(GuardedUploads)
        /\ Refuse(r, 403)
     \/ /\ \/ request[r].caller # "newcomer"
           \/ request[r].op \in Routed(GuardedUploads)
        /\ Passes(r, "changed")

\* The flag of a first sign-in refuses the account until its password has
\* changed, or until nobody can say so.
requirePasswordChanged(r) ==
  /\ At(r, "signed in")
  /\ \/ /\ request[r].caller \in {"newcomer", "renewed"}
        /\ Refuse(r, 403)
     \/ /\ request[r].caller # "newcomer"
        /\ Passes(r, "changed")

\* A signed-in caller without the role is told the route does not exist.
RequireMeta(r) ==
  /\ At(r, "changed")
  /\ IF request[r].op \in Routed(Admin) /\ request[r].caller # "admin"
     THEN Refuse(r, 404)
     ELSE Passes(r, IF request[r].op \in Operations THEN "bound" ELSE "watch")

\* The wrapper binds the parameters, and the strict handler reads the body.
Bind(r) ==
  /\ At(r, "bound")
  /\ \/ /\ BindsNumber(request[r].op)
        /\ Refuse(r, 400)
     \/ Passes(r, "read")

ReadBody(r) ==
  /\ At(r, "read")
  /\ \/ /\ <<request[r].op, "none">> \notin strictHandler
        /\ Refuse(r, 400)
     \/ Passes(r, "handled")

\* The handler runs.  It answers one of its response objects, fails, or
\* panics; its database calls go on reading the context it was handed.
Handle(r) ==
  /\ At(r, "handled")
  /\ \E answer \in StrictServerInterface[request[r].op]
                     \cup {[status |-> 500, body |-> "json"]} :
       request' = [request EXCEPT ![r].stage = "written", ![r].ran = TRUE,
                                  ![r].answer = answer]
  /\ readers' = readers \cup
       {<<r, IF request[r].op \in Scoped
             THEN NoContext ELSE request[r].context>>}
  /\ UNCHANGED <<server, holder, seen>>

\* The response object writes itself.  One that cannot be encoded has
\* written nothing yet and is answered as an error.
Visit(r) ==
  /\ At(r, "written")
  /\ LET answer == request[r].answer IN
     \/ Respond(r, answer.status, answer.body)
     \/ answer.body = "json" /\ Refuse(r, 500)

\* The stream of a job's events checks that the job can be read first.
watch(r) ==
  /\ At(r, "watch")
  /\ \E status \in {200, 404, 500} :
       request' = [request EXCEPT ![r].stage = "done", ![r].ran = TRUE,
                     ![r].answer = [status |-> status, body |-> "events"]]
  /\ UNCHANGED <<server, holder, readers, seen>>

\* A reader looks at its context: its request's own, or whatever request
\* the pooled one carries by now.
ReadContext(reader) ==
  /\ seen' = seen \cup
       {<<reader[1], IF reader[2] = NoContext THEN reader[1]
                     ELSE holder[reader[2]]>>}
  /\ readers' = readers \ {reader}
  /\ UNCHANGED <<server, request, holder>>

Step(r) ==
  \/ Arrive(r) \/ NoRoute(r) \/ handleInfo(r) \/ Mount(r)
  \/ requirePasswordChanged(r) \/ RequireMeta(r) \/ Bind(r) \/ ReadBody(r)
  \/ Handle(r) \/ Visit(r) \/ watch(r)

Next ==
  \/ \E r \in Requests : Step(r)
  \/ \E reader \in readers : ReadContext(reader)

Spec == Init /\ [][Next]_vars

-----------------------------------------------------------------------------
(* Properties.                                                             *)

\* The routes wired by hand are the routes of the contract, each on the
\* method and the path it is declared with and on one group only, and the
\* group with the larger cap holds the operations whose body is a document:
\* nothing is out of reach, reachable twice or capped below its file.
WiredAsDeclared ==
  server = {"kratos", "demo"} =>
    /\ register = RegisterHandlers \cup {<<"GET", "/jobs/:jobId/events", "watch">>}
    /\ LET groups == <<Guarded, GuardedSolving, GuardedUploads, Admin, Demo>>
       IN  \A i, j \in DOMAIN groups :
             i # j => Routed(groups[i]) \cap Routed(groups[j]) = {}
    /\ \A op \in Operations :
         <<op, "multipart">> \in strictHandler <=> CapOf(op) = "upload"

\* What any operation may be answered on top of its contract: the rate
\* limit, the size cap, a failure of the server, an absent route.
ServerWide(r) ==
  {429, 413, 500} \cup (IF request[r].op \in Routed(register) THEN {} ELSE {404})

\* A client only ever meets the statuses its operation declares: no guard in
\* front of a handler answers one the generated client does not know.
DeclaredAnswers ==
  \A r \in Requests :
    At(r, "done") /\ request[r].op \in Operations =>
      \/ request[r].answer \in StrictServerInterface[request[r].op]
      \/ request[r].answer.status \in ServerWide(r)

\* The resources of the back office, by their path.
BackOffice ==
  {route \in RegisterHandlers :
     \/ route[2] \in {"/users", "/users/:userId", "/users/:userId/password",
          "/users/:userId/sessions", "/users/:userId/sessions/:sessionId",
          "/security/lockout", "/security/password-rules", "/nodes",
          "/nodes/:nodeId", "/nodes/:nodeId/status", "/nodes/:nodeId/jobs",
          "/server/settings", "/storage", "/storage/trash/empty",
          "/storage/backups/trim", "/storage/sweep", "/logs", "/audit"}
     \/ route[2] = "/plans/:planId/owner"}

\* No handler of a guarded route runs for a caller without a session or with
\* a password somebody else generated, nor one of the back office for a
\* caller who is not an administrator.
HandlersGuarded ==
  \A r \in Requests : request[r].ran =>
    /\ request[r].caller \notin {"nobody", "unreachable", "newcomer"}
    /\ request[r].op \in Routed(BackOffice) => request[r].caller = "admin"

\* What the contract promises a client holds of every request: its operation
\* is there once and with room for its file, answers what is declared, and
\* runs only for who may (Server.register, requireUser, RequireMeta).
ContractKept == WiredAsDeclared /\ DeclaredAnswers /\ HandlersGuarded

\* A call of the database that outlives its handler never sees the context
\* of another request.
OwnContext == \A pair \in seen : pair[1] = pair[2]

=============================================================================
