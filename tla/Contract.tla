------------------------------ MODULE Contract ------------------------------
(***************************************************************************)
(* What the generated boundary api/v1/gen/api.gen.go makes of the HTTP     *)
(* contract: for each of its operations the answers its response object    *)
(* can write, the parameters its wrapper binds, the body its strict        *)
(* handler reads and the route it is declared on.  An answer is the status *)
(* and the kind of its body; the JSON inside, the texts of the parameters  *)
(* and the bytes of a body are left out.                                   *)
(***************************************************************************)
EXTENDS Integers

\* A JSON answer is encoded to a buffer before its status is written.
JSON(statuses) == {[status |-> s, body |-> "json"] : s \in statuses}

\* An answer of a status alone.
Empty(status) == {[status |-> status, body |-> "empty"]}

\* A file, copied to the connection after its status and its length.
File(status, type) == {[status |-> status, body |-> type]}

-----------------------------------------------------------------------------
(* The response objects.                                                   *)

GetAccountLibraryResponseObject == JSON({200, 401, 403, 503})
SaveAccountLibraryResponseObject == JSON({200, 400, 401, 403, 409, 422, 503})
ListAuditResponseObject == JSON({200, 400, 401, 403, 404, 422, 503})
ListChangesResponseObject == JSON({200, 401, 403, 422, 503})
ImportPlanResponseObject == JSON({201, 400, 401, 403, 413, 415, 422, 503})
PreviewImportResponseObject == JSON({200, 400, 401, 403, 413, 415, 422, 503})
ListAllJobsResponseObject == JSON({200, 400, 401, 403, 503})
CancelJobResponseObject == Empty(202) \cup JSON({401, 403, 404, 503})
GetJobResponseObject == JSON({200, 401, 403, 404, 503})
GetJobPreviewResponseObject == JSON({200, 401, 403, 404, 503})
ListLogsResponseObject == JSON({200, 400, 401, 403, 404, 422, 503})
ListNodesResponseObject == JSON({200, 401, 403, 404, 503})
PairNodeResponseObject == JSON({201, 400, 401, 403, 404, 422, 503})
RevokeNodeResponseObject == Empty(204) \cup JSON({401, 403, 404, 503})
GetNodeResponseObject == JSON({200, 401, 403, 404, 503})
UpdateNodeResponseObject == JSON({200, 400, 401, 403, 404, 409, 422, 503})
ListNodeJobsResponseObject == JSON({200, 400, 401, 403, 404, 503})
GetNodeStatusResponseObject == JSON({200, 401, 403, 404, 503})
ListPlansResponseObject == JSON({200, 400, 401, 403, 503})
CreatePlanResponseObject == JSON({201, 400, 401, 403, 413, 422, 503})
CreateDemoPlanResponseObject == JSON({201, 400, 401, 403, 404, 409, 422, 503})
DeletePlanResponseObject == Empty(204) \cup JSON({401, 403, 404, 503})
GetPlanResponseObject == JSON({200, 401, 403, 404, 503})
UpdatePlanResponseObject == JSON({200, 400, 401, 403, 404, 422, 503})
ForkPlanResponseObject == JSON({201, 400, 401, 403, 404, 422, 503})
ListJobsResponseObject == JSON({200, 401, 403, 404, 503})
CreateJobResponseObject == JSON({202, 400, 401, 403, 404, 409, 422, 503})
TransferPlanResponseObject == JSON({200, 400, 401, 403, 404, 422, 503})
RestorePlanResponseObject == JSON({200, 401, 403, 404, 503})
ListResultsResponseObject == JSON({200, 401, 403, 404, 503})
UploadResultResponseObject == JSON({201, 400, 401, 403, 404, 413, 422, 503})
DeleteResultResponseObject == Empty(204) \cup JSON({400, 401, 403, 404, 503})
DownloadResultResponseObject ==
  File(200, "zstd") \cup JSON({400, 401, 403, 404, 503})
UpdateResultResponseObject == JSON({200, 400, 401, 403, 404, 422, 503})
CheckResultResponseObject == JSON({200, 400, 401, 403, 404, 409, 503, 504})
ExportResultResponseObject ==
  File(200, "octet-stream") \cup File(200, "zip")
  \cup JSON({400, 401, 403, 404, 422, 503})
RestoreResultResponseObject == JSON({200, 400, 401, 403, 404, 503})
ListVersionsResponseObject == JSON({200, 401, 403, 404, 503})
UploadVersionResponseObject ==
  JSON({201, 400, 401, 403, 404, 409, 413, 422, 503})
DownloadVersionResponseObject ==
  File(200, "zstd") \cup JSON({400, 401, 403, 404, 503})
CheckVersionResponseObject == JSON({200, 400, 401, 403, 404, 409, 503, 504})
DeleteCheckpointResponseObject ==
  Empty(204) \cup JSON({400, 401, 403, 404, 503})
NameCheckpointResponseObject == JSON({200, 400, 401, 403, 404, 422, 503})
RestoreCheckpointResponseObject == JSON({200, 400, 401, 403, 404, 503})
ExportVersionResponseObject ==
  File(200, "octet-stream") \cup File(200, "zip")
  \cup JSON({400, 401, 403, 404, 422, 503})
GetRuleCatalogueResponseObject == JSON({200, 401, 403, 409, 503, 504})
ListRuleProfilesResponseObject == JSON({200, 401, 403, 503})
CreateRuleProfileResponseObject == JSON({201, 400, 401, 403, 422, 503})
DeleteRuleProfileResponseObject ==
  Empty(204) \cup JSON({400, 401, 403, 404, 503})
UpdateRuleProfileResponseObject == JSON({200, 400, 401, 403, 404, 422, 503})
GetSchoolKeyResponseObject == JSON({200, 401, 403, 503})
ReleaseSchoolKeyResponseObject == JSON({200, 401, 403, 404, 503})
GetLockoutResponseObject == JSON({200, 401, 403, 404, 503})
UpdateLockoutResponseObject == JSON({200, 400, 401, 403, 404, 422, 503})
GetPasswordRulesResponseObject == JSON({200, 401, 403, 404, 503})
GetServerSettingsResponseObject == JSON({200, 401, 403, 404, 503})
UpdateServerSettingsResponseObject ==
  JSON({200, 400, 401, 403, 404, 422, 503})
GetStorageResponseObject == JSON({200, 401, 403, 404, 503})
TrimBackupsResponseObject == JSON({200, 401, 403, 404, 503})
SweepObjectsResponseObject == JSON({200, 401, 403, 404, 503})
EmptyTrashResponseObject == JSON({200, 401, 403, 404, 503})
ListTrashResponseObject == JSON({200, 401, 403, 503})
ListUsersResponseObject == JSON({200, 400, 401, 403, 404, 503})
CreateUserResponseObject == JSON({201, 400, 401, 403, 404, 409, 422, 503})
GetUserResponseObject == JSON({200, 401, 403, 404, 503})
UpdateUserResponseObject == JSON({200, 400, 401, 403, 404, 409, 422, 503})
ResetUserPasswordResponseObject == JSON({200, 401, 403, 404, 503})
RevokeUserSessionsResponseObject == Empty(204) \cup JSON({401, 403, 404, 503})
ListUserSessionsResponseObject == JSON({200, 401, 403, 404, 503})
RevokeUserSessionResponseObject == Empty(204) \cup JSON({401, 403, 404, 503})

-----------------------------------------------------------------------------
\* The operations, each with the answers of its response object.
StrictServerInterface ==
  [GetAccountLibrary |-> GetAccountLibraryResponseObject,
   SaveAccountLibrary |-> SaveAccountLibraryResponseObject,
   ListAudit |-> ListAuditResponseObject,
   ListChanges |-> ListChangesResponseObject,
   ImportPlan |-> ImportPlanResponseObject,
   PreviewImport |-> PreviewImportResponseObject,
   ListAllJobs |-> ListAllJobsResponseObject,
   CancelJob |-> CancelJobResponseObject,
   GetJob |-> GetJobResponseObject,
   GetJobPreview |-> GetJobPreviewResponseObject,
   ListLogs |-> ListLogsResponseObject,
   ListNodes |-> ListNodesResponseObject,
   PairNode |-> PairNodeResponseObject,
   RevokeNode |-> RevokeNodeResponseObject,
   GetNode |-> GetNodeResponseObject,
   UpdateNode |-> UpdateNodeResponseObject,
   ListNodeJobs |-> ListNodeJobsResponseObject,
   GetNodeStatus |-> GetNodeStatusResponseObject,
   ListPlans |-> ListPlansResponseObject,
   CreatePlan |-> CreatePlanResponseObject,
   CreateDemoPlan |-> CreateDemoPlanResponseObject,
   DeletePlan |-> DeletePlanResponseObject,
   GetPlan |-> GetPlanResponseObject,
   UpdatePlan |-> UpdatePlanResponseObject,
   ForkPlan |-> ForkPlanResponseObject,
   ListJobs |-> ListJobsResponseObject,
   CreateJob |-> CreateJobResponseObject,
   TransferPlan |-> TransferPlanResponseObject,
   RestorePlan |-> RestorePlanResponseObject,
   ListResults |-> ListResultsResponseObject,
   UploadResult |-> UploadResultResponseObject,
   DeleteResult |-> DeleteResultResponseObject,
   DownloadResult |-> DownloadResultResponseObject,
   UpdateResult |-> UpdateResultResponseObject,
   CheckResult |-> CheckResultResponseObject,
   ExportResult |-> ExportResultResponseObject,
   RestoreResult |-> RestoreResultResponseObject,
   ListVersions |-> ListVersionsResponseObject,
   UploadVersion |-> UploadVersionResponseObject,
   DownloadVersion |-> DownloadVersionResponseObject,
   CheckVersion |-> CheckVersionResponseObject,
   DeleteCheckpoint |-> DeleteCheckpointResponseObject,
   NameCheckpoint |-> NameCheckpointResponseObject,
   RestoreCheckpoint |-> RestoreCheckpointResponseObject,
   ExportVersion |-> ExportVersionResponseObject,
   GetRuleCatalogue |-> GetRuleCatalogueResponseObject,
   ListRuleProfiles |-> ListRuleProfilesResponseObject,
   CreateRuleProfile |-> CreateRuleProfileResponseObject,
   DeleteRuleProfile |-> DeleteRuleProfileResponseObject,
   UpdateRuleProfile |-> UpdateRuleProfileResponseObject,
   GetSchoolKey |-> GetSchoolKeyResponseObject,
   ReleaseSchoolKey |-> ReleaseSchoolKeyResponseObject,
   GetLockout |-> GetLockoutResponseObject,
   UpdateLockout |-> UpdateLockoutResponseObject,
   GetPasswordRules |-> GetPasswordRulesResponseObject,
   GetServerSettings |-> GetServerSettingsResponseObject,
   UpdateServerSettings |-> UpdateServerSettingsResponseObject,
   GetStorage |-> GetStorageResponseObject,
   TrimBackups |-> TrimBackupsResponseObject,
   SweepObjects |-> SweepObjectsResponseObject,
   EmptyTrash |-> EmptyTrashResponseObject,
   ListTrash |-> ListTrashResponseObject,
   ListUsers |-> ListUsersResponseObject,
   CreateUser |-> CreateUserResponseObject,
   GetUser |-> GetUserResponseObject,
   UpdateUser |-> UpdateUserResponseObject,
   ResetUserPassword |-> ResetUserPasswordResponseObject,
   RevokeUserSessions |-> RevokeUserSessionsResponseObject,
   ListUserSessions |-> ListUserSessionsResponseObject,
   RevokeUserSession |-> RevokeUserSessionResponseObject]

Operations == DOMAIN StrictServerInterface

-----------------------------------------------------------------------------
(* The wrappers bind each parameter in turn.  A text is taken as it is; a  *)
(* number that does not parse goes to the error handler, and nothing else  *)
(* of the operation runs.                                                  *)

\* The parameters a wrapper binds as texts and as numbers.
Binds(operation, texts, numbers) ==
  [operation |-> operation, texts |-> texts, numbers |-> numbers]

BindsFromGetAccountLibrary ==
  {Binds("GetAccountLibrary", {}, {}), Binds("SaveAccountLibrary", {}, {}),
   Binds("ListAudit", {"kind"}, {"page", "limit"}),
   Binds("ListChanges", {"since"}, {}), Binds("ImportPlan", {}, {}),
   Binds("PreviewImport", {}, {})}

BindsFromListAllJobs ==
  {Binds("ListAllJobs", {"status"}, {"page", "limit"}),
   Binds("CancelJob", {"jobId"}, {}), Binds("GetJob", {"jobId"}, {}),
   Binds("GetJobPreview", {"jobId"}, {})}

BindsFromListLogs ==
  {Binds("ListLogs", {"level", "lang"}, {"limit"}),
   Binds("ListNodes", {}, {}), Binds("PairNode", {}, {}),
   Binds("RevokeNode", {"nodeId"}, {}), Binds("GetNode", {"nodeId"}, {}),
   Binds("UpdateNode", {"nodeId"}, {})}

BindsFromListNodeJobs ==
  {Binds("ListNodeJobs", {"nodeId"}, {"page", "limit"}),
   Binds("GetNodeStatus", {"nodeId"}, {}),
   Binds("ListPlans", {"q"}, {"page", "limit"}),
   Binds("CreatePlan", {}, {}), Binds("CreateDemoPlan", {}, {})}

BindsFromDeletePlan ==
  {Binds("DeletePlan", {"planId"}, {}), Binds("GetPlan", {"planId"}, {}),
   Binds("UpdatePlan", {"planId"}, {}), Binds("ForkPlan", {"planId"}, {}),
   Binds("ListJobs", {"planId"}, {}), Binds("CreateJob", {"planId"}, {})}

BindsFromTransferPlan ==
  {Binds("TransferPlan", {"planId"}, {}),
   Binds("RestorePlan", {"planId"}, {}),
   Binds("ListResults", {"planId"}, {}),
   Binds("UploadResult", {"planId"}, {}),
   Binds("DeleteResult", {"planId", "resultId"}, {})}

BindsFromDownloadResult ==
  {Binds("DownloadResult", {"planId", "resultId"}, {}),
   Binds("UpdateResult", {"planId", "resultId"}, {}),
   Binds("CheckResult", {"planId", "resultId"}, {"rules_version"})}

BindsFromExportResult ==
  {Binds("ExportResult", {"planId", "resultId", "format"}, {}),
   Binds("RestoreResult", {"planId", "resultId"}, {}),
   Binds("ListVersions", {"planId"}, {}),
   Binds("UploadVersion", {"planId"}, {})}

BindsFromDownloadVersion ==
  {Binds("DownloadVersion", {"planId"}, {"version"}),
   Binds("CheckVersion", {"planId"}, {"version", "rules_version"}),
   Binds("DeleteCheckpoint", {"planId"}, {"version"}),
   Binds("NameCheckpoint", {"planId"}, {"version"})}

BindsFromRestoreCheckpoint ==
  {Binds("RestoreCheckpoint", {"planId"}, {"version"}),
   Binds("ExportVersion", {"planId", "format"}, {"version"}),
   Binds("GetRuleCatalogue", {}, {}), Binds("ListRuleProfiles", {}, {}),
   Binds("CreateRuleProfile", {}, {}),
   Binds("DeleteRuleProfile", {"profileId"}, {})}

BindsFromUpdateRuleProfile ==
  {Binds("UpdateRuleProfile", {"profileId"}, {}),
   Binds("GetSchoolKey", {}, {}), Binds("ReleaseSchoolKey", {}, {}),
   Binds("GetLockout", {}, {}), Binds("UpdateLockout", {}, {}),
   Binds("GetPasswordRules", {}, {}), Binds("GetServerSettings", {}, {}),
   Binds("UpdateServerSettings", {}, {}), Binds("GetStorage", {}, {}),
   Binds("TrimBackups", {}, {})}

BindsFromSweepObjects ==
  {Binds("SweepObjects", {}, {}), Binds("EmptyTrash", {}, {}),
   Binds("ListTrash", {}, {}), Binds("ListUsers", {"q"}, {"page", "limit"}),
   Binds("CreateUser", {}, {}), Binds("GetUser", {"userId"}, {}),
   Binds("UpdateUser", {"userId"}, {})}

BindsFromResetUserPassword ==
  {Binds("ResetUserPassword", {"userId"}, {}),
   Binds("RevokeUserSessions", {"userId"}, {}),
   Binds("ListUserSessions", {"userId"}, {}),
   Binds("RevokeUserSession", {"userId", "sessionId"}, {})}

\* The wrapper of every operation.
ServerInterfaceWrapper ==
  BindsFromGetAccountLibrary
  \cup BindsFromListAllJobs
  \cup BindsFromListLogs
  \cup BindsFromListNodeJobs
  \cup BindsFromDeletePlan
  \cup BindsFromTransferPlan
  \cup BindsFromDownloadResult
  \cup BindsFromExportResult
  \cup BindsFromDownloadVersion
  \cup BindsFromRestoreCheckpoint
  \cup BindsFromUpdateRuleProfile
  \cup BindsFromSweepObjects
  \cup BindsFromResetUserPassword

\* The operation has a number among its parameters.
BindsNumber(operation) ==
  \E bound \in ServerInterfaceWrapper :
    bound.operation = operation /\ bound.numbers # {}

-----------------------------------------------------------------------------
(* The strict handlers read the body, call the operation and visit what it *)
(* answers.                                                                *)

\* The operations whose body is read as the given kind.
Reads(kind, operations) == operations \X {kind}

ReadsFromGetAccountLibrary ==
  Reads("none", {"GetAccountLibrary", "ListAudit", "ListChanges"})
  \cup Reads("json", {"SaveAccountLibrary"})
  \cup Reads("multipart", {"ImportPlan"})

ReadsFromPreviewImport ==
  Reads("none", {"ListAllJobs", "CancelJob", "GetJob", "GetJobPreview"})
  \cup Reads("multipart", {"PreviewImport"})

ReadsFromListLogs ==
  Reads("none", {"ListLogs", "ListNodes", "RevokeNode", "GetNode"})
  \cup Reads("json", {"PairNode"})

ReadsFromUpdateNode ==
  Reads("none", {"ListNodeJobs", "GetNodeStatus", "ListPlans"})
  \cup Reads("json", {"UpdateNode"})
  \cup Reads("multipart", {"CreatePlan"})

ReadsFromCreateDemoPlan ==
  Reads("none", {"DeletePlan", "GetPlan"})
  \cup Reads("json", {"CreateDemoPlan", "UpdatePlan", "ForkPlan"})

ReadsFromListJobs ==
  Reads("none", {"ListJobs", "RestorePlan", "ListResults"})
  \cup Reads("json", {"CreateJob", "TransferPlan"})

ReadsFromUploadResult ==
  Reads("none", {"DeleteResult", "DownloadResult", "CheckResult"})
  \cup Reads("json", {"UpdateResult"})
  \cup Reads("multipart", {"UploadResult"})

ReadsFromExportResult ==
  Reads("none", {"ExportResult", "RestoreResult", "ListVersions",
                 "DownloadVersion"})
  \cup Reads("multipart", {"UploadVersion"})

ReadsFromCheckVersion ==
  Reads("none", {"CheckVersion", "DeleteCheckpoint", "RestoreCheckpoint",
                 "ExportVersion"})
  \cup Reads("json", {"NameCheckpoint"})

ReadsFromGetRuleCatalogue ==
  Reads("none", {"GetRuleCatalogue", "ListRuleProfiles", "DeleteRuleProfile"})
  \cup Reads("json", {"CreateRuleProfile", "UpdateRuleProfile"})

ReadsFromGetSchoolKey ==
  Reads("none", {"GetSchoolKey", "ReleaseSchoolKey", "GetLockout",
                 "GetPasswordRules", "GetServerSettings"})
  \cup Reads("json", {"UpdateLockout"})

ReadsFromUpdateServerSettings ==
  Reads("none", {"GetStorage", "TrimBackups", "SweepObjects", "EmptyTrash",
                 "ListTrash"})
  \cup Reads("json", {"UpdateServerSettings"})

ReadsFromListUsers ==
  Reads("none", {"ListUsers", "GetUser", "ResetUserPassword"})
  \cup Reads("json", {"CreateUser", "UpdateUser"})

ReadsFromRevokeUserSessions ==
  Reads("none", {"RevokeUserSessions", "ListUserSessions",
                 "RevokeUserSession"})

\* The body every operation reads.
strictHandler ==
  ReadsFromGetAccountLibrary
  \cup ReadsFromPreviewImport
  \cup ReadsFromListLogs
  \cup ReadsFromUpdateNode
  \cup ReadsFromCreateDemoPlan
  \cup ReadsFromListJobs
  \cup ReadsFromUploadResult
  \cup ReadsFromExportResult
  \cup ReadsFromCheckVersion
  \cup ReadsFromGetRuleCatalogue
  \cup ReadsFromGetSchoolKey
  \cup ReadsFromUpdateServerSettings
  \cup ReadsFromListUsers
  \cup ReadsFromRevokeUserSessions

-----------------------------------------------------------------------------
\* The routes the contract declares: method, path under /v1, operation.
RegisterHandlers ==
  {<<"GET", "/plans", "ListPlans">>,
   <<"POST", "/plans", "CreatePlan">>,
   <<"POST", "/plans/demo", "CreateDemoPlan">>,
   <<"DELETE", "/plans/:planId", "DeletePlan">>,
   <<"GET", "/plans/:planId", "GetPlan">>,
   <<"PATCH", "/plans/:planId", "UpdatePlan">>,
   <<"POST", "/plans/:planId/restore", "RestorePlan">>,
   <<"POST", "/plans/:planId/fork", "ForkPlan">>,
   <<"PUT", "/plans/:planId/owner", "TransferPlan">>,
   <<"GET", "/plans/:planId/versions", "ListVersions">>,
   <<"POST", "/plans/:planId/versions", "UploadVersion">>,
   <<"GET", "/plans/:planId/versions/:version", "DownloadVersion">>,
   <<"GET", "/plans/:planId/versions/:version/check", "CheckVersion">>,
   <<"DELETE", "/plans/:planId/versions/:version/checkpoint", "DeleteCheckpoint">>,
   <<"PUT", "/plans/:planId/versions/:version/checkpoint", "NameCheckpoint">>,
   <<"POST", "/plans/:planId/versions/:version/checkpoint/restore", "RestoreCheckpoint">>,
   <<"GET", "/plans/:planId/versions/:version/export/:format", "ExportVersion">>,
   <<"GET", "/plans/:planId/results", "ListResults">>,
   <<"POST", "/plans/:planId/results", "UploadResult">>,
   <<"DELETE", "/plans/:planId/results/:resultId", "DeleteResult">>,
   <<"GET", "/plans/:planId/results/:resultId", "DownloadResult">>,
   <<"PATCH", "/plans/:planId/results/:resultId", "UpdateResult">>,
   <<"POST", "/plans/:planId/results/:resultId/restore", "RestoreResult">>,
   <<"GET", "/plans/:planId/results/:resultId/check", "CheckResult">>,
   <<"GET", "/plans/:planId/results/:resultId/export/:format", "ExportResult">>,
   <<"GET", "/rules", "GetRuleCatalogue">>,
   <<"GET", "/rules/profiles", "ListRuleProfiles">>,
   <<"POST", "/rules/profiles", "CreateRuleProfile">>,
   <<"DELETE", "/rules/profiles/:profileId", "DeleteRuleProfile">>,
   <<"PATCH", "/rules/profiles/:profileId", "UpdateRuleProfile">>,
   <<"GET", "/trash", "ListTrash">>,
   <<"GET", "/changes", "ListChanges">>,
   <<"POST", "/import", "ImportPlan">>,
   <<"POST", "/import/preview", "PreviewImport">>,
   <<"GET", "/account/library", "GetAccountLibrary">>,
   <<"PUT", "/account/library", "SaveAccountLibrary">>,
   <<"GET", "/users", "ListUsers">>,
   <<"POST", "/users", "CreateUser">>,
   <<"GET", "/users/:userId", "GetUser">>,
   <<"PATCH", "/users/:userId", "UpdateUser">>,
   <<"POST", "/users/:userId/password", "ResetUserPassword">>,
   <<"DELETE", "/users/:userId/sessions", "RevokeUserSessions">>,
   <<"GET", "/users/:userId/sessions", "ListUserSessions">>,
   <<"DELETE", "/users/:userId/sessions/:sessionId", "RevokeUserSession">>,
   <<"GET", "/security/lockout", "GetLockout">>,
   <<"PATCH", "/security/lockout", "UpdateLockout">>,
   <<"GET", "/security/password-rules", "GetPasswordRules">>,
   <<"GET", "/nodes", "ListNodes">>,
   <<"POST", "/nodes", "PairNode">>,
   <<"DELETE", "/nodes/:nodeId", "RevokeNode">>,
   <<"GET", "/nodes/:nodeId", "GetNode">>,
   <<"PATCH", "/nodes/:nodeId", "UpdateNode">>,
   <<"GET", "/nodes/:nodeId/status", "GetNodeStatus">>,
   <<"GET", "/nodes/:nodeId/jobs", "ListNodeJobs">>,
   <<"GET", "/plans/:planId/jobs", "ListJobs">>,
   <<"POST", "/plans/:planId/jobs", "CreateJob">>,
   <<"GET", "/jobs", "ListAllJobs">>,
   <<"DELETE", "/jobs/:jobId", "CancelJob">>,
   <<"GET", "/jobs/:jobId", "GetJob">>,
   <<"GET", "/jobs/:jobId/preview", "GetJobPreview">>,
   <<"GET", "/school/key", "GetSchoolKey">>,
   <<"POST", "/school/key/release", "ReleaseSchoolKey">>,
   <<"GET", "/server/settings", "GetServerSettings">>,
   <<"PATCH", "/server/settings", "UpdateServerSettings">>,
   <<"GET", "/storage", "GetStorage">>,
   <<"POST", "/storage/trash/empty", "EmptyTrash">>,
   <<"POST", "/storage/backups/trim", "TrimBackups">>,
   <<"POST", "/storage/sweep", "SweepObjects">>,
   <<"GET", "/logs", "ListLogs">>,
   <<"GET", "/audit", "ListAudit">>}

=============================================================================
