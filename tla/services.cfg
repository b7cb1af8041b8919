SPECIFICATION MCSpec
CONSTANTS
    Requests = {"first", "second"}
    Asks <- MCAsks  CallersOf <- MCCallersOf
    Contexts = {"pooled"}  NoContext = "own"
    Servers = {{}, {"kratos"}, {"kratos", "demo"}}
    Proxies = {"p", "q"}
    Names = {"Ana", "bob", "cyd", ""}  NormalOf <- MCNormalOf
    Addresses = {"x"}
    LimitChoices <- MCLimitChoices
    MaxTracked = 2  MaxTime = 4  MaxFailures = 6
    SchoolServers = {"s", "t"}  Passphrases = {"", "old", "new"}  MaxKeys = 3
    Askers = {"a", "b"}
    Files <- MCFiles  Varied = {"gpf"}  Recipients = {"", "school"}
    Unplaced <- MCUnplaced  MaxRestarts = 1
    Devices = {"a", "b"}
    Projects = {"p", "q"}  Removable = {"p"}  Places = {"top"}  MaxVersion = 3
    Workers = {"v", "w"}
    Editors <- MCEditors  Ids = {1, 2}
    Typed = {"", "x", " x", "y"}  Trimmed <- MCTrimmed
    Lists <- MCLists  Malformed = {"odd"}  MaxOverrides = 1
    Admins = {"a", "b"}
    Fields = {"failures", "minutes", "upload", "backups"}  SectionOf <- MCSectionOf
    AtRestart = {"upload"}
    Values = {0, 1, 2}  Invalid = {0}  Defaults <- MCDefaults
    MaxWrites = 2  MaxCrashes = 1
    Engines = {"sqlite", "postgres"}
    Solves = {"j"}  Uploads = {"u"}  ServerCaps = {1, 2}
    MaxResults = 3  MaxChanges = 2
INVARIANTS ContractKept OwnContext  OwnFile BuildShared SavesStand
INVARIANTS ProfilesStand SettingsStand OneSchoolKey
PROPERTIES BlockKept ResultsKept
CHECK_DEADLOCK FALSE
