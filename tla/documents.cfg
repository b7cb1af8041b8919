SPECIFICATION MCSpec
CONSTANTS
    Subjects = {"v1", "v2", "v2r", "r", "rr"}
    ScopeOf <- CheckScopeOf  VersionOf <- CheckVersionOf  KeyOf <- CheckKeyOf
    Results = {"r", "rr"}
    Callers = {"a", "b"}  Flights = {"f1", "f2"}  None = "none"
    CacheSize = 1
    School <- OneSchool  Reported <- SmallReported  Arranged <- SmallArranged
    FolderIDs = {"a", "b", "c"}  Blank = {""}  TooLong = {"nn"}  Accents = {""}
    MaxFolders = 3  MaxProjects = 2  MaxRecent = 2  MaxDepth = 2
INVARIANTS  ForestStored 
PROPERTY Answered
CHECK_DEADLOCK FALSE
