SPECIFICATION FairSpec
CONSTANTS
    FileLoaders = {l1, l2}
    UncLoaders = {}
    UrlLoaders = {}
    EditorReusers = {}
    Files = {f1}
    Mishaps = {}
INVARIANTS TypeOK LoaderSettled SomethingSurvives
PROPERTIES BackupDeletedLate BackupsGo LoadersServed
CHECK_DEADLOCK FALSE
