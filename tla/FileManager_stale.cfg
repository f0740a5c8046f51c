SPECIFICATION Spec
CONSTANTS
    FileLoaders = {l1}
    UncLoaders = {}
    UrlLoaders = {}
    EditorReusers = {}
    Files = {f1}
    Mishaps = {}
INVARIANTS NoStaleFiles
CHECK_DEADLOCK FALSE
