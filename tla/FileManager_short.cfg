SPECIFICATION Spec
CONSTANTS
    FileLoaders = {l1}
    UncLoaders = {}
    UrlLoaders = {}
    EditorReusers = {}
    Files = {f1}
    Mishaps = {"short write"}
INVARIANTS SomethingSurvives
CHECK_DEADLOCK FALSE
