SPECIFICATION Spec
CONSTANTS
    Entries = {"a", "b"}
    globalExcludes = {".stfolder", "Thumbs.db"}
    Batch = 1
INVARIANT SkipMeansEmpty
PROPERTY WipeExplained
