SPECIFICATION FoldersSpec
CONSTANTS
    Folder = {f1, f2}
    Source = {s1, s2}
    Root = root
    Document = {d1}
    Importer = {i1, i2}
    MaxCrashes = 1
PROPERTY DeletionKeepsFeeds
CHECK_DEADLOCK FALSE
