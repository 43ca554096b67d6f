SPECIFICATION FairSpec
CONSTANTS
    Url = {"a", "b", "c"}
    Bad = {"c"}
    Tag = {"x", "y"}
    Absent = Absent
    Content <- MCContent
    MaxWrites = 3
    MaxFailures = 1
CHECK_DEADLOCK FALSE
INVARIANTS
    OneEntryPerUrl
    TagsOldOrNew
PROPERTIES
    StatsAreKept
    FileIsApplied
