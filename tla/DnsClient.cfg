\* Two resolves at given servers, or one at the default servers.
CONSTANTS
    Own = "IPv4"
    Names <- MCNames
    Replies <- MCReplies
    Timeouts = {1, 2}
    Files <- MCFiles
    Copies = 2
    Capacity = 2
    MaxResolves = 2
    MaxStray = 1
SPECIFICATION Spec
INVARIANTS TypeOK CacheIsTrue DeadlineKept ServerOfOwnType
PROPERTIES OkMeansFound ResolveEnds
CHECK_DEADLOCK FALSE
