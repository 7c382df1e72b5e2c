SPECIFICATION FairSpec
CONSTANTS
    None = None
    Tasks = {t1, t2}
    Adapters <- MCAdapters
    Votes <- MCVotes
    ApproveReaction = "+1"
    RejectReaction = "-1"
    Arguments <- MCArguments
    RedactFields <- MCRedactFields
    MaxConcurrent = 1
    BaseInterval = 1
    MaxInterval = 2
    RetryAfter = 1
    MaxUserCache = 1
    EvictShare = 1
    MaxSubmits = 2
    MaxVotes = 2
CHECK_DEADLOCK FALSE
INVARIANTS DecisionHasReviewer SharedStateSound ArgumentsRedacted
PROPERTIES QueueServed
