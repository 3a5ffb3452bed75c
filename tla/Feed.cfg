SPECIFICATION FeedFairSpec
CONSTANTS
    Requests = {"off", "on", "force", "override"}
    MaxFaults = 3
INVARIANT FeedTypeOK
INVARIANT ValidatedOnEvidence
INVARIANT RefusalStands
PROPERTY DeadFeedIsRefused
