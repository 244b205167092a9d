SPECIFICATION FairSpec
CONSTANTS
    Users <- MCUsers
    Requests <- MCRequests
    UserOf <- MCUserOf
    KeyOf <- MCKeyOf
    CommandOf <- MCCommandOf
    ExpectedOf <- MCExpectedOf
    MaxCalls <- MCMaxCalls
INVARIANTS AppliedOnce AnswersTellTheEffect AMethodologistRemains
PROPERTIES AuthorityHeldAtCommit EveryCallIsAnswered
CHECK_DEADLOCK FALSE
