CONSTANTS
    admin = admin
    guest = guest
    plain = plain
    shared = shared
    Null = Null
    Users = {admin, guest}
    HostUser = admin
    Sharings = {plain, shared}
    Plain = plain
    MaxDrain = 2
    MaxJobs = 3
    MaxFrames = 4
    Writers = {1, 2}
SPECIFICATION FairSpec
INVARIANTS JobsStartOnceInSubmissionOrder JobsAreDroppedByFullDrainsOnly ContextAndUnitsFollowStack
PROPERTIES FailedJobsLeaveNoEffect PendingJobsRun
