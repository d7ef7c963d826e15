\* Accounts: two users, an admin, two requests at once, three seconds.  Invites:
\* two applicants, two codes, three names.  Limiter: two requests at once, two nodes,
\* one of them a third of a second behind.  Gateway: one request at a time, of any
\* kind.  Moderation: texts of three characters, batches of two images.
SPECIFICATION Spec
CONSTANTS
    Uid = {x1, x2}
    Operator = {o1}
    Name = {n1, n2}
    AccountRequest = {q1, q2}
    AccessExpire = 2
    MaxSecond = 2
    MaxTokens = 2
    InviteCode = {k1, k2}
    Applicant = {q1, q2}
    Founder = f0
    Inviter = {q1, q2}
    AdminName = {n0, n1, n2}
    FounderName = n0
    MaxAttempts = 2
    Lags = {0, 1}
    LimitedCall = {q1, q2}
    Rate = 2
    Burst = 2
    Second = 3
    MaxTime = 7
    MaxLate = 1
    MaxLosses = 1
    MaxLength = 3
    MaxImages = 2
SYMMETRY Symmetry
INVARIANTS
    TypeOK GrantedWithinRate
     ArticlesChangeByAuthor  
PROPERTIES  StatusIsKept  RetryAfterIsEnough
