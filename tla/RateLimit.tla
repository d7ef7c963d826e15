----------------------------- MODULE RateLimit -----------------------------
(***************************************************************************)
(* The token bucket in front of the article api                            *)
(* (article/api/internal/middleware/ratelimit_middleware.go), for one      *)
(* user: a Lua script, which Redis runs as one step, fills the bucket by   *)
(* the time the api node has put in the request.                           *)
(*                                                                         *)
(* Times are in clock units, Second of them to a second, and the tokens of *)
(* the bucket in parts of a token, Second to a token: an elapsed unit      *)
(* brings Rate parts.                                                      *)
(***************************************************************************)
EXTENDS Integers, FiniteSets

CONSTANTS
    Lags,         \* how far the clocks of the api nodes are behind that of Redis
    LimitedCall,  \* requests of the user, served at the same time
    Rate, Burst,  \* tokens to a second, tokens of a full bucket
    Second,       \* clock units to a second
    MaxTime,      \* bound: the clock
    MaxLate,      \* bound: from here on only the fastest clock is asked
    MaxLosses     \* bound: failovers that lose the keys

ASSUME RateAssumption ==
    /\ Lags \subseteq Nat
    /\ \E most \in Lags : \A l \in Lags : l <= most
    /\ {Rate, Burst, Second} \subseteq Nat \ {0}
    /\ {MaxTime, MaxLate, MaxLosses} \subseteq Nat

VARIABLES
    now,      \* the clock of Redis
    bucket,   \* the two keys of the user
    loaded,   \* Redis knows the script by its hash
    limited,  \* what each request is doing
    granted,  \* history: tokens given
    late,     \* history: by how much stamps came back up to the clock
    age,      \* history: how old the stamp of the last grant was
    promised, \* history: when the last refusal told the user to come again
    losses

rateVars == <<now, bucket, loaded, limited, granted, late, age, promised, losses>>

Whole == Burst * Second
Nothing == -1

NoBucket == [tokens |-> Nothing, stamp |-> Nothing, until |-> Nothing]

\* The clock of the slowest node starts at zero.
Start == CHOOSE most \in Lags : \A l \in Lags : l <= most

RateTypeOK ==
    /\ now \in Nat
    /\ bucket = NoBucket \/ bucket \in [tokens : 0 .. Whole, stamp : Nat, until : Nat]
    /\ loaded \in BOOLEAN
    /\ limited \in [LimitedCall -> [pc : {"idle", "sha", "script"}, stamp : Nat]]
    /\ {granted, late, age, losses} \subseteq Nat
    /\ promised \in Nat \cup {Nothing}

CallIdle == [pc |-> "idle", stamp |-> 0]

RateInit ==
    /\ now = Start
    /\ bucket = NoBucket
    /\ loaded = TRUE
    /\ limited = [q \in LimitedCall |-> CallIdle]
    /\ granted = 0 /\ late = 0 /\ age = 0
    /\ promised = Nothing
    /\ losses = 0

----------------------------------------------------------------------------
Smaller(a, b) == IF a < b THEN a ELSE b
Larger(a, b) == IF a > b THEN a ELSE b

\* Wrong variant: the seconds are taken for milliseconds.
WrongTtl == Larger(1, (2 * Burst) \div Rate)

\* floor(2 * capacity / rate) seconds, at least one.
Ttl == Larger(1, (2 * Burst) \div Rate) * Second

\* Wrong variant: the capacity is no limit.
WrongFilled(stamp) ==
    IF bucket = NoBucket THEN Whole
    ELSE bucket.tokens + Larger(0, stamp - bucket.stamp) * Rate

\* filled_tokens: a missing bucket is full.
Filled(stamp) ==
    IF bucket = NoBucket THEN Whole
    ELSE Smaller(Whole, bucket.tokens + Larger(0, stamp - bucket.stamp) * Rate)

\* Wrong variant: rounded down.
WrongRetryAfter(filled) == (Second - filled) \div (Rate * Second)

\* ceil((requested - filled) / rate), in seconds.
RetryAfter(filled) == (Second - filled + Rate * Second - 1) \div (Rate * Second)

Grant(filled, stamp) ==
    /\ filled >= Second
    /\ bucket' = [tokens |-> filled - Second, stamp |-> stamp, until |-> now + Ttl]
    /\ granted' = granted + 1
    /\ late' = late + Larger(0, age - (now - stamp))
    /\ age' = now - stamp
    /\ promised' = Nothing

\* What Retry-After says counts from the stamp, unless the bucket's is later.
Refuse(filled, stamp) ==
    /\ filled < Second
    /\ promised' = IF stamp < bucket.stamp THEN promised
                   ELSE stamp + RetryAfter(filled) * Second
    /\ UNCHANGED <<bucket, granted, late, age>>

RunScript(q) ==
    LET stamp == limited[q].stamp IN
    /\ Grant(Filled(stamp), stamp) \/ Refuse(Filled(stamp), stamp)
    /\ loaded' = TRUE
    /\ limited' = [limited EXCEPT ![q] = CallIdle]

----------------------------------------------------------------------------
\* Handle takes the time of its node, before it calls Redis.
Handle(q) ==
    /\ limited[q].pc = "idle"
    /\ \E l \in Lags :
        /\ late >= MaxLate => \A m \in Lags : l <= m
        /\ limited' = [limited EXCEPT ![q] = [pc |-> "sha", stamp |-> now - l]]
    /\ UNCHANGED <<now, bucket, loaded, granted, late, age, promised, losses>>

EvalSha(q) ==
    /\ limited[q].pc = "sha" /\ loaded
    /\ RunScript(q)
    /\ UNCHANGED <<now, losses>>

\* NOSCRIPT: the script goes along with the second try.
NoScript(q) ==
    /\ limited[q].pc = "sha" /\ ~loaded
    /\ limited' = [limited EXCEPT ![q].pc = "script"]
    /\ UNCHANGED <<now, bucket, loaded, granted, late, age, promised, losses>>

Eval(q) ==
    /\ limited[q].pc = "script"
    /\ RunScript(q)
    /\ UNCHANGED <<now, losses>>

\* Redis does not answer: the request is refused with 500, whether the script has
\* run or not.
EvalFails(q) ==
    /\ limited[q].pc # "idle"
    /\ \/ RunScript(q)
       \/ /\ limited' = [limited EXCEPT ![q] = CallIdle]
          /\ UNCHANGED <<bucket, loaded, granted, late, age, promised>>
    /\ UNCHANGED <<now, losses>>

\* A failover to a replica that has neither the keys nor the script.
Failover ==
    /\ losses < MaxLosses
    /\ losses' = losses + 1
    /\ bucket' = NoBucket
    /\ loaded' = FALSE
    /\ UNCHANGED <<now, limited, granted, late, age, promised>>

\* The clocks move on; Redis drops keys that have expired.
TimePasses ==
    /\ now < MaxTime
    /\ now' = now + 1
    /\ bucket' = IF bucket.until = now + 1 THEN NoBucket ELSE bucket
    /\ UNCHANGED <<loaded, limited, granted, late, age, promised, losses>>

RateNext ==
    \/ TimePasses
    \/ Failover
    \/ \E q \in LimitedCall :
        Handle(q) \/ EvalSha(q) \/ NoScript(q) \/ Eval(q) \/ EvalFails(q)

RateSpec == RateInit /\ [][RateNext]_rateVars

----------------------------------------------------------------------------
(* Properties *)

\* The tokens given: never more than a full bucket and the rate allow, once what
\* late stamps and lost keys add is counted.  A key that expires gives no more
\* than the time it took would have (ratelimit_middleware.go:23-27, 29-41).  Late
\* stamps do add: README.md:82 has nothing oversold, which holds of clocks that
\* agree and requests in order.
GrantedWithinRate ==
    granted * Second <= Whole * (1 + losses) + Rate * (now - Start + late)

\* A user who comes again no sooner than Retry-After says is let in, unless another
\* of its requests was let in meanwhile; that is so where the node that refused it
\* was not behind the one that let in the last request (:48-51, 120-128).
RetryAfterIsEnough ==
    [][\A q \in LimitedCall :
        /\ limited[q].pc \in {"sha", "script"} /\ limited'[q].pc = "idle"
        /\ promised # Nothing /\ limited[q].stamp >= promised
        => promised' \in {promised, Nothing}]_rateVars
=============================================================================
