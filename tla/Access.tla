------------------------------- MODULE Access -------------------------------
(***************************************************************************)
(* What a request meets around the services of articles and messages: the  *)
(* apis, the rate limiter, the accounts and sessions of users and admins,  *)
(* the invites admins come in by, and the moderation of texts and images.  *)
(* These share no row and no key, so a behaviour shows one of them at      *)
(* work: interleaving them shows nothing else.                             *)
(***************************************************************************)
EXTENDS UserAccounts, AdminInvites, RateLimit, Gateway, Moderation

VARIABLE part

Parts == {"accounts", "invites", "limiter", "gateway", "moderation"}

vars == <<accountVars, inviteVars, rateVars, gateVars, moderationVars, part>>

TypeOK ==
    /\ part \in Parts
    /\ AccountTypeOK /\ InviteTypeOK /\ RateTypeOK /\ GateTypeOK /\ ModerationTypeOK

Init ==
    /\ part \in Parts
    /\ AccountInit /\ InviteInit /\ RateInit /\ GateInit /\ ModerationInit
    /\ part # "moderation" => ~configured \* nothing else looks at it

\* A part that is not at work.
Rests(p, partVars) == part # p => UNCHANGED partVars

Next ==
    /\ UNCHANGED part
    /\ Rests("accounts", accountVars) /\ Rests("invites", inviteVars)
    /\ Rests("limiter", rateVars) /\ Rests("gateway", gateVars)
    /\ Rests("moderation", moderationVars)
    /\ \/ part = "accounts" /\ AccountNext
       \/ part = "invites" /\ InviteNext
       \/ part = "limiter" /\ RateNext
       \/ part = "gateway" /\ GateNext
       \/ part = "moderation" /\ ModerationNext

Spec == Init /\ [][Next]_vars
=============================================================================
