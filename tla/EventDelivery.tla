--------------------------- MODULE EventDelivery ---------------------------
(***************************************************************************)
(* What the transactional outbox promises the rest of the system, whatever *)
(* the relays, the broker and the processes do in between: an event is     *)
(* committed with its transaction, is written to Kafka at least once, in   *)
(* any number of copies and in any order, and its row is deleted only      *)
(* after that.  OutboxRelay implements this; ArticlePipeline builds on it. *)
(***************************************************************************)
EXTENDS Naturals

CONSTANT MaxEvent  \* bound: events ever committed

VARIABLES
    committed,  \* events committed so far: 1..committed
    written,    \* copies of each event ever appended to its topic
    forgotten   \* events whose row is deleted

vars == <<committed, written, forgotten>>

Event == 1..MaxEvent

Init ==
    /\ committed = 0
    /\ written = [e \in Event |-> 0]
    /\ forgotten = {}

Commit ==
    /\ committed < MaxEvent
    /\ committed' = committed + 1
    /\ UNCHANGED <<written, forgotten>>

\* One write to the broker can carry several events.
Write(E) ==
    /\ E \subseteq 1..committed
    /\ written' = [e \in Event |-> IF e \in E THEN written[e] + 1 ELSE written[e]]
    /\ UNCHANGED <<committed, forgotten>>

Forget(E) ==
    /\ \A e \in E : e \in 1..committed /\ written[e] > 0
    /\ forgotten' = forgotten \cup E
    /\ UNCHANGED <<committed, written>>

Next ==
    \/ Commit
    \/ \E E \in SUBSET Event : Write(E) \/ Forget(E)

Spec == Init /\ [][Next]_vars
=============================================================================
