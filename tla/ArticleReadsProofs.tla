------------------------- MODULE ArticleReadsProofs -------------------------
(***************************************************************************)
(* Proofs about the reads of articles: the cache of articles (first), for  *)
(* any processes, readers, writers, versions and faults; the cache of a    *)
(* list, for any processes, requests and times to live; the pages of a     *)
(* table that changes, for any articles, readers and size of a page.       *)
(***************************************************************************)
EXTENDS ArticleReads, FiniteSetTheorems, TLAPS

----------------------------------------------------------------------------
(* Types *)

\* No copy at all counts as a version.
LEMMA NoneLemma == None \in Version
BY CacheAssumption DEF None, Version

\* The idle states are states.
LEMMA IdleLemma ==
  /\ SomeNode \in Node
  /\ IdleReader \in ReaderState
  /\ IdleWriter \in WriterState
  /\ IdleReader.pc = "idle" /\ IdleWriter.pc = "idle"
<1>1. SomeNode \in Node
  BY CacheAssumption DEF SomeNode
<1> QED
  BY <1>1, NoneLemma DEF IdleReader, IdleWriter, ReaderState, WriterState, ReaderPc, WriterPc

\* What FindOne finds is a version.
LEMMA FoundLemma == TypeOK => Found \in Version
BY NoneLemma DEF TypeOK, Found

\* A reader that goes on is still a reader.
LEMMA GotoLemma ==
  ASSUME TypeOK, NEW r \in Reader, NEW pc \in ReaderPc, Goto(r, pc)
  PROVE  reader' \in [Reader -> ReaderState]
BY DEF TypeOK, Goto, ReaderState

\* So is one that goes on with a version in hand.
LEMMA HoldingLemma ==
  ASSUME TypeOK, NEW r \in Reader, NEW pc \in ReaderPc, NEW v \in Version, Holding(r, pc, v)
  PROVE  reader' \in [Reader -> ReaderState]
BY DEF TypeOK, Holding, ReaderState

\* The same of the end of GetDetail.
LEMMA GetDetailLemma ==
  ASSUME TypeOK, NEW r \in Reader, NEW v \in Version, GetDetailReturns(r, v)
  PROVE  reader' \in [Reader -> ReaderState]
BY HoldingLemma DEF GetDetailReturns, ReaderPc

\* Storing in the local cache keeps its type.
LEMMA SetLocalLemma ==
  ASSUME TypeOK, NEW r \in Reader, SetLocal(r)
  PROVE  local' \in [Node -> Version] /\ late' \in BOOLEAN
BY DEF TypeOK, SetLocal, ReaderState, Stale, Invalidating

\* Steps of a reader keep the types.
LEMMA ReadStepType ==
  ASSUME TypeOK, NEW r \in Reader, ReadStep(r) \/ ReadFault(r) \/ GetArticle(r)
  PROVE  TypeOK'
<1> USE DEF storeVars, nodeVars, history
<1>0. /\ reader[r] \in ReaderState
      /\ reader[r].found \in Version /\ Of(r) \in Node
      /\ None \in Version
  <2>1. reader[r] \in ReaderState
    BY DEF TypeOK
  <2> QED
    BY <2>1, NoneLemma DEF ReaderState, Of
<1>1. CASE GetArticle(r)
  <2>1. PICK n \in Node : reader' = [reader EXCEPT ![r] =
            [IdleReader EXCEPT !.pc = "get", !.node = n, !.absent = ~row.live]]
    BY <1>1 DEF GetArticle
  <2>2. ASSUME NEW b \in BOOLEAN
        PROVE  [IdleReader EXCEPT !.pc = "get", !.node = n, !.absent = b] \in ReaderState
    BY IdleLemma DEF ReaderState, ReaderPc
  <2>3. (~row.live) \in BOOLEAN
    OBVIOUS
  <2>4. reader' \in [Reader -> ReaderState]
    BY <2>1, <2>2, <2>3 DEF TypeOK
  <2> QED
    BY <1>1, <2>4 DEF GetArticle, TypeOK
<1>2. CASE GetLocal(r)
  <2>1. local[Of(r)] \in Version
    BY <1>0 DEF TypeOK
  <2>2. reader' \in [Reader -> ReaderState]
    BY <1>2, <2>1, GetDetailLemma, GotoLemma DEF GetLocal, ReaderPc
  <2> QED
    BY <1>2, <2>2 DEF GetLocal, TypeOK
<1>3. CASE IsNilDetail(r)
  <2>1. reader' \in [Reader -> ReaderState]
    BY <1>0, <1>3, GetDetailLemma, GotoLemma DEF IsNilDetail, ReaderPc
  <2> QED
    BY <1>3, <2>1 DEF IsNilDetail, TypeOK
<1>4. CASE GetRedis(r)
  <2>1. reader' \in [Reader -> ReaderState]
    BY <1>0, <1>4, GetDetailLemma, HoldingLemma DEF GetRedis, ReaderPc, TypeOK
  <2> QED
    BY <1>4, <2>1 DEF GetRedis, TypeOK
<1>5. CASE CopyToLocal(r)
  BY <1>0, <1>5, GetDetailLemma, SetLocalLemma DEF CopyToLocal, TypeOK
<1>6. CASE EnterFlight(r)
  <2>1. flight[Of(r)] \in BOOLEAN
    BY <1>0 DEF TypeOK
  <2>2. ASSUME NEW pc \in ReaderPc, NEW b \in BOOLEAN
        PROVE  [reader EXCEPT ![r].pc = pc, ![r].leading = b] \in [Reader -> ReaderState]
    BY DEF TypeOK, ReaderState
  <2>3. /\ (IF flight[Of(r)] THEN "wait" ELSE "get") \in ReaderPc
        /\ (~flight[Of(r)]) \in BOOLEAN
    BY DEF ReaderPc
  <2>4. reader' \in [Reader -> ReaderState]
    BY <1>6, <2>2, <2>3 DEF EnterFlight
  <2> QED
    BY <1>6, <2>1, <2>4 DEF EnterFlight, TypeOK
<1>7. CASE Load(r)
  <2>1. reader' \in [Reader -> ReaderState]
    BY <1>7, FoundLemma, HoldingLemma DEF Load, ReaderPc
  <2> QED
    BY <1>7, <2>1 DEF Load, TypeOK
<1>8. CASE SetNilDetail(r)
  BY <1>8, GotoLemma DEF SetNilDetail, TypeOK, ReaderPc
<1>9. CASE SetRedis(r)
  <2>1. late' \in BOOLEAN
    BY <1>9 DEF SetRedis, TypeOK, Stale
  <2> QED
    BY <1>0, <1>9, <2>1, GotoLemma DEF SetRedis, TypeOK, ReaderPc
<1>10. CASE SetDetailLocal(r)
  BY <1>10, GotoLemma, SetLocalLemma DEF SetDetailLocal, TypeOK, ReaderPc
<1>11. CASE LeaveFlight(r)
  <2>1. \A q \in Reader : GetOrLoadReturns(reader[q], reader[r].found) \in ReaderState
    BY <1>0 DEF GetOrLoadReturns, TypeOK, ReaderState, ReaderPc
  <2>2. reader' \in [Reader -> ReaderState]
    BY <1>11, <2>1 DEF LeaveFlight, TypeOK
  <2> QED
    BY <1>11, <2>2 DEF LeaveFlight, TypeOK
<1>12. CASE Fallback(r)
  BY <1>12, FoundLemma, HoldingLemma DEF Fallback, TypeOK, ReaderPc
<1>13. CASE Answer(r)
  BY <1>13, IdleLemma DEF Answer, TypeOK
<1>14. CASE ReadFault(r)
  <2>1. reader' \in [Reader -> ReaderState]
    BY <1>0, <1>14, IdleLemma, GotoLemma, GetDetailLemma
    DEF ReadFault, IsNilDetailError, GetRedisError, LoadError, SetError, FallbackError,
        ReaderPc, TypeOK
  <2>2. faults' \in Nat
    BY <1>14 DEF ReadFault, IsNilDetailError, GetRedisError, LoadError, SetError,
                 FallbackError, Fault, TypeOK
  <2> QED
    BY <1>14, <2>1, <2>2 DEF ReadFault, IsNilDetailError, GetRedisError, LoadError,
                             SetError, FallbackError, TypeOK
<1> QED
  BY <1>1, <1>2, <1>3, <1>4, <1>5, <1>6, <1>7, <1>8, <1>9, <1>10, <1>11, <1>12, <1>13, <1>14
  DEF ReadStep

\* So do those that change the row, and those of a writer.
LEMMA WriteStepType ==
  ASSUME TypeOK,
         \/ CreateArticle \/ ReviewedVersion
         \/ \E w \in Writer : Commit(w) \/ WriteStep(w) \/ WriteFault(w)
  PROVE  TypeOK'
<1> USE DEF storeVars, nodeVars, history
<1>1. NewVersion => row' \in [version : Version, live : BOOLEAN] /\ reader' = reader
  BY CacheAssumption DEF NewVersion, TypeOK, Version
<1>2. Deletion => /\ row' \in [version : Version, live : BOOLEAN]
                  /\ reader' \in [Reader -> ReaderState]
  <2>1. \A q \in Reader : [reader[q] EXCEPT !.absent = TRUE] \in ReaderState
    BY DEF TypeOK, ReaderState
  <2>2. Deletion => reader' \in [Reader -> ReaderState]
    BY <2>1 DEF Deletion, TypeOK
  <2>3. Deletion => row' \in [version : Version, live : BOOLEAN]
    BY DEF Deletion, TypeOK
  <2> QED
    BY <2>2, <2>3
<1>3. CASE CreateArticle
  BY <1>3, CacheAssumption DEF CreateArticle, TypeOK, Version
<1>4. CASE ReviewedVersion
  BY <1>1, <1>4 DEF ReviewedVersion, TypeOK
<1>5. ASSUME NEW w \in Writer, Commit(w) PROVE TypeOK'
  <2>1. writer' \in [Writer -> WriterState]
    BY <1>5 DEF Commit, TypeOK, WriterState, WriterPc
  <2> QED
    BY <1>1, <1>2, <1>5, <2>1 DEF Commit, TypeOK
<1>6. ASSUME NEW w \in Writer, WriteStep(w) \/ WriteFault(w) PROVE TypeOK'
  <2>1. writer' \in [Writer -> WriterState]
    BY <1>6, IdleLemma DEF WriteStep, WriteFault, DelRedis, DelLocal, Publish,
                           DelRedisError, PublishError, TypeOK, WriterState, WriterPc
  <2>2. CASE DelRedis(w)
    BY <2>1, <2>2, NoneLemma DEF DelRedis, TypeOK
  <2>3. CASE DelLocal(w)
    BY <2>1, <2>3, NoneLemma DEF DelLocal, TypeOK
  <2>4. CASE Publish(w)
    BY <2>1, <2>4 DEF Publish, TypeOK
  <2>5. CASE WriteFault(w)
    BY <2>1, <2>5 DEF WriteFault, DelRedisError, PublishError, Fault, TypeOK
  <2> QED
    BY <1>6, <2>2, <2>3, <2>4, <2>5 DEF WriteStep
<1> QED
  BY <1>3, <1>4, <1>5, <1>6

\* And those of subscribers, expiry and processes.
LEMMA NodeStepType ==
  ASSUME TypeOK,
         \/ \E n \in Node : NodeStep(n) \/ Disconnect(n) \/ Crash(n)
         \/ RedisExpires \/ NilMarkerExpires
  PROVE  TypeOK'
<1> USE DEF storeVars, nodeVars, history
<1>1. None \in Version
  BY NoneLemma
<1>2. ASSUME NEW n \in Node, HandleInvalidation(n) PROVE TypeOK'
  BY <1>1, <1>2 DEF HandleInvalidation, TypeOK
<1>3. ASSUME NEW n \in Node, Reconnect(n) \/ LocalExpires(n) PROVE TypeOK'
  BY <1>1, <1>3 DEF Reconnect, LocalExpires, TypeOK
<1>4. ASSUME NEW n \in Node, Disconnect(n) PROVE TypeOK'
  BY <1>4 DEF Disconnect, Fault, TypeOK
<1>5. ASSUME NEW n \in Node, Crash(n) PROVE TypeOK'
  BY <1>1, <1>5, IdleLemma DEF Crash, Fault, TypeOK
<1>6. CASE RedisExpires \/ NilMarkerExpires
  BY <1>1, <1>6 DEF RedisExpires, NilMarkerExpires, TypeOK
<1> QED
  BY <1>2, <1>3, <1>4, <1>5, <1>6 DEF NodeStep

\* Every step keeps the types.
LEMMA TypeStep == TypeOK /\ [Next]_vars => TypeOK'
<1>1. CASE UNCHANGED vars
  BY <1>1 DEF vars, storeVars, nodeVars, history, TypeOK
<1> QED
  BY <1>1, ReadStepType, WriteStepType, NodeStepType DEF Next

\* The types hold at the start.
LEMMA InitType == Init => TypeOK
<1>1. 1 \in Version
  BY CacheAssumption DEF Version
<1> SUFFICES ASSUME Init PROVE TypeOK
  OBVIOUS
<1>2. row \in [version : Version, live : BOOLEAN] /\ redis \in Version
  <2>1. [version |-> None, live |-> FALSE] \in [version : Version, live : BOOLEAN]
    BY NoneLemma
  <2>2. [version |-> 1, live |-> TRUE] \in [version : Version, live : BOOLEAN]
    BY <1>1
  <2> QED
    BY <2>1, <2>2, NoneLemma DEF Init
<1>3. reader \in [Reader -> ReaderState] /\ writer \in [Writer -> WriterState]
  BY IdleLemma DEF Init
<1> QED
  BY <1>2, <1>3, NoneLemma DEF Init, TypeOK

\* Rows, keys, local caches, subscribers, readers and writers keep their types
\* through every step of GetOrLoadDetail, DelDetail and the subscriber
\* (article_cache.go:66-125, 188-229, 330-387).
THEOREM TypeCorrect == Spec => []TypeOK
BY InitType, TypeStep, PTL DEF Spec

----------------------------------------------------------------------------
(* Answers *)

\* What a reader knows, by where it is.  Whoever is at work while the article is
\* gone has noticed; a copy about to be stored is a copy; a flight that comes
\* back with nothing found nothing, and nothing has come since, or it failed.
ReaderOK(s) ==
    /\ s.pc # "idle" /\ ~row.live => s.absent
    /\ s.pc = "answered" /\ s.found = None => s.absent
    /\ s.pc \in {"copy", "setRedis", "setLocal"} => s.found # None
    /\ s.pc \in {"setNil", "leave"} /\ s.found = None => ~row.live \/ created \/ faults > 0
    /\ s.pc = "fallback" => s.absent \/ created \/ faults > 0

\* And a live article has a version.
Answers ==
    /\ row.live => row.version # None
    /\ \A r \in Reader : ReaderOK(reader[r])

\* Nobody has asked at the start.
LEMMA AnswersInit == Init => Answers
<1> SUFFICES ASSUME Init PROVE Answers
  OBVIOUS
<1>1. row.live => row.version # None
  BY DEF Init, None
<1>2. \A r \in Reader : reader[r].pc = "idle"
  BY IdleLemma DEF Init
<1> QED
  BY <1>1, <1>2 DEF Answers, ReaderOK

\* A step of one reader that leaves the row alone need be looked at only where
\* that reader goes.
LEMMA OneReader ==
  ASSUME TypeOK, Answers, NEW r \in Reader, NEW s,
         reader' = [reader EXCEPT ![r] = s],
         UNCHANGED <<row, created>>, faults' \in Nat, faults' >= faults,
         ReaderOK(s)
  PROVE  Answers'
<1>1. ASSUME NEW q \in Reader PROVE ReaderOK(reader[q])'
  <2>1. faults \in Nat /\ reader \in [Reader -> ReaderState]
    BY DEF TypeOK
  <2>2. CASE q = r
    <3>1. reader'[q] = s
      BY <2>1, <2>2
    <3> QED
      BY <2>1, <3>1 DEF ReaderOK
  <2>3. CASE q # r
    <3>1. reader'[q] = reader[q] /\ ReaderOK(reader[q])
      BY <2>1, <2>3 DEF Answers
    <3> QED
      BY <2>1, <3>1 DEF ReaderOK
  <2> QED
    BY <2>2, <2>3
<1> QED
  BY <1>1 DEF Answers

\* GetDetail returns a copy, or sends the reader on to look further.
LEMMA GetDetailAnswers ==
  ASSUME TypeOK, Answers, NEW r \in Reader, NEW v \in Version,
         ~At(r, "idle"),
         UNCHANGED <<row, created>>, faults' \in Nat, faults' >= faults,
         GetDetailReturns(r, v)
  PROVE  Answers'
<1> DEFINE pc == IF reader[r].leading THEN (IF v = None THEN "load" ELSE "leave")
                 ELSE (IF v = None THEN "enter" ELSE "answered")
           s == [reader[r] EXCEPT !.pc = pc, !.found = v]
<1>1. reader[r] \in ReaderState /\ ReaderOK(reader[r])
  BY DEF TypeOK, Answers
<1>2. reader' = [reader EXCEPT ![r] = s]
  BY DEF GetDetailReturns, Holding
<1>3. s.pc = pc /\ s.found = v /\ s.absent = reader[r].absent
  BY <1>1 DEF ReaderState
<1>4. ReaderOK(s)
  <2>1. pc \in {"load", "enter"} \/ (pc \in {"leave", "answered"} /\ v # None)
    OBVIOUS
  <2> HIDE DEF pc, s
  <2> QED
    BY <1>1, <1>3, <2>1 DEF ReaderOK, At
<1> QED
  BY <1>2, <1>4, OneReader

\* Any other step to pc, with v in hand, that pc asks nothing of or that has
\* what pc asks for.
LEMMA HoldingAnswers ==
  ASSUME TypeOK, Answers, NEW r \in Reader, NEW pc, NEW v,
         ~At(r, "idle"),
         UNCHANGED <<row, created>>, faults' \in Nat, faults' >= faults,
         Holding(r, pc, v),
         pc \in {"copy", "setRedis", "setLocal"} => v # None,
         pc \in {"setNil", "leave"} => v # None \/ ~row.live \/ created \/ faults > 0,
         pc # "fallback",
         pc = "answered" => v # None \/ ~row.live
  PROVE  Answers'
<1> DEFINE s == [reader[r] EXCEPT !.pc = pc, !.found = v]
<1>1. reader[r] \in ReaderState /\ ReaderOK(reader[r])
  BY DEF TypeOK, Answers
<1>2. reader' = [reader EXCEPT ![r] = s]
  BY DEF Holding
<1>3. s.pc = pc /\ s.found = v /\ s.absent = reader[r].absent
  BY <1>1 DEF ReaderState
<1>4. ReaderOK(s)
  <2> HIDE DEF s
  <2> QED
    BY <1>1, <1>3 DEF ReaderOK, At
<1> QED
  BY <1>2, <1>4, OneReader

\* Steps of a reader keep the invariant.
LEMMA ReadStepAnswers ==
  ASSUME TypeOK, TypeOK', Answers, NEW r \in Reader, ReadStep(r) \/ ReadFault(r) \/ GetArticle(r)
  PROVE  Answers'
<1> USE DEF storeVars, nodeVars, history
<1>0. /\ reader \in [Reader -> ReaderState] /\ reader[r] \in ReaderState
      /\ ReaderOK(reader[r]) /\ faults \in Nat /\ None \in Version
      /\ reader[r].found \in Version /\ Of(r) \in Node
  <2>1. reader[r] \in ReaderState
    BY DEF TypeOK
  <2> QED
    BY <2>1, NoneLemma DEF TypeOK, Answers, ReaderState, Of
<1>1. CASE GetArticle(r)
  <2>1. PICK n \in Node : reader' = [reader EXCEPT ![r] =
            [IdleReader EXCEPT !.pc = "get", !.node = n, !.absent = ~row.live]]
    BY <1>1 DEF GetArticle
  <2> DEFINE s == [IdleReader EXCEPT !.pc = "get", !.node = n, !.absent = ~row.live]
  <2>2. reader' = [reader EXCEPT ![r] = s] /\ ReaderOK(s)
    <3>1. s.pc = "get" /\ s.absent = ~row.live
      BY DEF IdleReader
    <3>2. ~row.live => s.absent
      BY <3>1, Zenon
    <3> HIDE DEF s
    <3> QED
      BY <2>1, <3>1, <3>2 DEF ReaderOK, s
  <2>3. UNCHANGED <<row, created>> /\ faults' \in Nat /\ faults' >= faults
    <3>1. UNCHANGED <<storeVars, nodeVars, writer, history, faults>>
      BY <1>1, Zenon DEF GetArticle
    <3> QED
      BY <1>0, <3>1
  <2> HIDE DEF s
  <2> QED
    BY <2>2, <2>3, OneReader
<1>2. CASE GetLocal(r)
  <2>1. local[Of(r)] \in Version
    BY <1>0 DEF TypeOK
  <2>2. CASE local[Of(r)] # None
    BY <1>0, <1>2, <2>1, <2>2, GetDetailAnswers DEF GetLocal, At
  <2>3. CASE local[Of(r)] = None
    <3>1. Holding(r, "nil", reader[r].found)
      BY <1>0, <1>2, <2>3 DEF GetLocal, Goto, Holding, ReaderState
    <3> QED
      BY <1>0, <1>2, <3>1, HoldingAnswers DEF GetLocal, At
  <2> QED
    BY <2>2, <2>3
<1>3. CASE IsNilDetail(r)
  <2>1. CASE nilMarker
    BY <1>0, <1>3, <2>1, GetDetailAnswers DEF IsNilDetail, At
  <2>2. CASE ~nilMarker
    <3>1. Holding(r, "redis", reader[r].found)
      BY <1>0, <1>3, <2>2 DEF IsNilDetail, Goto, Holding, ReaderState
    <3> QED
      BY <1>0, <1>3, <3>1, HoldingAnswers DEF IsNilDetail, At
  <2> QED
    BY <2>1, <2>2
<1>4. CASE GetRedis(r)
  <2>1. CASE redis = None
    BY <1>0, <1>4, <2>1, GetDetailAnswers DEF GetRedis, At
  <2>2. CASE redis # None
    BY <1>0, <1>4, <2>2, HoldingAnswers DEF GetRedis, At
  <2> QED
    BY <2>1, <2>2
<1>5. CASE CopyToLocal(r)
  BY <1>0, <1>5, GetDetailAnswers DEF CopyToLocal, At
<1>6. CASE EnterFlight(r)
  <2> DEFINE pc == IF flight[Of(r)] THEN "wait" ELSE "get"
             s == [reader[r] EXCEPT !.pc = pc, !.leading = ~flight[Of(r)]]
  <2>1. reader' = [reader EXCEPT ![r] = s]
    BY <1>0, <1>6 DEF EnterFlight
  <2>2. s.pc = pc /\ s.found = reader[r].found /\ s.absent = reader[r].absent
    BY <1>0 DEF ReaderState
  <2>3. ReaderOK(s)
    <3>1. pc \in {"wait", "get"} /\ reader[r].pc = "enter"
      BY <1>6 DEF EnterFlight, At
    <3> HIDE DEF pc, s
    <3> QED
      BY <1>0, <2>2, <3>1 DEF ReaderOK
  <2>4. UNCHANGED <<row, created>> /\ faults' \in Nat /\ faults' >= faults
    BY <1>0, <1>6 DEF EnterFlight
  <2> HIDE DEF pc, s
  <2> QED
    BY <2>1, <2>3, <2>4, OneReader
<1>7. CASE Load(r)
  <2>1. Found = None => ~row.live
    BY DEF Answers, Found
  <2> QED
    BY <1>0, <1>7, <2>1, HoldingAnswers DEF Load, At
<1>8. CASE SetNilDetail(r)
  <2>1. Holding(r, "leave", reader[r].found)
    BY <1>0, <1>8 DEF SetNilDetail, Goto, Holding, ReaderState
  <2>2. reader[r].found # None \/ ~row.live \/ created \/ faults > 0
    BY <1>0, <1>8 DEF SetNilDetail, At, ReaderOK
  <2> QED
    BY <1>0, <1>8, <2>1, <2>2, HoldingAnswers DEF SetNilDetail, At
<1>9. CASE SetRedis(r)
  <2>1. Holding(r, "setLocal", reader[r].found)
    BY <1>0, <1>9 DEF SetRedis, Goto, Holding, ReaderState
  <2> QED
    BY <1>0, <1>9, <2>1, HoldingAnswers DEF SetRedis, At, ReaderOK
<1>10. CASE SetDetailLocal(r)
  <2>1. Holding(r, "leave", reader[r].found)
    BY <1>0, <1>10 DEF SetDetailLocal, Goto, Holding, ReaderState
  <2> QED
    BY <1>0, <1>10, <2>1, HoldingAnswers DEF SetDetailLocal, At, ReaderOK
<1>11. CASE LeaveFlight(r)
  <2>1. ASSUME NEW q \in Reader PROVE ReaderOK(reader[q])'
    <3>1. reader[q] \in ReaderState /\ ReaderOK(reader[q])
      BY <1>0 DEF Answers
    <3>2. CASE q = r \/ (At(q, "wait") /\ Of(q) = Of(r))
      <4>1. reader'[q] = GetOrLoadReturns(reader[q], reader[r].found)
        BY <1>11, <3>2 DEF LeaveFlight
      <4>2. /\ reader'[q].pc = IF reader[r].found = None THEN "fallback" ELSE "answered"
            /\ reader'[q].found = reader[r].found /\ reader'[q].absent = reader[q].absent
        BY <3>1, <4>1 DEF GetOrLoadReturns, ReaderState
      <4>3. reader[q].pc # "idle" /\ reader[r].pc = "leave"
        BY <1>11, <3>2 DEF LeaveFlight, At
      <4> QED
        BY <1>0, <1>11, <3>1, <4>2, <4>3 DEF LeaveFlight, ReaderOK
    <3>3. CASE ~(q = r \/ (At(q, "wait") /\ Of(q) = Of(r)))
      <4>1. reader'[q] = reader[q]
        BY <1>11, <3>3 DEF LeaveFlight
      <4> QED
        BY <1>11, <3>1, <4>1 DEF LeaveFlight, ReaderOK
    <3> QED
      BY <3>2, <3>3
  <2> QED
    BY <1>11, <2>1 DEF LeaveFlight, Answers
<1>12. CASE Fallback(r)
  <2>1. Found = None => ~row.live
    BY DEF Answers, Found
  <2> QED
    BY <1>0, <1>12, <2>1, HoldingAnswers DEF Fallback, At
<1>13. CASE Answer(r)
  <2>1. ReaderOK(IdleReader)
    BY IdleLemma DEF ReaderOK
  <2>2. reader' = [reader EXCEPT ![r] = IdleReader]
    BY <1>13 DEF Answer
  <2>3. UNCHANGED <<row, created>> /\ faults' \in Nat /\ faults' >= faults
    BY <1>0, <1>13 DEF Answer
  <2> QED
    BY <2>1, <2>2, <2>3, OneReader
<1>14. CASE ReadFault(r)
  <2>0. faults' \in Nat /\ faults' >= faults /\ faults' > 0 /\ UNCHANGED <<row, created>>
    BY <1>0, <1>14 DEF ReadFault, IsNilDetailError, GetRedisError, LoadError, SetError,
                       FallbackError, Fault
  <2>1. CASE IsNilDetailError(r)
    <3>1. Holding(r, "redis", reader[r].found)
      BY <1>0, <2>1 DEF IsNilDetailError, Goto, Holding, ReaderState
    <3> QED
      BY <2>0, <2>1, <3>1, HoldingAnswers DEF IsNilDetailError, At
  <2>2. CASE GetRedisError(r)
    BY <1>0, <2>0, <2>2, GetDetailAnswers DEF GetRedisError, At
  <2>3. CASE LoadError(r) \/ SetError(r)
    <3>1. reader' = [reader EXCEPT ![r] = [reader[r] EXCEPT !.pc = "leave"]]
          /\ reader[r].pc # "idle"
      BY <1>0, <2>3 DEF LoadError, SetError, Goto, At
    <3>2. ASSUME NEW q \in Reader PROVE ReaderOK(reader[q])'
      <4>1. reader[q] \in ReaderState /\ ReaderOK(reader[q])
        BY <1>0 DEF Answers
      <4>2. /\ reader'[q].found = reader[q].found /\ reader'[q].absent = reader[q].absent
            /\ (reader'[q].pc = reader[q].pc \/ (reader'[q].pc = "leave" /\ reader[q].pc # "idle"))
        BY <1>0, <3>1, <4>1 DEF ReaderState
      <4> QED
        BY <1>0, <2>0, <4>1, <4>2 DEF ReaderOK
    <3> QED
      BY <2>0, <3>2 DEF Answers
  <2>4. CASE FallbackError(r)
    <3>1. ReaderOK(IdleReader)
      BY IdleLemma DEF ReaderOK
    <3> QED
      BY <2>0, <2>4, <3>1, OneReader DEF FallbackError
  <2> QED
    BY <1>14, <2>1, <2>2, <2>3, <2>4 DEF ReadFault
<1> QED
  BY <1>1, <1>2, <1>3, <1>4, <1>5, <1>6, <1>7, <1>8, <1>9, <1>10, <1>11, <1>12, <1>13, <1>14
  DEF ReadStep

\* Every other step either leaves the readers and the liveness of the row as
\* they are, or creates the article, or deletes it under everybody's eyes, or
\* takes the readers of a process away.
LEMMA AnswersStep == TypeOK /\ TypeOK' /\ Answers /\ [Next]_vars => Answers'
<1> SUFFICES ASSUME TypeOK, TypeOK', Answers, [Next]_vars PROVE Answers'
  OBVIOUS
<1> USE DEF storeVars, nodeVars, history
<1>0. /\ faults \in Nat /\ row \in [version : Version, live : BOOLEAN]
      /\ \A r \in Reader : reader[r] \in ReaderState /\ ReaderOK(reader[r])
  BY DEF TypeOK, Answers
<1>1. ASSUME reader' = reader, row'.live = row.live, row'.live => row'.version # None,
             created' = created, faults' \in Nat, faults' >= faults
      PROVE  Answers'
  BY <1>0, <1>1 DEF Answers, ReaderOK
<1>2. CASE CreateArticle
  BY <1>0, <1>2 DEF CreateArticle, Answers, ReaderOK, None
<1>3. NewVersion => /\ reader' = reader /\ row'.live = row.live
                    /\ row'.live => row'.version # None
  <2> SUFFICES ASSUME NewVersion
               PROVE  /\ reader' = reader /\ row'.live = row.live
                      /\ row'.live => row'.version # None
    OBVIOUS
  <2>1. row'.live = row.live /\ row'.version = row.version + 1
    BY <1>0 DEF NewVersion
  <2>2. row.version \in Nat
    BY <1>0, CacheAssumption DEF Version
  <2>3. row'.version # None
    BY <2>1, <2>2 DEF None
  <2>4. reader' = reader
    BY DEF NewVersion
  <2> QED
    BY <2>1, <2>3, <2>4, Zenon
<1>4. CASE ReviewedVersion
  BY <1>0, <1>1, <1>3, <1>4 DEF ReviewedVersion
<1>5. ASSUME NEW w \in Writer, Commit(w) PROVE Answers'
  <2>1. CASE NewVersion
    BY <1>0, <1>1, <1>3, <1>5, <2>1 DEF Commit
  <2>2. CASE Deletion
    <3>1. UNCHANGED <<created, faults>> /\ row'.live = FALSE
      BY <1>0, <1>5, <2>2 DEF Commit, Deletion
    <3>2. ASSUME NEW r \in Reader PROVE ReaderOK(reader[r])'
      <4>1. CASE At(r, "idle")
        <5>1. reader'[r] = reader[r] /\ reader[r].pc = "idle"
          BY <2>2, <4>1 DEF Deletion, At
        <5> QED
          BY <5>1 DEF ReaderOK
      <4>2. CASE ~At(r, "idle")
        <5>1. reader[r] \in ReaderState /\ ReaderOK(reader[r])
          BY <1>0
        <5>2. reader'[r] = [reader[r] EXCEPT !.absent = TRUE]
          BY <2>2, <4>2 DEF Deletion
        <5>3. /\ reader'[r].pc = reader[r].pc /\ reader'[r].found = reader[r].found
              /\ reader'[r].absent
          BY <5>1, <5>2 DEF ReaderState
        <5> QED
          BY <3>1, <5>1, <5>3 DEF ReaderOK
      <4> QED
        BY <4>1, <4>2
    <3> QED
      BY <3>1, <3>2 DEF Answers
  <2> QED
    BY <1>5, <2>1, <2>2 DEF Commit
<1>6. ASSUME NEW w \in Writer, WriteStep(w) \/ WriteFault(w) PROVE Answers'
  BY <1>0, <1>1, <1>6 DEF WriteStep, WriteFault, DelRedis, DelLocal, Publish, DelRedisError,
                          PublishError, Fault, Answers
<1>7. ASSUME NEW n \in Node, NodeStep(n) \/ Disconnect(n) PROVE Answers'
  BY <1>0, <1>1, <1>7 DEF NodeStep, HandleInvalidation, Reconnect, LocalExpires, Disconnect,
                          Fault, Answers
<1>8. ASSUME NEW n \in Node, Crash(n) PROVE Answers'
  <2>1. UNCHANGED <<row, created>> /\ faults' > 0
    BY <1>0, <1>8 DEF Crash, Fault
  <2>2. ASSUME NEW r \in Reader PROVE ReaderOK(reader[r])'
    <3>1. reader'[r] = IdleReader \/ reader'[r] = reader[r]
      BY <1>8 DEF Crash
    <3> QED
      BY <1>0, <2>1, <3>1, IdleLemma DEF ReaderOK
  <2> QED
    BY <2>1, <2>2 DEF Answers
<1>9. CASE RedisExpires \/ NilMarkerExpires \/ UNCHANGED vars
  BY <1>0, <1>1, <1>9 DEF RedisExpires, NilMarkerExpires, vars, Answers
<1> QED
  BY <1>2, <1>4, <1>5, <1>6, <1>7, <1>8, <1>9, ReadStepAnswers DEF Next

\* GetArticle says "not found" only of an article that was absent at some moment
\* of the request, however the nil marker, Redis and singleflight behaved
\* (article_cache.go:73-91, get_article_logic.go:88-115).
THEOREM AnswersAreHonest == Spec => []NotFoundOnlyIfAbsent
<1>1. Answers => NotFoundOnlyIfAbsent
  BY DEF Answers, ReaderOK, NotFoundOnlyIfAbsent, At
<1> QED
  BY <1>1, AnswersInit, AnswersStep, TypeCorrect, PTL DEF Spec

\* A request goes on to a query of its own only if the article was absent, was
\* created meanwhile, or something failed: who waits in singleflight shares what
\* the leader loaded (article_cache.go:188-229).
THEOREM WaitersShare == Spec => []FallThroughIsRare
<1>1. Answers => FallThroughIsRare
  BY DEF Answers, ReaderOK, FallThroughIsRare, At
<1> QED
  BY <1>1, AnswersInit, AnswersStep, TypeCorrect, PTL DEF Spec

----------------------------------------------------------------------------
(* Copies *)

\* Nothing was stored late, written silently or lost; whatever is out of date is
\* about to go; and everyone listens until something fails.
Quiet == ~late /\ ~silent /\ faults = 0
RedisOK == Stale(redis) => \E w \in Writer : writer[w].pc = "delRedis"
LocalOK == \A n \in Node : Stale(local[n]) => Invalidating(n)
Copies ==
    /\ OnlyLateCopiesAreStale
    /\ faults = 0 => \A n \in Node : connected[n]

\* Nothing is cached at the start.
LEMMA CopiesInit == Init => Copies
BY DEF Init, Copies, OnlyLateCopiesAreStale, Stale, None

\* Nobody undoes what disturbs the quiet, and in it no fault happens.
LEMMA QuietStep ==
  ASSUME TypeOK, Copies, [Next]_vars, Quiet'
  PROVE  Quiet /\ RedisOK /\ LocalOK /\ (\A n \in Node : connected[n]) /\ faults' = faults
<1> USE DEF storeVars, nodeVars, history
<1>1. faults \in Nat /\ late \in BOOLEAN /\ silent \in BOOLEAN
  BY DEF TypeOK
<1>2. faults' = faults \/ faults' = faults + 1
  BY DEF Next, ReadStep, ReadFault, WriteStep, WriteFault, NodeStep, GetArticle, GetLocal,
         IsNilDetail, GetRedis, CopyToLocal, EnterFlight, Load, SetNilDetail, SetRedis,
         SetDetailLocal, LeaveFlight, Fallback, Answer, IsNilDetailError, GetRedisError,
         LoadError, SetError, FallbackError, CreateArticle, ReviewedVersion, Commit, DelRedis,
         DelLocal, Publish, DelRedisError, PublishError, HandleInvalidation, Reconnect,
         LocalExpires, Disconnect, Crash, RedisExpires, NilMarkerExpires, Fault, vars
<1>3. (late => late') /\ (silent => silent')
  BY <1>1 DEF Next, ReadStep, ReadFault, WriteStep, WriteFault, NodeStep, GetArticle, GetLocal,
         IsNilDetail, GetRedis, CopyToLocal, EnterFlight, Load, SetNilDetail, SetRedis,
         SetDetailLocal, LeaveFlight, Fallback, Answer, IsNilDetailError, GetRedisError,
         LoadError, SetError, FallbackError, CreateArticle, ReviewedVersion, Commit, DelRedis,
         DelLocal, Publish, DelRedisError, PublishError, HandleInvalidation, Reconnect,
         LocalExpires, Disconnect, Crash, RedisExpires, NilMarkerExpires, SetLocal, vars
<1> QED
  BY <1>1, <1>2, <1>3 DEF Quiet, Copies, OnlyLateCopiesAreStale, RedisOK, LocalOK

\* Everyone listens until something fails.
LEMMA ConnectedStep ==
  ASSUME TypeOK, Copies, [Next]_vars, faults' = 0
  PROVE  \A n \in Node : connected'[n]
<1> USE DEF storeVars, nodeVars, history
<1>1. faults \in Nat
  BY DEF TypeOK
<1>2. ASSUME NEW kind, Fault(kind) PROVE FALSE
  BY <1>1, <1>2 DEF Fault
<1>3. CASE UNCHANGED <<connected, faults>>
  BY <1>3 DEF Copies
<1>4. ASSUME NEW n \in Node, Reconnect(n) PROVE \A m \in Node : connected'[m]
  BY <1>4 DEF Reconnect, Copies
<1> QED
  BY <1>2, <1>3, <1>4
  DEF Next, ReadStep, ReadFault, WriteStep, WriteFault, NodeStep, GetArticle, GetLocal,
      IsNilDetail, GetRedis, CopyToLocal, EnterFlight, Load, SetNilDetail, SetRedis,
      SetDetailLocal, LeaveFlight, Fallback, Answer, IsNilDetailError, GetRedisError,
      LoadError, SetError, FallbackError, CreateArticle, ReviewedVersion, Commit, DelRedis,
      DelLocal, Publish, DelRedisError, PublishError, HandleInvalidation, LocalExpires,
      Disconnect, Crash, RedisExpires, NilMarkerExpires, vars

\* Every step keeps the invariant: one that changes the row begins an
\* invalidation, an invalidation ends when the copies it is for are gone, and a
\* copy stored out of date is stored late.
LEMMA CopiesStep == TypeOK /\ Copies /\ [Next]_vars => Copies'
<1> SUFFICES ASSUME TypeOK, Copies, [Next]_vars, Quiet'
             PROVE  RedisOK' /\ LocalOK'
  BY ConnectedStep DEF Copies, OnlyLateCopiesAreStale, Quiet, RedisOK, LocalOK
<1> USE DEF storeVars, nodeVars, history
<1>0. /\ Quiet /\ RedisOK /\ LocalOK /\ faults' = faults /\ faults \in Nat
      /\ \A n \in Node : connected[n] /\ inbox[n] \in Nat
      /\ local \in [Node -> Version] /\ inbox \in [Node -> Nat]
      /\ writer \in [Writer -> WriterState]
  BY QuietStep DEF TypeOK
<1>f. ASSUME NEW kind, Fault(kind) PROVE FALSE
  BY <1>0, <1>f DEF Fault
<1>1. ASSUME UNCHANGED <<row, inbox, connected, writer>>,
             redis' \in {redis, None},
             \A n \in Node : local'[n] \in {local[n], None}
      PROVE  RedisOK' /\ LocalOK'
  <2>1. RedisOK'
    BY <1>0, <1>1 DEF RedisOK, Stale, Found
  <2>2. LocalOK'
    BY <1>0, <1>1 DEF LocalOK, Stale, Found, Invalidating
  <2> QED
    BY <1>0, <1>1, <2>1, <2>2
<1>2. ASSUME NEW r \in Reader, GetArticle(r) \/ ReadStep(r) \/ ReadFault(r)
      PROVE  RedisOK' /\ LocalOK'
  <2>1. CASE ReadFault(r)
    BY <1>f, <2>1 DEF ReadFault, IsNilDetailError, GetRedisError, LoadError, SetError,
                      FallbackError
  <2>2. CASE CopyToLocal(r) \/ SetDetailLocal(r)
    <3>1. /\ local' = [local EXCEPT ![Of(r)] = reader[r].found]
          /\ ~(Stale(reader[r].found) /\ ~Invalidating(Of(r)))
          /\ UNCHANGED <<row, redis, inbox, connected, writer>>
      BY <2>2 DEF CopyToLocal, SetDetailLocal, SetLocal, Quiet
    <3>2. RedisOK'
      BY <1>0, <3>1 DEF RedisOK, Stale, Found
    <3>3. ASSUME NEW n \in Node, Stale(local[n])' PROVE Invalidating(n)'
      <4>1. CASE n = Of(r)
        BY <1>0, <3>1, <3>3, <4>1 DEF Stale, Found, Invalidating
      <4>2. CASE n # Of(r)
        BY <1>0, <3>1, <3>3, <4>2 DEF LocalOK, Stale, Found, Invalidating
      <4> QED
        BY <4>1, <4>2
    <3> QED
      BY <1>0, <3>1, <3>2, <3>3 DEF LocalOK
  <2>3. CASE SetRedis(r)
    <3>1. /\ redis' = reader[r].found
          /\ ~(Stale(reader[r].found) /\ ~\E w \in Writer : writer[w].pc = "delRedis")
          /\ UNCHANGED <<row, local, inbox, connected, writer>>
      BY <2>3 DEF SetRedis, Quiet
    <3> QED
      BY <1>0, <3>1 DEF RedisOK, LocalOK, Stale, Found, Invalidating
  <2>4. CASE ~(ReadFault(r) \/ CopyToLocal(r) \/ SetDetailLocal(r) \/ SetRedis(r))
    <3>1. UNCHANGED <<row, redis, local, inbox, connected, writer>>
      BY <1>2, <2>4 DEF ReadStep, GetArticle, GetLocal, IsNilDetail, GetRedis, EnterFlight,
                        Load, SetNilDetail, LeaveFlight, Fallback, Answer
    <3> QED
      BY <1>1, <3>1
  <2> QED
    BY <2>1, <2>2, <2>3, <2>4
<1>3. CASE CreateArticle
  <2>1. ASSUME NEW v, Stale(v)' PROVE Stale(v)
    <3>1. Found = None
      BY <1>3 DEF CreateArticle, Found
    <3> QED
      BY <2>1, <3>1 DEF Stale
  <2>2. UNCHANGED <<redis, local, inbox, connected, writer>>
    BY <1>3 DEF CreateArticle
  <2> QED
    BY <1>0, <2>1, <2>2 DEF RedisOK, LocalOK, Stale, Found, Invalidating
<1>4. CASE ReviewedVersion
  BY <1>4 DEF ReviewedVersion, Quiet
<1>5. ASSUME NEW w \in Writer, Commit(w)
      PROVE  RedisOK' /\ LocalOK'
  <2>1. writer'[w].pc = "delRedis" /\ UNCHANGED connected
    BY <1>0, <1>5 DEF Commit
  <2> QED
    BY <1>0, <2>1 DEF RedisOK, LocalOK, Invalidating
<1>6. ASSUME NEW w \in Writer, WriteStep(w) \/ WriteFault(w)
      PROVE  RedisOK' /\ LocalOK'
  <2>1. CASE WriteFault(w)
    BY <1>f, <2>1 DEF WriteFault, DelRedisError, PublishError
  <2>2. CASE DelRedis(w)
    <3>1. /\ redis' = None /\ UNCHANGED <<row, local, inbox, connected>>
          /\ writer'[w].pc = "delLocal"
      BY <1>0, <2>2 DEF DelRedis, WriterState
    <3> QED
      BY <1>0, <3>1 DEF RedisOK, LocalOK, Stale, Found, Invalidating
  <2>3. CASE DelLocal(w)
    <3>1. /\ UNCHANGED <<row, redis, inbox, connected>>
          /\ writer[w].pc = "delLocal" /\ writer'[w].pc = "publish"
          /\ \A n \in Node : local'[n] \in {local[n], None}
          /\ \A v \in Writer : v # w => writer'[v] = writer[v]
      BY <1>0, <2>3 DEF DelLocal, WriterState
    <3> QED
      BY <1>0, <3>1 DEF RedisOK, LocalOK, Stale, Found, Invalidating
  <2>4. CASE Publish(w)
    <3>1. /\ UNCHANGED <<row, redis, local, connected>>
          /\ writer[w].pc = "publish"
          /\ \A n \in Node : inbox'[n] > 0
          /\ \A v \in Writer : v # w => writer'[v] = writer[v]
      BY <1>0, <2>4 DEF Publish
    <3> QED
      BY <1>0, <3>1 DEF RedisOK, LocalOK, Stale, Found, Invalidating
  <2> QED
    BY <1>6, <2>1, <2>2, <2>3, <2>4 DEF WriteStep
<1>7. ASSUME NEW n \in Node, NodeStep(n) \/ Disconnect(n) \/ Crash(n)
      PROVE  RedisOK' /\ LocalOK'
  <2>1. CASE Disconnect(n) \/ Crash(n)
    BY <1>f, <2>1 DEF Disconnect, Crash
  <2>2. CASE HandleInvalidation(n)
    <3>1. /\ UNCHANGED <<row, redis, connected, writer>>
          /\ local'[n] = None
          /\ \A m \in Node : m # n => local'[m] = local[m] /\ inbox'[m] = inbox[m]
      BY <1>0, <2>2 DEF HandleInvalidation
    <3> QED
      BY <1>0, <3>1 DEF RedisOK, LocalOK, Stale, Found, Invalidating
  <2>3. CASE Reconnect(n)
    BY <1>0, <2>3 DEF Reconnect
  <2>4. CASE LocalExpires(n)
    BY <1>0, <1>1, <2>4 DEF LocalExpires
  <2> QED
    BY <1>7, <2>1, <2>2, <2>3, <2>4 DEF NodeStep
<1>8. CASE RedisExpires \/ NilMarkerExpires \/ UNCHANGED vars
  BY <1>0, <1>1, <1>8 DEF RedisExpires, NilMarkerExpires, vars
<1> QED
  BY <1>2, <1>3, <1>4, <1>5, <1>6, <1>7, <1>8 DEF Next

\* Unless a slow reader stored it late, the review consumer changed the row
\* silently, or something failed, a copy out of date is one whose invalidation
\* is under way (article_cache.go:93-125, 330-387).
THEOREM CopiesAreInvalidated == Spec => []OnlyLateCopiesAreStale
<1>1. Copies => OnlyLateCopiesAreStale
  BY DEF Copies
<1> QED
  BY <1>1, CopiesInit, CopiesStep, TypeCorrect, PTL DEF Spec


----------------------------------------------------------------------------
(* A list in the caches *)

\* How old a copy was when it was cached last, and what is left of its life: a copy
\* in Redis comes from the database, one in a local cache may come from Redis.
Lives(copy, bound) == copy.age + copy.left <= copy.held + bound

RedisListInv == Cached(redisList) => Lives(redisList, ListTTL)

LocalListInv == \A n \in ListNode : Cached(localList[n]) => Lives(localList[n], 2 * ListTTL)

\* What requests hold: younger than one time to live on the way from Redis to a
\* local cache, no older than it was held on the way from the database, and younger
\* than two times to live when it is answered.
ListerInv ==
    \A r \in Lister :
        /\ Listing(r, "keep") => lister[r].copy.age < lister[r].copy.held + ListTTL
        /\ lister[r].pc \in {"setRedis", "setLocal"} => lister[r].copy.age <= lister[r].copy.held
        /\ lister[r].pc \in {"leave", "answer"} =>
              lister[r].copy.age < lister[r].copy.held + 2 * ListTTL

ListInv == ListTypeOK /\ RedisListInv /\ LocalListInv /\ ListerInv

ListerState == [pc : ListerPc, node : ListNode, leading : BOOLEAN, copy : Copy]

\* What a copy is, and what becomes of it.
LEMMA CopyLemma ==
  ASSUME NEW copy \in Copy
  PROVE  /\ copy.age \in Nat /\ copy.left \in 0 .. ListTTL /\ copy.held \in Nat
         /\ [copy EXCEPT !.left = ListTTL] \in Copy
         /\ Older(copy) \in Copy
         /\ [copy EXCEPT !.age = @ + 1, !.held = @ + 1] \in Copy
         /\ \A bound \in Nat :
               (Cached(copy) => Lives(copy, bound)) => (Cached(Older(copy)) => Lives(Older(copy), bound))
<1>1. ListTTL \in Nat \ {0}
  BY ListAssumption
<1>2. NoCopy \in Copy /\ ~Cached(NoCopy)
  BY <1>1 DEF NoCopy, Copy, Cached
<1>3. /\ copy.age \in Nat /\ copy.left \in 0 .. ListTTL /\ copy.held \in Nat
      /\ [copy EXCEPT !.left = ListTTL] \in Copy
      /\ [copy EXCEPT !.age = @ + 1, !.held = @ + 1] \in Copy
  <2>1. copy.age \in Nat /\ copy.left \in 0 .. ListTTL /\ copy.held \in Nat
    BY DEF Copy
  <2>2. ListTTL \in 0 .. ListTTL /\ copy.age + 1 \in Nat /\ copy.held + 1 \in Nat
    BY <1>1, <2>1
  <2> QED
    BY <2>1, <2>2 DEF Copy
<1>4. CASE copy.left <= 1
  BY <1>2, <1>3, <1>4 DEF Older
<1>5. CASE ~(copy.left <= 1)
  <2>1. Older(copy) = [copy EXCEPT !.age = @ + 1, !.left = @ - 1]
    BY <1>5 DEF Older
  <2>2. Older(copy) \in Copy
    <3>1. copy.age + 1 \in Nat /\ copy.left - 1 \in 0 .. ListTTL
      BY <1>1, <1>3, <1>5
    <3> QED
      BY <2>1, <3>1 DEF Copy
  <2>3. /\ Older(copy).age = copy.age + 1 /\ Older(copy).left = copy.left - 1
        /\ Older(copy).held = copy.held
    BY <1>3, <2>1 DEF Copy
  <2> QED
    BY <1>1, <1>3, <1>5, <2>2, <2>3 DEF Lives, Cached
<1> QED
  BY <1>3, <1>4, <1>5

LEMMA ListerIdleLemma ==
  /\ NoCopy \in Copy /\ ~Cached(NoCopy)
  /\ ListerIdle \in ListerState /\ ListerIdle.pc = "idle" /\ ListerIdle.copy = NoCopy
  /\ \A n \in ListNode : [ListerIdle EXCEPT !.pc = "local", !.node = n] \in ListerState
<1>1. NoCopy \in Copy /\ ~Cached(NoCopy)
  BY ListAssumption DEF NoCopy, Copy, Cached
<1>2. (CHOOSE n \in ListNode : TRUE) \in ListNode
  BY ListAssumption
<1>3. /\ ListerIdle \in ListerState /\ ListerIdle.pc = "idle" /\ ListerIdle.copy = NoCopy
  BY <1>1, <1>2 DEF ListerIdle, ListerState, ListerPc
<1>4. \A n \in ListNode : [ListerIdle EXCEPT !.pc = "local", !.node = n] \in ListerState
  BY <1>3 DEF ListerState, ListerPc
<1> QED
  BY <1>1, <1>3, <1>4

LEMMA ListInitHolds == ListInit => ListInv
BY ListerIdleLemma DEF ListInit, ListInv, ListTypeOK, RedisListInv, LocalListInv, ListerInv,
                       Listing, ListerState

\* What the state of a request must be.
ListerOK(state) ==
    /\ state \in ListerState
    /\ state.pc = "keep" => state.copy.age < state.copy.held + ListTTL
    /\ state.pc \in {"setRedis", "setLocal"} => state.copy.age <= state.copy.held
    /\ state.pc \in {"leave", "answer"} => state.copy.age < state.copy.held + 2 * ListTTL

\* A step is safe if what it caches may live, and what requests hold is in order.
LEMMA ListStepLemma ==
  ASSUME ListInv,
         redisList' \in Copy, Cached(redisList') => Lives(redisList', ListTTL),
         localList' \in [ListNode -> Copy],
         \A n \in ListNode : Cached(localList'[n]) => Lives(localList'[n], 2 * ListTTL),
         listFlight' \in [ListNode -> BOOLEAN],
         lister' = [r \in Lister |-> lister'[r]],
         \A r \in Lister : ListerOK(lister'[r])
  PROVE  ListInv'
<1>1. lister' \in [Lister -> ListerState]
  BY DEF ListerOK
<1>2. ListTypeOK'
  BY <1>1 DEF ListTypeOK, ListerState
<1> QED
  BY <1>2 DEF ListInv, RedisListInv, LocalListInv, ListerInv, ListerOK, Listing

\* One request moves, and the caches stay.
LEMMA ListerMoves ==
  ASSUME ListInv, NEW r \in Lister, NEW state, ListerOK(state),
         lister' = [lister EXCEPT ![r] = state],
         UNCHANGED <<redisList, localList>>,
         listFlight' \in [ListNode -> BOOLEAN]
  PROVE  ListInv'
<1>1. /\ redisList \in Copy /\ localList \in [ListNode -> Copy]
      /\ lister \in [Lister -> ListerState]
  BY DEF ListInv, ListTypeOK, ListerState
<1>2. \A q \in Lister : ListerOK(lister[q])
  BY <1>1 DEF ListInv, ListerInv, ListerOK, Listing
<1>3. lister' = [q \in Lister |-> lister'[q]] /\ \A q \in Lister : ListerOK(lister'[q])
  BY <1>1, <1>2
<1> QED
  BY <1>1, <1>3, ListStepLemma DEF ListInv, RedisListInv, LocalListInv


LEMMA ListerLemma ==
  ASSUME ListInv, NEW r \in Lister
  PROVE  /\ redisList \in Copy /\ localList \in [ListNode -> Copy]
         /\ listFlight \in [ListNode -> BOOLEAN]
         /\ lister \in [Lister -> ListerState]
         /\ lister[r] \in ListerState /\ ListerOK(lister[r])
         /\ lister[r].node \in ListNode /\ lister[r].copy \in Copy
         /\ lister[r].leading \in BOOLEAN
BY DEF ListInv, ListTypeOK, ListerInv, ListerOK, ListerState, Listing

\* A request goes on with what it holds.
LEMMA GotoKeepsListInv ==
  ASSUME ListInv, NEW r \in Lister, NEW pc \in ListerPc, ListGoto(r, pc),
         ListerOK([lister[r] EXCEPT !.pc = pc]),
         UNCHANGED <<redisList, localList>>, listFlight' \in [ListNode -> BOOLEAN]
  PROVE  ListInv'
<1>1. lister' = [lister EXCEPT ![r] = [lister[r] EXCEPT !.pc = pc]]
  BY DEF ListGoto
<1> QED
  BY <1>1, ListerMoves

\* A request takes a copy.
LEMMA TakeKeepsListInv ==
  ASSUME ListInv, NEW r \in Lister, NEW pc \in ListerPc, NEW copy \in Copy, Take(r, pc, copy),
         ListerOK([lister[r] EXCEPT !.pc = pc, !.copy = copy]),
         UNCHANGED <<redisList, localList, listFlight>>
  PROVE  ListInv'
<1>1. lister' = [lister EXCEPT ![r] = [lister[r] EXCEPT !.pc = pc, !.copy = copy]]
  BY DEF Take
<1>2. listFlight' \in [ListNode -> BOOLEAN]
  BY ListerLemma
<1> QED
  BY <1>1, <1>2, ListerMoves

\* Where no copy is held, any will do.
LEMMA EmptyHandsLemma ==
  ASSUME NEW state \in ListerState, NEW pc \in ListerPc \ InHand
  PROVE  ListerOK([state EXCEPT !.pc = pc])
<1>1. [state EXCEPT !.pc = pc] \in ListerState
  BY DEF ListerState
<1>2. [state EXCEPT !.pc = pc].pc = pc
  BY DEF ListerState
<1> QED
  BY <1>1, <1>2 DEF ListerOK, InHand

\* What may be held at each step.
HandsOK(pc, copy) ==
    /\ pc = "keep" => copy.age < copy.held + ListTTL
    /\ pc \in {"setRedis", "setLocal"} => copy.age <= copy.held
    /\ pc \in {"leave", "answer"} => copy.age < copy.held + 2 * ListTTL

LEMMA FullHandsLemma ==
  ASSUME NEW state \in ListerState, NEW pc \in ListerPc, NEW copy \in Copy
  PROVE  /\ HandsOK(pc, copy) => ListerOK([state EXCEPT !.pc = pc, !.copy = copy])
         /\ HandsOK(pc, state.copy) => ListerOK([state EXCEPT !.pc = pc])
<1> DEFINE taken == [state EXCEPT !.pc = pc, !.copy = copy]
           moved == [state EXCEPT !.pc = pc]
<1>1. taken \in ListerState /\ taken.pc = pc /\ taken.copy = copy
  BY DEF ListerState
<1>2. moved \in ListerState /\ moved.pc = pc /\ moved.copy = state.copy
  BY DEF ListerState
<1> HIDE DEF taken, moved
<1>3. HandsOK(pc, copy) => ListerOK(taken)
  BY <1>1 DEF ListerOK, HandsOK
<1>4. HandsOK(pc, state.copy) => ListerOK(moved)
  BY <1>2 DEF ListerOK, HandsOK
<1> QED
  BY <1>3, <1>4 DEF taken, moved

\* What is taken from a cache.
LEMMA CachedLemma ==
  ASSUME NEW copy \in Copy, NEW bound \in Nat, Cached(copy), Lives(copy, bound)
  PROVE  copy.age < copy.held + bound
<1>1. copy.age \in Nat /\ copy.left \in Nat /\ copy.held \in Nat /\ copy.left > 0
  BY ListAssumption DEF Copy, Cached
<1> QED
  BY <1>1 DEF Lives

LEMMA LocalKeepsListInv ==
  ASSUME ListInv, NEW r \in Lister, GetLocalList(r)
  PROVE  ListInv'
<1> DEFINE copy == localList[lister[r].node]
<1>1. /\ lister[r] \in ListerState /\ copy \in Copy /\ 2 * ListTTL \in Nat
      /\ listFlight \in [ListNode -> BOOLEAN] /\ Hit(r) \in ListerPc /\ Hit(r) \in {"leave", "answer"}
  BY ListerLemma, ListAssumption DEF Hit, ListerPc
<1>2. CASE Cached(copy)
  <2>1. Take(r, Hit(r), copy) /\ UNCHANGED <<redisList, localList, listFlight>>
    BY <1>2 DEF GetLocalList, ListNodeOf
  <2>2. copy.age < copy.held + 2 * ListTTL
    <3>1. Lives(copy, 2 * ListTTL)
      BY <1>2, ListerLemma DEF ListInv, LocalListInv
    <3> QED
      BY <1>1, <1>2, <3>1, CachedLemma
  <2> HIDE DEF copy
  <2>3. ListerOK([lister[r] EXCEPT !.pc = Hit(r), !.copy = copy])
    <3>1. HandsOK(Hit(r), copy)
      BY <1>1, <2>2 DEF HandsOK
    <3> QED
      BY <1>1, <3>1, FullHandsLemma
  <2> QED
    BY <1>1, <2>1, <2>3, TakeKeepsListInv
<1>3. CASE ~Cached(copy)
  <2>1. ListGoto(r, "redis") /\ UNCHANGED <<redisList, localList, listFlight>>
    BY <1>3 DEF GetLocalList, ListNodeOf
  <2>2. "redis" \in ListerPc \ InHand
    BY DEF ListerPc, InHand
  <2> QED
    BY <1>1, <2>1, <2>2, EmptyHandsLemma, GotoKeepsListInv
<1> QED
  BY <1>2, <1>3

LEMMA RedisKeepsListInv ==
  ASSUME ListInv, NEW r \in Lister, GetRedisList(r)
  PROVE  ListInv'
<1>1. /\ lister[r] \in ListerState /\ redisList \in Copy /\ ListTTL \in Nat
      /\ listFlight \in [ListNode -> BOOLEAN]
      /\ Miss(r) \in ListerPc \ InHand /\ "keep" \in ListerPc
      /\ UNCHANGED <<redisList, localList, listFlight>>
  BY ListerLemma, ListAssumption DEF Miss, ListerPc, InHand, GetRedisList
<1>2. CASE Cached(redisList) /\ Take(r, "keep", redisList)
  <2>1. redisList.age < redisList.held + ListTTL
    BY <1>1, <1>2, CachedLemma DEF ListInv, RedisListInv
  <2>2. ListerOK([lister[r] EXCEPT !.pc = "keep", !.copy = redisList])
    <3>1. HandsOK("keep", redisList)
      BY <2>1 DEF HandsOK
    <3> QED
      BY <1>1, <3>1, FullHandsLemma
  <2> QED
    BY <1>1, <1>2, <2>2, TakeKeepsListInv
<1>3. CASE ListGoto(r, Miss(r))
  BY <1>1, <1>3, EmptyHandsLemma, GotoKeepsListInv
<1> QED
  BY <1>2, <1>3 DEF GetRedisList


\* A request writes its copy, with a whole life, where it may live.
LEMMA WholeLifeLemma ==
  ASSUME NEW copy \in Copy
  PROVE  LET whole == [copy EXCEPT !.left = ListTTL] IN
         /\ whole \in Copy
         /\ copy.age <= copy.held => Lives(whole, ListTTL) /\ Lives(whole, 2 * ListTTL)
         /\ copy.age < copy.held + ListTTL => Lives(whole, 2 * ListTTL)
<1> DEFINE whole == [copy EXCEPT !.left = ListTTL]
<1>1. /\ whole \in Copy /\ whole.age = copy.age /\ whole.held = copy.held /\ whole.left = ListTTL
      /\ copy.age \in Nat /\ copy.held \in Nat /\ ListTTL \in Nat
  BY CopyLemma, ListAssumption DEF Copy
<1> HIDE DEF whole
<1>2. /\ whole \in Copy
      /\ copy.age <= copy.held => Lives(whole, ListTTL) /\ Lives(whole, 2 * ListTTL)
      /\ copy.age < copy.held + ListTTL => Lives(whole, 2 * ListTTL)
  BY <1>1 DEF Lives
<1> QED
  BY <1>2 DEF whole

\* The step of one request that writes to a local cache.
LEMMA LocalWriteLemma ==
  ASSUME ListInv, NEW r \in Lister, NEW pc \in ListerPc, ListGoto(r, pc),
         HandsOK(pc, lister[r].copy),
         Lives([lister[r].copy EXCEPT !.left = ListTTL], 2 * ListTTL),
         localList' = [localList EXCEPT ![lister[r].node] = [lister[r].copy EXCEPT !.left = ListTTL]],
         UNCHANGED <<redisList, listFlight>>
  PROVE  ListInv'
<1> DEFINE whole == [lister[r].copy EXCEPT !.left = ListTTL]
<1>1. /\ lister[r] \in ListerState /\ whole \in Copy /\ lister[r].node \in ListNode
      /\ localList \in [ListNode -> Copy] /\ lister \in [Lister -> ListerState]
      /\ redisList \in Copy /\ listFlight \in [ListNode -> BOOLEAN]
      /\ \A q \in Lister : ListerOK(lister[q])
  BY ListerLemma, WholeLifeLemma
<1> HIDE DEF whole
<1>2. /\ localList' \in [ListNode -> Copy]
      /\ \A n \in ListNode : Cached(localList'[n]) => Lives(localList'[n], 2 * ListTTL)
  BY <1>1 DEF whole, ListInv, LocalListInv
<1>3. ListerOK([lister[r] EXCEPT !.pc = pc])
  BY <1>1, FullHandsLemma, ListerLemma
<1>4. /\ lister' = [q \in Lister |-> lister'[q]]
      /\ \A q \in Lister : ListerOK(lister'[q])
  BY <1>1, <1>3 DEF ListGoto
<1> QED
  BY <1>1, <1>2, <1>4, ListStepLemma DEF ListInv, RedisListInv

LEMMA WriteKeepsListInv ==
  ASSUME ListInv, NEW r \in Lister,
         KeepList(r) \/ SetRedisList(r) \/ SetRedisListError(r) \/ SetLocalList(r)
  PROVE  ListInv'
<1> DEFINE copy == lister[r].copy
           whole == [copy EXCEPT !.left = ListTTL]
<1>1. /\ lister[r] \in ListerState /\ copy \in Copy /\ ListTTL \in Nat \ {0}
      /\ copy.age \in Nat /\ copy.held \in Nat
      /\ Listing(r, "keep") => copy.age < copy.held + ListTTL
      /\ lister[r].pc \in {"setRedis", "setLocal"} => copy.age <= copy.held
      /\ {"leave", "setLocal"} \subseteq ListerPc /\ Hit(r) \in {"leave", "answer"} \cap ListerPc
  BY ListerLemma, CopyLemma, ListAssumption DEF ListerOK, Listing, ListerPc, Hit
<1>2. /\ whole \in Copy
      /\ copy.age <= copy.held => Lives(whole, ListTTL) /\ Lives(whole, 2 * ListTTL)
      /\ copy.age < copy.held + ListTTL => Lives(whole, 2 * ListTTL)
  BY <1>1, WholeLifeLemma
<1>3. CASE KeepList(r)
  <2>1. HandsOK(Hit(r), copy)
    BY <1>1, <1>3 DEF KeepList, HandsOK
  <2> QED
    BY <1>1, <1>2, <1>3, <2>1, LocalWriteLemma DEF KeepList, ListNodeOf
<1>4. CASE SetLocalList(r)
  <2>1. copy.age <= copy.held /\ HandsOK("leave", copy)
    BY <1>1, <1>4 DEF SetLocalList, Listing, HandsOK
  <2> QED
    BY <1>1, <1>2, <1>4, <2>1, LocalWriteLemma DEF SetLocalList, ListNodeOf
<1>5. CASE SetRedisList(r) \/ SetRedisListError(r)
  <2>1. copy.age <= copy.held
    BY <1>1, <1>5 DEF SetRedisList, SetRedisListError, Listing
  <2>2. PICK pc \in {"setLocal", "leave"} : ListGoto(r, pc)
    BY <1>5 DEF SetRedisList, SetRedisListError
  <2>3. HandsOK(pc, copy)
    BY <1>1, <2>1, <2>2 DEF HandsOK
  <2>4. /\ lister \in [Lister -> ListerState] /\ \A q \in Lister : ListerOK(lister[q])
        /\ redisList \in Copy /\ localList \in [ListNode -> Copy]
        /\ listFlight \in [ListNode -> BOOLEAN]
    BY ListerLemma
  <2>5. ListerOK([lister[r] EXCEPT !.pc = pc])
    BY <1>1, <2>2, <2>3, FullHandsLemma
  <2>6. redisList' \in Copy /\ (Cached(redisList') => Lives(redisList', ListTTL))
    <3>1. redisList' \in {redisList, whole}
      BY <1>5 DEF SetRedisList, SetRedisListError
    <3> HIDE DEF whole
    <3> QED
      BY <1>2, <2>1, <2>4, <3>1 DEF ListInv, RedisListInv
  <2>7. UNCHANGED <<localList, listFlight>>
    BY <1>5 DEF SetRedisList, SetRedisListError
  <2>8. /\ lister' = [q \in Lister |-> lister'[q]]
        /\ \A q \in Lister : ListerOK(lister'[q])
    BY <2>2, <2>4, <2>5 DEF ListGoto
  <2> QED
    BY <2>4, <2>6, <2>7, <2>8, ListStepLemma DEF ListInv, LocalListInv
<1> QED
  BY <1>3, <1>4, <1>5

\* The end of a singleflight call, for all of them.
LEMMA LeaveKeepsListInv ==
  ASSUME ListInv, NEW r \in Lister, LeaveListFlight(r) \/ LoadListError(r)
  PROVE  ListInv'
<1>1. /\ lister \in [Lister -> ListerState] /\ \A q \in Lister : ListerOK(lister[q])
      /\ listFlight \in [ListNode -> BOOLEAN]
  BY ListerLemma
<1>2. PICK copy \in Copy :
        /\ HandsOK("answer", copy)
        /\ lister' = [q \in Lister |->
               IF q \in Sharing(r) THEN [lister[q] EXCEPT !.pc = "answer", !.copy = copy]
               ELSE lister[q]]
  <2>1. CASE LeaveListFlight(r)
    <3>1. lister[r].copy \in Copy /\ HandsOK("answer", lister[r].copy)
      BY <2>1, ListerLemma DEF LeaveListFlight, Listing, ListerOK, HandsOK
    <3> QED
      BY <2>1, <3>1 DEF LeaveListFlight
  <2>2. CASE LoadListError(r)
    <3>1. NoCopy \in Copy /\ HandsOK("answer", NoCopy)
      <4>1. NoCopy.age = 0 /\ NoCopy.held = 0 /\ 0 < 0 + 2 * ListTTL
        BY ListAssumption DEF NoCopy
      <4> HIDE DEF NoCopy
      <4>2. HandsOK("answer", NoCopy)
        BY <4>1 DEF HandsOK
      <4> QED
        BY <4>2, ListerIdleLemma
    <3> QED
      BY <2>2, <3>1 DEF LoadListError
  <2> QED
    BY <2>1, <2>2
<1>3. "answer" \in ListerPc
  BY DEF ListerPc
<1>4. \A q \in Lister : ListerOK(lister'[q])
  BY <1>1, <1>2, <1>3, FullHandsLemma
<1>5. lister' = [q \in Lister |-> lister'[q]]
  BY <1>2
<1>6. /\ UNCHANGED <<redisList, localList>>
      /\ listFlight' \in [ListNode -> BOOLEAN]
  BY <1>1 DEF LeaveListFlight, LoadListError
<1>7. redisList \in Copy /\ localList \in [ListNode -> Copy]
  BY ListerLemma
<1> QED
  BY <1>4, <1>5, <1>6, <1>7, ListStepLemma DEF ListInv, RedisListInv, LocalListInv


LEMMA IdleIsOK ==
  /\ ListerOK(ListerIdle)
  /\ \A n \in ListNode : ListerOK([ListerIdle EXCEPT !.pc = "local", !.node = n])
<1>1. ListerOK(ListerIdle)
  BY ListerIdleLemma DEF ListerOK
<1>2. ASSUME NEW n \in ListNode
      PROVE  ListerOK([ListerIdle EXCEPT !.pc = "local", !.node = n])
  <2> DEFINE state == [ListerIdle EXCEPT !.pc = "local", !.node = n]
  <2>1. state \in ListerState /\ state.pc = "local"
    BY ListerIdleLemma DEF ListerState
  <2> HIDE DEF state
  <2>2. ListerOK(state)
    BY <2>1 DEF ListerOK
  <2> QED
    BY <2>2 DEF state
<1> QED
  BY <1>1, <1>2

LEMMA OtherStepsKeepListInv ==
  ASSUME ListInv, NEW r \in Lister,
         ListArticles(r) \/ EnterListFlight(r) \/ LoadList(r) \/ AnswerList(r)
  PROVE  ListInv'
<1>1. /\ lister \in [Lister -> ListerState] /\ lister[r] \in ListerState
      /\ lister[r].node \in ListNode /\ listFlight \in [ListNode -> BOOLEAN]
  BY ListerLemma
<1>2. CASE ListArticles(r)
  <2>1. PICK n \in ListNode :
          lister' = [lister EXCEPT ![r] = [ListerIdle EXCEPT !.pc = "local", !.node = n]]
    BY <1>2 DEF ListArticles
  <2>2. UNCHANGED <<redisList, localList, listFlight>>
    BY <1>2 DEF ListArticles
  <2> QED
    BY <1>1, <2>1, <2>2, IdleIsOK, ListerMoves
<1>3. CASE EnterListFlight(r)
  <2>1. CASE listFlight[lister[r].node]
    <3>1. ListGoto(r, "wait") /\ UNCHANGED <<redisList, localList, listFlight>>
      BY <1>3, <2>1 DEF EnterListFlight, ListNodeOf
    <3>2. "wait" \in ListerPc \ InHand
      BY DEF ListerPc, InHand
    <3> QED
      BY <1>1, <3>1, <3>2, EmptyHandsLemma, GotoKeepsListInv
  <2>2. CASE ~listFlight[lister[r].node]
    <3> DEFINE state == [lister[r] EXCEPT !.pc = "local", !.leading = TRUE]
    <3>1. /\ lister' = [lister EXCEPT ![r] = state]
          /\ listFlight' = [listFlight EXCEPT ![lister[r].node] = TRUE]
          /\ UNCHANGED <<redisList, localList>>
      BY <1>3, <2>2 DEF EnterListFlight, ListNodeOf
    <3>2. state \in ListerState /\ state.pc = "local"
      BY <1>1 DEF ListerState, ListerPc
    <3> HIDE DEF state
    <3>3. ListerOK(state)
      BY <3>2 DEF ListerOK
    <3>4. listFlight' \in [ListNode -> BOOLEAN]
      BY <1>1, <3>1
    <3> QED
      BY <3>1, <3>3, <3>4, ListerMoves
  <2> QED
    BY <2>1, <2>2
<1>4. CASE LoadList(r)
  <2>1. NoCopy \in Copy /\ HandsOK("setRedis", NoCopy)
    <3>1. NoCopy.age = 0 /\ NoCopy.held = 0
      BY DEF NoCopy
    <3> HIDE DEF NoCopy
    <3>2. HandsOK("setRedis", NoCopy)
      BY <3>1 DEF HandsOK
    <3> QED
      BY <3>2, ListerIdleLemma
  <2>2. Take(r, "setRedis", NoCopy) /\ UNCHANGED <<redisList, localList, listFlight>>
    BY <1>4 DEF LoadList
  <2>3. "setRedis" \in ListerPc
    BY DEF ListerPc
  <2> QED
    BY <1>1, <2>1, <2>2, <2>3, FullHandsLemma, TakeKeepsListInv
<1>5. CASE AnswerList(r)
  BY <1>1, <1>5, IdleIsOK, ListerMoves DEF AnswerList
<1> QED
  BY <1>2, <1>3, <1>4, <1>5

LEMMA NodeStepsKeepListInv ==
  ASSUME ListInv, NEW n \in ListNode, LocalListGoes(n) \/ ListNodeCrashes(n)
  PROVE  ListInv'
<1>1. /\ lister \in [Lister -> ListerState] /\ \A q \in Lister : ListerOK(lister[q])
      /\ redisList \in Copy /\ localList \in [ListNode -> Copy]
      /\ listFlight \in [ListNode -> BOOLEAN]
  BY ListerLemma DEF ListInv, ListTypeOK, ListerState
<1>2. /\ localList' = [localList EXCEPT ![n] = NoCopy] /\ redisList' = redisList
      /\ listFlight' \in [ListNode -> BOOLEAN]
      /\ lister' = [r \in Lister |-> lister'[r]]
      /\ \A r \in Lister : lister'[r] \in {lister[r], ListerIdle}
  BY <1>1 DEF LocalListGoes, ListNodeCrashes
<1>3. /\ localList' \in [ListNode -> Copy]
      /\ \A m \in ListNode : Cached(localList'[m]) => Lives(localList'[m], 2 * ListTTL)
  BY <1>1, <1>2, ListerIdleLemma DEF ListInv, LocalListInv
<1>4. \A r \in Lister : ListerOK(lister'[r])
  BY <1>1, <1>2, IdleIsOK
<1> QED
  BY <1>1, <1>2, <1>3, <1>4, ListStepLemma DEF ListInv, RedisListInv

LEMMA TimeKeepsListInv ==
  ASSUME ListInv, ListTimePasses
  PROVE  ListInv'
<1>1. /\ lister \in [Lister -> ListerState] /\ redisList \in Copy
      /\ localList \in [ListNode -> Copy] /\ listFlight \in [ListNode -> BOOLEAN]
      /\ ListTTL \in Nat /\ 2 * ListTTL \in Nat
  BY ListAssumption DEF ListInv, ListTypeOK, ListerState
<1>2. redisList' \in Copy /\ (Cached(redisList') => Lives(redisList', ListTTL))
  <2>1. redisList' = Older(redisList)
    BY DEF ListTimePasses
  <2> QED
    BY <1>1, <2>1, CopyLemma DEF ListInv, RedisListInv
<1>3. /\ localList' \in [ListNode -> Copy]
      /\ \A n \in ListNode : Cached(localList'[n]) => Lives(localList'[n], 2 * ListTTL)
  <2>1. localList' = [n \in ListNode |-> Older(localList[n])]
    BY DEF ListTimePasses
  <2>2. \A n \in ListNode : localList[n] \in Copy
    BY <1>1
  <2> QED
    BY <1>1, <2>1, <2>2, CopyLemma DEF ListInv, LocalListInv
<1>4. lister' = [r \in Lister |-> lister'[r]]
  BY DEF ListTimePasses
<1>5. ASSUME NEW r \in Lister PROVE ListerOK(lister'[r])
  <2>1. lister[r] \in ListerState /\ ListerOK(lister[r])
    BY ListerLemma
  <2>2. CASE lister[r].pc \in InHand
    <3> DEFINE copy == lister[r].copy
               older == [copy EXCEPT !.age = @ + 1, !.held = @ + 1]
    <3>1. lister'[r] = [lister[r] EXCEPT !.copy = older]
      BY <2>1, <2>2 DEF ListTimePasses, ListerState
    <3>2. copy \in Copy /\ copy.age \in Nat /\ copy.held \in Nat
      BY <2>1 DEF ListerState, Copy
    <3>3. older \in Copy /\ older.age = copy.age + 1 /\ older.held = copy.held + 1
      BY <3>2, CopyLemma DEF Copy
    <3> HIDE DEF older
    <3>4. lister'[r] \in ListerState /\ lister'[r].pc = lister[r].pc /\ lister'[r].copy = older
      BY <2>1, <3>1, <3>3 DEF ListerState
    <3> QED
      BY <1>1, <2>1, <3>2, <3>3, <3>4 DEF ListerOK
  <2>3. CASE lister[r].pc \notin InHand
    BY <2>1, <2>3 DEF ListTimePasses
  <2> QED
    BY <2>2, <2>3
<1>6. listFlight' \in [ListNode -> BOOLEAN]
  BY <1>1 DEF ListTimePasses
<1> QED
  BY <1>2, <1>3, <1>4, <1>5, <1>6, ListStepLemma

LEMMA ListInvHolds == ListSpec => []ListInv
<1>1. ASSUME ListInv, [ListNext]_listVars PROVE ListInv'
  <2>1. CASE UNCHANGED listVars
    BY <1>1, <2>1 DEF ListInv, listVars, ListTypeOK, RedisListInv, LocalListInv, ListerInv, Listing
  <2>2. CASE ListNext
    BY <1>1, <2>2, LocalKeepsListInv, RedisKeepsListInv, WriteKeepsListInv, LeaveKeepsListInv,
       OtherStepsKeepListInv, NodeStepsKeepListInv, TimeKeepsListInv DEF ListNext
  <2> QED
    BY <1>1, <2>1, <2>2
<1> QED
  BY <1>1, ListInitHolds, PTL DEF ListSpec

\* A list that is answered is younger than two times to live and the time it was in
\* the hands of requests, with any number of processes and requests and any time to
\* live (article_cache.go:151).
THEOREM ListIsRecentHolds == ListSpec => []ListIsRecent
<1>1. ASSUME ListInv, NEW r \in Lister, Listing(r, "answer")
      PROVE  lister[r].copy.age < 2 * ListTTL + lister[r].copy.held
  <2>1. lister[r].copy.age < lister[r].copy.held + 2 * ListTTL
    BY <1>1 DEF ListInv, ListerInv, Listing
  <2>2. lister[r].copy.age \in Nat /\ lister[r].copy.held \in Nat
    BY <1>1, ListerLemma, CopyLemma
  <2> QED
    BY <2>1, <2>2, ListAssumption
<1>2. ListInv => ListIsRecent
  BY <1>1 DEF ListIsRecent
<1> QED
  BY <1>2, ListInvHolds, PTL

----------------------------------------------------------------------------
(* Pages: every scan meets what stays *)

Met(x, entry) == \E i \in DOMAIN x.got : x.got[i] = entry
Distinct(seq) == \A i, j \in DOMAIN seq : seq[i] = seq[j] => i = j
Descending(seq) == \A i, j \in DOMAIN seq : i < j => Before(seq[i], seq[j])
After(cursor, rows) == {entry \in rows : cursor = NoCursor \/ Before(cursor, entry)}

\* How many rows a query by created_at puts before this one.
Rank(rows, entry) == Cardinality({y \in rows : y.created > entry.created})

\* By offset: pages count rows, so what matters is the rank of a row.  While nothing
\* goes ranks only rise, and a row not met is still to come; while nothing comes
\* they only fall, and a row met does not come again.
OffsetOK(x, rows) ==
  /\ x.pc = "offset" =>
       /\ x.by = "offset" /\ x.next >= 1
       /\ ~x.tied =>
            /\ ~Tied(rows)
            /\ ~x.gone => \A entry \in x.since : Met(x, entry) \/ Rank(rows, entry) >= Offset(x.next)
            /\ ~x.added => \A i \in DOMAIN x.got :
                 x.got[i] \in rows => Rank(rows, x.got[i]) < Offset(x.next)
  /\ x.pc # "idle" /\ x.by = "offset" /\ ~x.tied =>
       /\ x.pc = "done" /\ ~x.gone => \A entry \in x.since : Met(x, entry)
       /\ ~x.added => Distinct(x.got)

\* By cursor: all that was read comes before the cursor, the row read last, and all
\* that is to be read comes after it, whatever else comes and goes.
CursorOK(x, rows) ==
  /\ x.pc = "cursor" =>
       /\ x.by = "cursor"
       /\ x.cursor = NoCursor => x.got = <<>>
       /\ x.cursor # NoCursor => Len(x.got) > 0 /\ x.cursor = x.got[Len(x.got)]
       /\ \A entry \in x.since : Met(x, entry) \/ entry \in After(x.cursor, rows)
  /\ x.pc # "idle" /\ x.by = "cursor" =>
       /\ Descending(x.got)
       /\ x.pc = "done" => \A entry \in x.since : Met(x, entry)

ScanOK(x, rows) ==
  /\ x.pc \in {"offset", "cursor"} => x.since \subseteq rows
  /\ OffsetOK(x, rows)
  /\ CursorOK(x, rows)

ScanInv ==
  /\ ListingTypeOK
  /\ IsFiniteSet(listed)
  /\ \A s \in Scan : ScanOK(scan[s], listed)

----------------------------------------------------------------------------
(* Orders of finite sets *)

\* An order of a finite set has each of its members in one place.
LEMMA OrderLemma ==
  ASSUME NEW S, IsFiniteSet(S), NEW order \in SetToSeqs(S)
  PROVE  /\ Cardinality(S) \in Nat
         /\ order \in Seq(S) /\ Len(order) = Cardinality(S)
         /\ DOMAIN order = 1 .. Len(order)
         /\ Distinct(order)
         /\ \A entry \in S : \E i \in DOMAIN order : order[i] = entry
<1> DEFINE n == Cardinality(S)
<1>1. n \in Nat
  BY FS_CardinalityType
<1>2. order \in [1 .. n -> S] /\ \A i, j \in 1 .. n : i # j => order[i] # order[j]
  BY DEF SetToSeqs
<1>3. order \in Injection(1 .. n, S)
  BY <1>2 DEF Injection, IsInjective
<1>4. Cardinality(1 .. n) = n
  BY <1>1, FS_Interval
<1>5. order \in Surjection(1 .. n, S)
  BY <1>3, <1>4, FS_Injection
<1>6. \A entry \in S : \E i \in 1 .. n : order[i] = entry
  BY <1>5 DEF Surjection
<1>7. order \in Seq(S) /\ Len(order) = n /\ DOMAIN order = 1 .. n
  BY <1>1, <1>2
<1> QED
  BY <1>1, <1>2, <1>6, <1>7 DEF Distinct

\* Without ties, the rank of a row is the number of rows before it in any order.
LEMMA RankLemma ==
  ASSUME NEW rows, rows \subseteq ListedRow, IsFiniteSet(rows), ~Tied(rows),
         NEW order \in ByCreatedAt(rows), NEW i \in DOMAIN order
  PROVE  order[i] \in rows /\ i \in 1 .. Len(order) /\ Rank(rows, order[i]) = i - 1
<1> DEFINE higher == {y \in rows : y.created > order[i].created}
           before == [j \in 1 .. i - 1 |-> order[j]]
<1>1. /\ order \in SetToSeqs(rows)
      /\ \A j, k \in DOMAIN order : j < k => order[j].created >= order[k].created
  BY DEF ByCreatedAt
<1>2. /\ order \in Seq(rows) /\ Len(order) \in Nat /\ DOMAIN order = 1 .. Len(order)
      /\ Distinct(order)
      /\ \A entry \in rows : \E j \in DOMAIN order : order[j] = entry
  BY <1>1, OrderLemma
<1>3. \A j \in DOMAIN order : order[j] \in rows /\ order[j].created \in Nat
  <2>1. \A entry \in ListedRow : entry.created \in Nat
    BY ListingAssumption DEF ListedRow
  <2>2. \A j \in DOMAIN order : order[j] \in rows
    BY <1>2
  <2> QED
    BY <2>1, <2>2
<1>4. i \in Nat /\ i >= 1 /\ i <= Len(order) /\ 1 .. i - 1 \subseteq DOMAIN order
  BY <1>2
<1>5. \A j, k \in DOMAIN order : j < k => order[j].created > order[k].created
  BY <1>1, <1>2, <1>3 DEF Tied, Distinct
<1>6. \A j \in DOMAIN order : order[j] \in higher <=> j \in 1 .. i - 1
  <2>1. ASSUME NEW j \in DOMAIN order
        PROVE  order[j].created > order[i].created <=> j < i
    <3>1. j \in Nat /\ order[j].created \in Nat /\ order[i].created \in Nat
      BY <1>2, <1>3
    <3>2. j < i => order[j].created > order[i].created
      BY <1>5
    <3>3. i < j => order[i].created > order[j].created
      BY <1>5
    <3> QED
      BY <1>4, <3>1, <3>2, <3>3
  <2>2. \A j \in DOMAIN order : j < i <=> j \in 1 .. i - 1
    BY <1>2, <1>4
  <2> QED
    BY <1>3, <2>1, <2>2
<1>7. before \in [1 .. i - 1 -> higher]
  BY <1>4, <1>6
<1>8. \A y \in higher : \E j \in 1 .. i - 1 : before[j] = y
  BY <1>2, <1>4, <1>6
<1>9. before \in Surjection(1 .. i - 1, higher)
  BY <1>7, <1>8 DEF Surjection
<1>10. before \in Injection(1 .. i - 1, higher)
  BY <1>2, <1>4, <1>7 DEF Injection, IsInjective, Distinct
<1>11. IsFiniteSet(1 .. i - 1) /\ Cardinality(1 .. i - 1) = i - 1
  <2>1. \A k \in Nat : IsFiniteSet(1 .. k) /\ Cardinality(1 .. k) = k
    BY FS_Interval
  <2> QED
    BY <1>4, <2>1
<1>12. Cardinality(higher) = Cardinality(1 .. i - 1)
  BY <1>9, <1>10, <1>11, FS_Surjection
<1> QED
  BY <1>3, <1>4, <1>2, <1>11, <1>12 DEF Rank

\* Ranks are numbers, and fall with the rows.
LEMMA RanksFall ==
  ASSUME NEW rows, IsFiniteSet(rows), NEW fewer, fewer \subseteq rows, NEW entry
  PROVE  /\ Rank(rows, entry) \in Nat /\ Rank(fewer, entry) \in Nat
         /\ Rank(fewer, entry) <= Rank(rows, entry)
<1> DEFINE high == {y \in rows : y.created > entry.created}
           low == {y \in fewer : y.created > entry.created}
<1>1. high \in SUBSET rows /\ low \in SUBSET high
  OBVIOUS
<1>2. IsFiniteSet(high) /\ IsFiniteSet(low) /\ Cardinality(low) <= Cardinality(high)
  BY <1>1, FS_Subset
<1> QED
  BY <1>2, FS_CardinalityType DEF Rank

\* Going on by at most a page, from where the offset points.
LEMMA OffsetLemma ==
  ASSUME NEW page \in Nat, page >= 1
  PROVE  /\ Offset(page) \in Nat /\ Offset(page + 1) = Offset(page) + ListPageSize
         /\ Offset(1) = 0
<1>1. ListPageSize \in Nat
  BY ListingAssumption
<1>2. PICK k \in Nat : page = k + 1
  BY SMT
<1>3. k * ListPageSize \in Nat /\ (k + 1) * ListPageSize = k * ListPageSize + ListPageSize
      /\ 0 * ListPageSize = 0
  BY <1>1, SMT
<1>4. (page - 1) * ListPageSize = k * ListPageSize
      /\ (page + 1 - 1) * ListPageSize = (k + 1) * ListPageSize
  BY <1>2, SMT
<1> QED
  BY <1>1, <1>3, <1>4 DEF Offset

----------------------------------------------------------------------------
(* The table changes *)

\* Whoever reads nothing now does not mind.
LEMMA RestingLemma ==
  ASSUME NEW x \in ScanState, NEW rows, NEW others, ScanOK(x, rows), x.pc \in {"idle", "done"}
  PROVE  ScanOK(x, others)
BY DEF ScanOK, OffsetOK, CursorOK

\* A row comes while a scan is under way: ranks rise.
LEMMA RowComes ==
  ASSUME NEW x \in ScanState, NEW rows, NEW more, IsFiniteSet(more), rows \subseteq more,
         ScanOK(x, rows), x.pc \in {"offset", "cursor"},
         NEW tied \in BOOLEAN, tied <=> x.tied \/ Tied(more),
         NEW y, y = [x EXCEPT !.added = TRUE, !.tied = tied]
  PROVE  y \in ScanState /\ ScanOK(y, more)
<1>3. /\ y \in ScanState
      /\ y.pc = x.pc /\ y.by = x.by /\ y.next = x.next /\ y.cursor = x.cursor
      /\ y.got = x.got /\ y.since = x.since /\ y.gone = x.gone
      /\ y.added /\ y.tied = tied
  BY DEF ScanState
<1>4. x.next \in Nat
  BY DEF ScanState
<1>5. y.since \subseteq more
  BY <1>3 DEF ScanOK
<1>6. OffsetOK(y, more)
  <2>1. ASSUME y.pc = "offset", ~y.tied, ~y.gone, NEW entry \in y.since, ~Met(y, entry)
        PROVE  Rank(more, entry) >= Offset(y.next)
    <3>1. Rank(rows, entry) >= Offset(x.next)
      BY <1>3, <2>1 DEF ScanOK, OffsetOK, Met
    <3>2. Rank(rows, entry) <= Rank(more, entry) /\ Rank(rows, entry) \in Nat /\ Rank(more, entry) \in Nat
      BY RanksFall
    <3>3. x.pc = "offset" /\ Offset(x.next) \in Nat
      BY <1>3, <1>4, <2>1, OffsetLemma DEF ScanOK, OffsetOK
    <3> QED
      BY <1>3, <3>1, <3>2, <3>3
  <2>2. ~y.tied => ~Tied(more)
    BY <1>3
  <2> QED
    BY <1>3, <2>1, <2>2 DEF ScanOK, OffsetOK, Met
<1>7. CursorOK(y, more)
  BY <1>3 DEF ScanOK, CursorOK, Met, After
<1> QED
  BY <1>3, <1>5, <1>6, <1>7 DEF ScanOK

\* A row goes while a scan is under way: ranks fall.
LEMMA RowGoes ==
  ASSUME NEW x \in ScanState, NEW rows, IsFiniteSet(rows), NEW gone \in rows,
         ScanOK(x, rows), x.pc \in {"offset", "cursor"},
         NEW y, y = [x EXCEPT !.gone = TRUE, !.since = @ \ {gone}]
  PROVE  y \in ScanState /\ ScanOK(y, rows \ {gone})
<1> DEFINE fewer == rows \ {gone}
<1>1. /\ y \in ScanState
      /\ y.pc = x.pc /\ y.by = x.by /\ y.next = x.next /\ y.cursor = x.cursor
      /\ y.got = x.got /\ y.since = x.since \ {gone} /\ y.added = x.added
      /\ y.gone /\ y.tied = x.tied
  BY DEF ScanState
<1>2. x.next \in Nat
  BY DEF ScanState
<1>3. y.since \subseteq fewer
  BY <1>1 DEF ScanOK
<1>4. OffsetOK(y, fewer)
  <2>1. ASSUME y.pc = "offset", ~y.tied, ~y.added, NEW i \in DOMAIN y.got, y.got[i] \in fewer
        PROVE  Rank(fewer, y.got[i]) < Offset(y.next)
    <3>1. Rank(rows, y.got[i]) < Offset(x.next)
      BY <1>1, <2>1 DEF ScanOK, OffsetOK
    <3>2. /\ Rank(fewer, y.got[i]) <= Rank(rows, y.got[i])
          /\ Rank(rows, y.got[i]) \in Nat /\ Rank(fewer, y.got[i]) \in Nat
      BY RanksFall
    <3>3. x.pc = "offset" /\ Offset(x.next) \in Nat
      BY <1>1, <1>2, <2>1, OffsetLemma DEF ScanOK, OffsetOK
    <3> QED
      BY <1>1, <3>1, <3>2, <3>3
  <2>2. Tied(fewer) => Tied(rows)
    BY DEF Tied
  <2> QED
    BY <1>1, <2>1, <2>2 DEF ScanOK, OffsetOK
<1>5. CursorOK(y, fewer)
  <2>1. \A entry \in y.since : entry \in After(x.cursor, rows) => entry \in After(y.cursor, fewer)
    BY <1>1, <1>3 DEF After
  <2>2. \A entry : Met(y, entry) <=> Met(x, entry)
    BY <1>1 DEF Met
  <2>3. CursorOK(x, rows)
    BY DEF ScanOK
  <2> HIDE DEF fewer
  <2> QED
    BY <1>1, <2>1, <2>2, <2>3 DEF CursorOK
<1> QED
  BY <1>1, <1>3, <1>4, <1>5 DEF ScanOK

----------------------------------------------------------------------------
(* A page is read *)

\* What a page adds to a scan.
PageRead(x, page, last, y) ==
  /\ y \in ScanState
  /\ y.pc = (IF last THEN "done" ELSE x.pc) /\ y.by = x.by /\ y.next = x.next + 1
  /\ y.got = x.got \o page /\ y.since = x.since
  /\ y.added = x.added /\ y.gone = x.gone /\ y.tied = x.tied
  /\ \A entry : Met(y, entry) <=> Met(x, entry) \/ \E i \in DOMAIN page : page[i] = entry

LEMMA ReadsLemma ==
  ASSUME NEW x \in ScanState, NEW page \in Seq(ListedRow), NEW last \in BOOLEAN,
         NEW y, y = [x EXCEPT !.got = @ \o page, !.next = @ + 1, !.pc = IF last THEN "done" ELSE @]
  PROVE  PageRead(x, page, last, y) /\ y.cursor = x.cursor
<1>1. x.got \in Seq(ListedRow) /\ x.next \in Nat /\ x.got \o page \in Seq(ListedRow)
  BY DEF ScanState
<1>2. /\ y \in ScanState
      /\ y.pc = (IF last THEN "done" ELSE x.pc) /\ y.by = x.by /\ y.next = x.next + 1
      /\ y.cursor = x.cursor /\ y.got = x.got \o page /\ y.since = x.since
      /\ y.added = x.added /\ y.gone = x.gone /\ y.tied = x.tied
  <2> DEFINE got == x.got \o page
             pc == IF last THEN "done" ELSE x.pc
             next == x.next + 1
  <2>1. next \in Nat /\ got \in Seq(ListedRow) /\ pc \in {"idle", "offset", "cursor", "done"}
    BY <1>1 DEF ScanState
  <2>2. y = [x EXCEPT !.got = got, !.next = next, !.pc = pc]
    OBVIOUS
  <2> HIDE DEF got, pc, next
  <2>3. /\ y \in ScanState
        /\ y.pc = pc /\ y.by = x.by /\ y.next = next /\ y.cursor = x.cursor
        /\ y.got = got /\ y.since = x.since
        /\ y.added = x.added /\ y.gone = x.gone /\ y.tied = x.tied
    BY <1>1, <2>1, <2>2 DEF ScanState
  <2> QED
    BY <2>3 DEF got, pc, next
<1>3. ASSUME NEW entry, Met(y, entry)
      PROVE  Met(x, entry) \/ \E i \in DOMAIN page : page[i] = entry
  BY <1>1, <1>2, <1>3 DEF Met
<1>4. ASSUME NEW entry, Met(x, entry) PROVE Met(y, entry)
  <2>1. PICK i \in DOMAIN x.got : x.got[i] = entry
    BY <1>4 DEF Met
  <2>2. i \in DOMAIN y.got /\ y.got[i] = entry
    BY <1>1, <1>2, <2>1
  <2> QED
    BY <2>2 DEF Met
<1>5. ASSUME NEW entry, NEW i \in DOMAIN page, page[i] = entry PROVE Met(y, entry)
  <2>1. Len(x.got) + i \in DOMAIN y.got /\ y.got[Len(x.got) + i] = entry
    BY <1>1, <1>2, <1>5
  <2> QED
    BY <2>1 DEF Met
<1>6. \A entry : Met(y, entry) <=> Met(x, entry) \/ \E i \in DOMAIN page : page[i] = entry
  BY <1>3, <1>4, <1>5
<1> QED
  BY <1>2, <1>6 DEF PageRead

\* A page is a piece of an order, and no row of the piece is left out.
PageOf(order, first, page) ==
  /\ Len(page) <= ListPageSize
  /\ \A i \in DOMAIN page : first + i \in DOMAIN order /\ page[i] = order[first + i]
  /\ \A i \in DOMAIN order :
       first < i /\ i <= first + ListPageSize => \E j \in DOMAIN page : page[j] = order[i]

LEMMA PieceLemma ==
  ASSUME NEW S, NEW order \in Seq(S), NEW first \in Nat, NEW upto \in Nat, upto <= Len(order),
         NEW piece, piece = SubSeq(order, first + 1, upto)
  PROVE  /\ piece \in Seq(S)
         /\ Len(piece) = IF first < upto THEN upto - first ELSE 0
         /\ DOMAIN piece = 1 .. Len(piece)
         /\ \A i \in DOMAIN piece : first + i \in DOMAIN order /\ piece[i] = order[first + i]
OBVIOUS

\* Where a page ends, and how long it is.
LEMMA PageArithmetic ==
  ASSUME NEW size \in Nat, size > 0, NEW first \in Nat, NEW len \in Nat,
         NEW upto, upto = IF first + size < len THEN first + size ELSE len
  PROVE  /\ upto \in Nat /\ upto <= len
         /\ LET n == IF first < upto THEN upto - first ELSE 0
            IN  n <= size /\ (n < size => len < first + size)
         /\ \A i \in 1 .. len : first < i /\ i <= first + size =>
              first < upto /\ i - first \in 1 .. upto - first /\ first + (i - first) = i
OBVIOUS

LEMMA PageLemma ==
  ASSUME NEW S, NEW order \in Seq(S), NEW first \in Nat,
         NEW upto, upto = IF first + ListPageSize < Len(order)
                          THEN first + ListPageSize ELSE Len(order),
         NEW page, page = SubSeq(order, first + 1, upto)
  PROVE  /\ page \in Seq(S)
         /\ PageOf(order, first, page)
         /\ Len(page) < ListPageSize => Len(order) < first + ListPageSize
<1> DEFINE n == IF first < upto THEN upto - first ELSE 0
<1>1. ListPageSize \in Nat /\ ListPageSize > 0 /\ Len(order) \in Nat
  BY ListingAssumption
<1>2. /\ upto \in Nat /\ upto <= Len(order)
      /\ n <= ListPageSize /\ (n < ListPageSize => Len(order) < first + ListPageSize)
      /\ \A i \in 1 .. Len(order) : first < i /\ i <= first + ListPageSize =>
           first < upto /\ i - first \in 1 .. upto - first /\ first + (i - first) = i
  BY <1>1, PageArithmetic
<1>3. /\ page \in Seq(S) /\ Len(page) = n /\ DOMAIN page = 1 .. Len(page)
      /\ \A i \in DOMAIN page : first + i \in DOMAIN order /\ page[i] = order[first + i]
  <2>1. upto \in Nat /\ upto <= Len(order)
    BY <1>2
  <2> QED
    BY <2>1, PieceLemma
<1>4. ASSUME NEW i \in DOMAIN order, first < i, i <= first + ListPageSize
      PROVE  \E j \in DOMAIN page : page[j] = order[i]
  <2>1. DOMAIN order = 1 .. Len(order)
    OBVIOUS
  <2>2. first < upto /\ i - first \in 1 .. upto - first /\ first + (i - first) = i
    BY <1>2, <1>4, <2>1
  <2>3. i - first \in DOMAIN page
    BY <1>3, <2>2
  <2> QED
    BY <1>3, <2>2, <2>3
<1> HIDE DEF n
<1> QED
  BY <1>2, <1>3, <1>4 DEF PageOf

\* Where the members of a joined sequence come from.
LEMMA JoinLemma ==
  ASSUME NEW S, NEW f \in Seq(S), NEW g \in Seq(S), NEW i \in DOMAIN (f \o g)
  PROVE  \/ i \in DOMAIN f /\ (f \o g)[i] = f[i]
         \/ i > Len(f) /\ i - Len(f) \in DOMAIN g /\ (f \o g)[i] = g[i - Len(f)]
OBVIOUS

LEMMA JoinDistinct ==
  ASSUME NEW S, NEW f \in Seq(S), NEW g \in Seq(S), Distinct(f), Distinct(g),
         \A i \in DOMAIN f, j \in DOMAIN g : f[i] # g[j]
  PROVE  Distinct(f \o g)
<1> SUFFICES ASSUME NEW i \in DOMAIN (f \o g), NEW j \in DOMAIN (f \o g),
                    (f \o g)[i] = (f \o g)[j]
             PROVE  i = j
  BY DEF Distinct
<1>1. i \in Nat /\ j \in Nat /\ Len(f) \in Nat
  OBVIOUS
<1>2. CASE i \in DOMAIN f /\ (f \o g)[i] = f[i]
  <2>1. CASE j \in DOMAIN f /\ (f \o g)[j] = f[j]
    BY <1>2, <2>1 DEF Distinct
  <2>2. CASE j - Len(f) \in DOMAIN g /\ (f \o g)[j] = g[j - Len(f)]
    BY <1>2, <2>2
  <2> QED
    BY <2>1, <2>2, JoinLemma
<1>3. CASE i > Len(f) /\ i - Len(f) \in DOMAIN g /\ (f \o g)[i] = g[i - Len(f)]
  <2>1. j > Len(f) /\ j - Len(f) \in DOMAIN g /\ (f \o g)[j] = g[j - Len(f)]
    BY <1>3, JoinLemma
  <2>2. i - Len(f) = j - Len(f)
    BY <1>3, <2>1 DEF Distinct
  <2> QED
    BY <1>1, <2>2
<1> QED
  BY <1>2, <1>3, JoinLemma

LEMMA JoinDescending ==
  ASSUME NEW S, NEW f \in Seq(S), NEW g \in Seq(S), Descending(f), Descending(g),
         \A i \in DOMAIN f, j \in DOMAIN g : Before(f[i], g[j])
  PROVE  Descending(f \o g)
<1> SUFFICES ASSUME NEW i \in DOMAIN (f \o g), NEW j \in DOMAIN (f \o g), i < j
             PROVE  Before((f \o g)[i], (f \o g)[j])
  BY DEF Descending
<1>1. i \in Nat /\ j \in Nat /\ Len(f) \in Nat /\ DOMAIN f = 1 .. Len(f)
  OBVIOUS
<1>2. CASE i \in DOMAIN f /\ (f \o g)[i] = f[i]
  BY <1>2, JoinLemma DEF Descending
<1>3. CASE i > Len(f) /\ i - Len(f) \in DOMAIN g /\ (f \o g)[i] = g[i - Len(f)]
  <2>1. ~(j \in DOMAIN f)
    BY <1>1, <1>3
  <2>2. j - Len(f) \in DOMAIN g /\ (f \o g)[j] = g[j - Len(f)]
    BY <2>1, JoinLemma
  <2>3. i - Len(f) < j - Len(f)
    BY <1>1
  <2> QED
    BY <1>3, <2>2, <2>3 DEF Descending
<1> QED
  BY <1>2, <1>3, JoinLemma

\* A page by offset.
LEMMA OffsetPage ==
  ASSUME NEW x \in ScanState, x.pc = "offset",
         NEW rows, rows \subseteq ListedRow, IsFiniteSet(rows), ScanOK(x, rows),
         NEW order \in ByCreatedAt(rows),
         NEW page \in Seq(rows), PageOf(order, Offset(x.next), page),
         NEW last \in BOOLEAN, last => Len(order) < Offset(x.next) + ListPageSize,
         NEW y, PageRead(x, page, last, y)
  PROVE  ScanOK(y, rows)
<1> DEFINE first == Offset(x.next)
           size == ListPageSize
<1>1. x.next \in Nat /\ x.next >= 1 /\ x.by = "offset" /\ x.got \in Seq(ListedRow)
  BY DEF ScanState, ScanOK, OffsetOK
<1>2. first \in Nat /\ size \in Nat \ {0} /\ Offset(x.next + 1) = first + size
  BY <1>1, OffsetLemma, ListingAssumption
<1>3. /\ order \in Seq(rows) /\ Len(order) \in Nat /\ DOMAIN order = 1 .. Len(order)
      /\ Distinct(order)
      /\ \A entry \in rows : \E i \in DOMAIN order : order[i] = entry
  BY OrderLemma DEF ByCreatedAt
<1>5. /\ DOMAIN page = 1 .. Len(page) /\ Len(page) \in Nat /\ Len(page) <= size
      /\ \A i \in DOMAIN page : first + i \in DOMAIN order /\ page[i] = order[first + i]
  BY DEF PageOf
<1>6. last => Len(order) < first + size
  OBVIOUS
<1>7. ASSUME NEW i \in DOMAIN order, first < i, i <= first + size
      PROVE  \E j \in DOMAIN page : page[j] = order[i]
  BY <1>7 DEF PageOf
<1>8. page \in Seq(ListedRow)
  OBVIOUS
<1>9. /\ y \in ScanState
      /\ y.pc = (IF last THEN "done" ELSE x.pc) /\ y.by = x.by /\ y.next = x.next + 1
      /\ y.got = x.got \o page /\ y.since = x.since
      /\ y.added = x.added /\ y.gone = x.gone /\ y.tied = x.tied
      /\ \A entry : Met(y, entry) <=> Met(x, entry) \/ \E i \in DOMAIN page : page[i] = entry
  BY DEF PageRead
<1> HIDE DEF first, size
<1>10. Offset(y.next) = first + size
  BY <1>2, <1>9
<1>11. ASSUME ~x.tied PROVE ~Tied(rows)
  BY <1>11 DEF ScanOK, OffsetOK
<1>12. ASSUME ~x.tied, ~x.gone, NEW entry \in x.since, ~Met(y, entry)
       PROVE  ~last /\ Rank(rows, entry) >= first + size
  <2>1. Rank(rows, entry) >= first
    BY <1>9, <1>12 DEF ScanOK, OffsetOK, first
  <2>2. PICK i \in DOMAIN order : order[i] = entry
    BY <1>3 DEF ScanOK
  <2>3. i \in 1 .. Len(order) /\ Rank(rows, entry) = i - 1
    BY <1>11, <1>12, <2>2, RankLemma
  <2>4. ~(first < i /\ i <= first + size)
    BY <1>7, <1>9, <1>12, <2>2
  <2>5. i > first + size
    BY <1>2, <1>3, <2>1, <2>3, <2>4
  <2> QED
    BY <1>2, <1>3, <1>6, <2>3, <2>5
<1>13. ASSUME ~x.tied, NEW i \in DOMAIN page
       PROVE  page[i] \in rows /\ Rank(rows, page[i]) >= first
              /\ Rank(rows, page[i]) < first + size
  <2>1. first + i \in DOMAIN order /\ page[i] = order[first + i]
    BY <1>5
  <2>2. page[i] \in rows /\ Rank(rows, page[i]) = (first + i) - 1
    BY <1>11, <1>13, <2>1, RankLemma
  <2>3. i \in Nat /\ 1 <= i /\ i <= size
    BY <1>2, <1>5, <1>6
  <2> QED
    BY <1>2, <2>2, <2>3
<1>14. ASSUME ~x.tied, ~x.added, NEW i \in DOMAIN x.got, x.got[i] \in rows
       PROVE  Rank(rows, x.got[i]) < first
  BY <1>14 DEF ScanOK, OffsetOK, first
<1>15. ASSUME ~x.tied, ~x.added, NEW i \in DOMAIN y.got, y.got[i] \in rows
       PROVE  Rank(rows, y.got[i]) < first + size
  <2>1. CASE i \in DOMAIN x.got /\ y.got[i] = x.got[i]
    <3>1. Rank(rows, y.got[i]) < first /\ Rank(rows, y.got[i]) \in Nat
      BY <1>14, <1>15, <2>1, RanksFall
    <3> QED
      BY <1>2, <3>1
  <2>2. CASE i - Len(x.got) \in DOMAIN page /\ y.got[i] = page[i - Len(x.got)]
    BY <1>13, <1>15, <2>2
  <2> QED
    BY <1>1, <1>8, <1>9, <2>1, <2>2, JoinLemma
<1>16. ASSUME ~x.tied, ~x.added PROVE Distinct(y.got)
  <2>1. Distinct(x.got)
    BY <1>1, <1>16 DEF ScanOK, OffsetOK
  <2>2. Distinct(page)
    <3> SUFFICES ASSUME NEW i \in DOMAIN page, NEW j \in DOMAIN page, page[i] = page[j]
                 PROVE  i = j
      BY DEF Distinct
    <3>1. first + i = first + j
      BY <1>3, <1>5 DEF Distinct
    <3> QED
      BY <1>2, <1>5, <1>6, <3>1
  <2>3. ASSUME NEW i \in DOMAIN x.got, NEW j \in DOMAIN page, x.got[i] = page[j] PROVE FALSE
    <3>1. page[j] \in rows /\ Rank(rows, page[j]) >= first
      BY <1>13, <1>16
    <3>2. Rank(rows, page[j]) < first
      BY <1>14, <1>16, <2>3, <3>1
    <3>3. Rank(rows, page[j]) \in Nat
      BY RanksFall
    <3> QED
      BY <1>2, <3>1, <3>2, <3>3
  <2> QED
    BY <1>1, <1>8, <1>9, <2>1, <2>2, <2>3, JoinDistinct
<1>17. OffsetOK(y, rows)
  <2>1. last => y.pc = "done"
    BY <1>9
  <2>2. ~last => y.pc = "offset"
    BY <1>9
  <2>4. y.by = "offset" /\ y.next >= 1
    BY <1>1, <1>9
  <2>5. ASSUME ~y.tied, ~y.gone, NEW entry \in y.since, ~Met(y, entry)
        PROVE  y.pc # "done" /\ Rank(rows, entry) >= Offset(y.next)
    BY <1>9, <1>10, <1>12, <2>2, <2>5
  <2>6. ASSUME ~y.tied, ~y.added, NEW i \in DOMAIN y.got, y.got[i] \in rows
        PROVE  Rank(rows, y.got[i]) < Offset(y.next)
    BY <1>9, <1>10, <1>15, <2>6
  <2>7. ~y.tied => ~Tied(rows)
    BY <1>9, <1>11
  <2>8. ~y.tied /\ ~y.added => Distinct(y.got)
    BY <1>9, <1>16
  <2> QED
    BY <2>4, <2>5, <2>6, <2>7, <2>8 DEF OffsetOK
<1>18. CursorOK(y, rows)
  BY <1>1, <1>9 DEF CursorOK
<1>19. y.since \subseteq rows
  BY <1>9 DEF ScanOK
<1> QED
  BY <1>9, <1>17, <1>18, <1>19 DEF ScanOK

\* Before is the order of (created_at, id), latest first.
LEMMA BeforeLemma ==
  ASSUME NEW a \in ListedRow, NEW b \in ListedRow, NEW c \in ListedRow
  PROVE  /\ Before(a, b) /\ Before(b, c) => Before(a, c)
         /\ Before(a, b) => a # NoCursor
<1>1. /\ a.created \in Nat /\ b.created \in Nat /\ c.created \in Nat
      /\ a.id \in Nat /\ b.id \in Nat /\ c.id \in Nat
  BY ListingAssumption DEF ListedRow
<1>2. Before(a, b) => a # NoCursor
  BY <1>1 DEF Before, NoCursor
<1>3. Before(a, b) /\ Before(b, c) => Before(a, c)
  BY <1>1 DEF Before
<1> QED
  BY <1>2, <1>3

\* A page by cursor.  With one row more in the answer of the database there is a next
\* page, and it starts after the last row of this one.
LEMMA CursorPage ==
  ASSUME NEW x \in ScanState, x.pc = "cursor",
         NEW rows, rows \subseteq ListedRow, IsFiniteSet(rows), ScanOK(x, rows),
         NEW order \in ByCursor(After(x.cursor, rows)),
         NEW page \in Seq(rows), PageOf(order, 0, page),
         NEW last \in BOOLEAN, last <=> Len(order) <= ListPageSize,
         NEW y, PageRead(x, page, last, y),
         y.cursor = IF last THEN x.cursor ELSE page[ListPageSize]
  PROVE  ScanOK(y, rows)
<1> DEFINE rest == After(x.cursor, rows)
           size == ListPageSize
<1>1. x.by = "cursor" /\ x.got \in Seq(ListedRow) /\ x.since \subseteq rows
      /\ Descending(x.got)
  BY DEF ScanState, ScanOK, CursorOK
<1>2. IsFiniteSet(rest) /\ rest \subseteq rows
  BY FS_Subset DEF After
<1>3. /\ order \in SetToSeqs(rest)
      /\ \A i, j \in DOMAIN order : i < j => Before(order[i], order[j])
  BY DEF ByCursor
<1>4. /\ order \in Seq(rest) /\ Len(order) \in Nat /\ DOMAIN order = 1 .. Len(order)
      /\ \A entry \in rest : \E i \in DOMAIN order : order[i] = entry
  BY <1>2, <1>3, OrderLemma
<1>5. \A i \in DOMAIN order : order[i] \in rest /\ order[i] \in ListedRow
  BY <1>2, <1>4
<1>6. size \in Nat /\ size > 0
  BY ListingAssumption
<1>7. /\ DOMAIN page = 1 .. Len(page) /\ Len(page) \in Nat /\ Len(page) <= size
      /\ \A i \in DOMAIN page : i \in DOMAIN order /\ page[i] = order[i]
  <2>1. /\ DOMAIN page = 1 .. Len(page) /\ Len(page) \in Nat /\ Len(page) <= size
        /\ \A i \in DOMAIN page : 0 + i \in DOMAIN order /\ page[i] = order[0 + i]
    BY DEF PageOf
  <2>2. \A i \in DOMAIN page : 0 + i = i
    BY <2>1
  <2> QED
    BY <2>1, <2>2
<1>8. ASSUME NEW i \in DOMAIN order, i <= size
      PROVE  \E j \in DOMAIN page : page[j] = order[i]
  <2>1. 0 < i /\ i <= 0 + size
    BY <1>4, <1>6, <1>8
  <2> QED
    BY <2>1 DEF PageOf
<1>9. /\ y.pc = (IF last THEN "done" ELSE x.pc) /\ y.by = x.by
      /\ y.got = x.got \o page /\ y.since = x.since
      /\ \A entry : Met(y, entry) <=> Met(x, entry) \/ \E i \in DOMAIN page : page[i] = entry
  BY DEF PageRead
<1>10. page \in Seq(ListedRow)
  OBVIOUS
<1>11. Descending(page)
  BY <1>3, <1>7 DEF Descending
<1>12. ASSUME NEW i \in DOMAIN x.got, NEW j \in DOMAIN page
       PROVE  Before(x.got[i], page[j])
  <2>1. x.cursor # NoCursor /\ x.cursor = x.got[Len(x.got)] /\ Len(x.got) > 0
    <3>1. x.got # <<>>
      BY <1>1, <1>12
    <3> QED
      BY <3>1 DEF ScanOK, CursorOK
  <2>2. Before(x.cursor, page[j]) /\ page[j] \in ListedRow
    BY <1>5, <1>7, <2>1 DEF After
  <2>3. Len(x.got) \in Nat /\ i \in 1 .. Len(x.got) /\ Len(x.got) \in DOMAIN x.got
        /\ x.got[i] \in ListedRow /\ x.got[Len(x.got)] \in ListedRow
    BY <1>1, <2>1
  <2>4. CASE i = Len(x.got)
    BY <2>1, <2>2, <2>4
  <2>5. CASE i < Len(x.got)
    <3>1. Before(x.got[i], x.cursor)
      BY <1>1, <2>1, <2>3, <2>5 DEF Descending
    <3> QED
      BY <2>1, <2>2, <2>3, <3>1, BeforeLemma
  <2> QED
    BY <2>3, <2>4, <2>5
<1>13. Descending(y.got)
  BY <1>1, <1>9, <1>10, <1>11, <1>12, JoinDescending
<1>14. ASSUME NEW entry \in x.since, ~Met(y, entry)
       PROVE  \E i \in DOMAIN order : order[i] = entry /\ i > size
  <2>1. entry \in rest
    BY <1>9, <1>14 DEF ScanOK, CursorOK
  <2>2. PICK i \in DOMAIN order : order[i] = entry
    BY <1>4, <2>1
  <2>3. ~(i <= size)
    BY <1>8, <1>9, <1>14, <2>2
  <2> QED
    BY <1>4, <1>6, <2>2, <2>3
<1>15. CASE last
  <2>1. y.pc = "done"
    BY <1>9, <1>15
  <2>2. \A entry \in y.since : Met(y, entry)
    BY <1>4, <1>6, <1>9, <1>14, <1>15
  <2>3. OffsetOK(y, rows)
    BY <1>1, <1>9, <2>1 DEF OffsetOK
  <2>4. CursorOK(y, rows)
    BY <1>13, <2>1, <2>2 DEF CursorOK
  <2> QED
    BY <2>1, <2>3, <2>4 DEF ScanOK
<1>16. CASE ~last
  <2>1. y.pc = "cursor" /\ y.by = "cursor" /\ y.cursor = page[size]
    BY <1>1, <1>9, <1>16
  <2>2. Len(order) > size /\ size \in DOMAIN order /\ size + 1 \in DOMAIN order
    BY <1>4, <1>6, <1>16
  <2>3. Len(page) = size /\ size \in DOMAIN page /\ page[size] = order[size]
    <3>1. PICK j \in DOMAIN page : page[j] = order[size]
      BY <1>6, <1>8, <2>2
    <3>2. j \in DOMAIN order /\ order[j] = order[size] /\ j <= size
      BY <1>6, <1>7, <3>1
    <3>3. Distinct(order)
      BY <1>2, <1>3, OrderLemma
    <3>4. j = size
      BY <2>2, <3>2, <3>3 DEF Distinct
    <3>5. size \in DOMAIN page /\ page[size] = order[size]
      BY <3>1, <3>4
    <3>6. size <= Len(page) /\ Len(page) <= size /\ Len(page) \in Nat
      BY <1>7, <3>5
    <3>7. Len(page) = size
      BY <1>6, <3>6
    <3> QED
      BY <3>5, <3>7
  <2>4. y.cursor # NoCursor
    <3>1. Before(order[size], order[size + 1])
      BY <1>3, <1>6, <2>2
    <3> QED
      BY <1>5, <2>1, <2>2, <2>3, <3>1, BeforeLemma
  <2>5. Len(y.got) > 0 /\ y.cursor = y.got[Len(y.got)]
    BY <1>1, <1>6, <1>9, <1>10, <2>1, <2>3
  <2>6. ASSUME NEW entry \in y.since, ~Met(y, entry) PROVE entry \in After(y.cursor, rows)
    <3>1. PICK i \in DOMAIN order : order[i] = entry /\ i > size
      BY <1>9, <1>14, <2>6
    <3>2. Before(y.cursor, entry) /\ entry \in rows
      BY <1>2, <1>3, <1>5, <2>1, <2>2, <2>3, <3>1
    <3> QED
      BY <3>2 DEF After
  <2>7. OffsetOK(y, rows)
    BY <2>1 DEF OffsetOK
  <2>8. CursorOK(y, rows)
    BY <1>13, <2>1, <2>4, <2>5, <2>6 DEF CursorOK
  <2>9. y.since \subseteq rows
    BY <1>1, <1>9
  <2> QED
    BY <2>7, <2>8, <2>9 DEF ScanOK
<1> QED
  BY <1>15, <1>16

----------------------------------------------------------------------------
(* All steps of the table and of the readers *)

LEMMA ScanStepLemma ==
  ASSUME listed' \subseteq ListedRow, IsFiniteSet(listed'), made' \subseteq ArticleId,
         scan' = [s \in Scan |-> scan'[s]],
         \A s \in Scan : scan'[s] \in ScanState /\ ScanOK(scan'[s], listed')
  PROVE  ScanInv'
BY DEF ScanInv, ListingTypeOK

\* Nobody has read anything.
LEMMA ScanIdleLemma ==
  ASSUME NEW rows
  PROVE  ScanIdle \in ScanState /\ ScanIdle.pc = "idle" /\ ScanOK(ScanIdle, rows)
<1>1. ScanIdle \in ScanState
  BY DEF ScanIdle, ScanState
<1>2. ScanIdle.pc = "idle"
  BY DEF ScanIdle
<1> QED
  BY <1>1, <1>2 DEF ScanOK, OffsetOK, CursorOK

LEMMA ScanInitHolds == ScanInit => ScanInv
<1> SUFFICES ASSUME ScanInit PROVE ScanInv
  OBVIOUS
<1>1. listed = {} /\ made = {} /\ scan = [s \in Scan |-> ScanIdle]
  BY DEF ScanInit
<1>2. IsFiniteSet(listed)
  BY <1>1, FS_EmptySet
<1> QED
  BY <1>1, <1>2, ScanIdleLemma DEF ScanInv, ListingTypeOK

LEMMA ArticleAppearsKeepsInv ==
  ASSUME ScanInv, NEW a \in ArticleId, ArticleAppears(a)
  PROVE  ScanInv'
<1>1. PICK c \in Moment :
        /\ listed' = listed \cup {[id |-> a, created |-> c]}
        /\ scan' = [s \in Scan |->
               IF UnderWay(s)
               THEN [scan[s] EXCEPT !.added = TRUE, !.tied = @ \/ Tied(listed')]
               ELSE scan[s]]
  BY DEF ArticleAppears
<1>2. listed' \subseteq ListedRow /\ IsFiniteSet(listed') /\ listed \subseteq listed'
  <2>1. [id |-> a, created |-> c] \in ListedRow
    BY DEF ListedRow
  <2>2. listed \subseteq ListedRow /\ IsFiniteSet(listed)
    BY DEF ScanInv, ListingTypeOK
  <2>3. IsFiniteSet(listed')
    BY <1>1, <2>2, FS_AddElement
  <2> QED
    BY <1>1, <2>1, <2>2, <2>3
<1>3. made' \subseteq ArticleId
  BY DEF ArticleAppears, ScanInv, ListingTypeOK
<1>4. scan' = [s \in Scan |-> scan'[s]]
  BY <1>1
<1>5. ASSUME NEW s \in Scan
      PROVE  scan'[s] \in ScanState /\ ScanOK(scan'[s], listed')
  <2>1. scan[s] \in ScanState /\ ScanOK(scan[s], listed)
    BY DEF ScanInv, ListingTypeOK
  <2>2. CASE UnderWay(s)
    <3> DEFINE tied == scan[s].tied \/ Tied(listed')
               y == scan'[s]
    <3>1. tied \in BOOLEAN
      BY <2>1 DEF ScanState, Tied
    <3>2. y = [scan[s] EXCEPT !.added = TRUE, !.tied = tied]
      BY <1>1, <2>2
    <3>3. scan[s].pc \in {"offset", "cursor"} /\ (tied <=> scan[s].tied \/ Tied(listed'))
      BY <2>2 DEF UnderWay
    <3> HIDE DEF tied, y
    <3>4. y \in ScanState /\ ScanOK(y, listed')
      BY <1>2, <2>1, <3>1, <3>2, <3>3, RowComes
    <3> QED
      BY <3>4 DEF y
  <2>3. CASE ~UnderWay(s)
    <3>1. scan'[s] = scan[s]
      BY <1>1, <2>3
    <3>2. scan[s].pc \in {"idle", "done"}
      BY <2>1, <2>3 DEF UnderWay, ScanState
    <3> QED
      BY <2>1, <3>1, <3>2, RestingLemma
  <2> QED
    BY <2>2, <2>3
<1> QED
  BY <1>2, <1>3, <1>4, <1>5, ScanStepLemma

LEMMA ArticleGoesKeepsInv ==
  ASSUME ScanInv, NEW entry \in listed, ArticleGoes(entry)
  PROVE  ScanInv'
<1>1. /\ listed' = listed \ {entry}
      /\ scan' = [s \in Scan |->
           IF UnderWay(s) THEN [scan[s] EXCEPT !.gone = TRUE, !.since = @ \ {entry}] ELSE scan[s]]
  BY DEF ArticleGoes
<1>2. IsFiniteSet(listed) /\ listed \subseteq ListedRow
  BY DEF ScanInv, ListingTypeOK
<1>3. listed' \subseteq ListedRow /\ IsFiniteSet(listed')
  BY <1>1, <1>2, FS_RemoveElement
<1>4. made' \subseteq ArticleId
  BY DEF ArticleGoes, ScanInv, ListingTypeOK
<1>5. scan' = [s \in Scan |-> scan'[s]]
  BY <1>1
<1>6. ASSUME NEW s \in Scan
      PROVE  scan'[s] \in ScanState /\ ScanOK(scan'[s], listed')
  <2>1. scan[s] \in ScanState /\ ScanOK(scan[s], listed)
    BY DEF ScanInv, ListingTypeOK
  <2>2. CASE UnderWay(s)
    <3>1. scan'[s] = [scan[s] EXCEPT !.gone = TRUE, !.since = @ \ {entry}]
      BY <1>1, <2>2
    <3>2. scan[s].pc \in {"offset", "cursor"}
      BY <2>2 DEF UnderWay
    <3>3. scan'[s] \in ScanState /\ ScanOK(scan'[s], listed \ {entry})
      BY <1>2, <2>1, <3>1, <3>2, RowGoes
    <3> QED
      BY <1>1, <3>3
  <2>3. CASE ~UnderWay(s)
    <3>1. scan'[s] = scan[s]
      BY <1>1, <2>3
    <3>2. scan[s].pc \in {"idle", "done"}
      BY <2>1, <2>3 DEF UnderWay, ScanState
    <3> QED
      BY <2>1, <3>1, <3>2, RestingLemma
  <2> QED
    BY <2>2, <2>3
<1> QED
  BY <1>3, <1>4, <1>5, <1>6, ScanStepLemma

\* The step of one reader.
LEMMA ReaderKeepsInv ==
  ASSUME ScanInv, NEW s \in Scan, NEW y \in ScanState, scan' = [scan EXCEPT ![s] = y],
         ScanOK(y, listed), UNCHANGED <<listed, made>>
  PROVE  ScanInv'
<1>1. scan' = [t \in Scan |-> scan'[t]]
  BY DEF ScanInv, ListingTypeOK
<1>2. ASSUME NEW t \in Scan PROVE scan'[t] \in ScanState /\ ScanOK(scan'[t], listed')
  <2>1. scan[t] \in ScanState /\ ScanOK(scan[t], listed) /\ listed' = listed
    BY DEF ScanInv, ListingTypeOK
  <2>2. scan'[t] = IF t = s THEN y ELSE scan[t]
    BY DEF ScanInv, ListingTypeOK
  <2> QED
    BY <2>1, <2>2
<1>3. listed' \subseteq ListedRow /\ IsFiniteSet(listed') /\ made' \subseteq ArticleId
  BY DEF ScanInv, ListingTypeOK
<1> QED
  BY <1>1, <1>2, <1>3, ScanStepLemma

LEMMA StartScanKeepsInv ==
  ASSUME ScanInv, NEW s \in Scan, NEW by \in {"offset", "cursor"}, StartScan(s, by)
  PROVE  ScanInv'
<1> DEFINE tied == Tied(listed)
           y == [ScanIdle EXCEPT !.pc = by, !.by = by, !.since = listed, !.tied = tied]
<1>1. listed \subseteq ListedRow
  BY DEF ScanInv, ListingTypeOK
<1>2. tied \in BOOLEAN
  BY DEF Tied
<1>3. scan' = [scan EXCEPT ![s] = y] /\ UNCHANGED <<listed, made>>
  BY DEF StartScan
<1> HIDE DEF tied
<1>4. /\ y \in ScanState /\ y.pc = by /\ y.by = by /\ y.next = 1 /\ y.cursor = NoCursor
      /\ y.got = <<>> /\ y.since = listed /\ y.tied = tied
  BY <1>1, <1>2, ScanIdleLemma DEF ScanState, ScanIdle
<1> HIDE DEF y
<1>5. Distinct(y.got) /\ Descending(y.got) /\ DOMAIN y.got = {}
  BY <1>4 DEF Distinct, Descending
<1>6. \A entry : Rank(listed, entry) >= Offset(1)
  <2>1. Offset(1) = 0
    BY OffsetLemma
  <2>2. \A entry : Rank(listed, entry) \in Nat
    BY RanksFall DEF ScanInv
  <2> QED
    BY <2>1, <2>2
<1>7. OffsetOK(y, listed)
  BY <1>4, <1>5, <1>6 DEF OffsetOK, tied
<1>8. CursorOK(y, listed)
  BY <1>4, <1>5 DEF CursorOK, After
<1>9. ScanOK(y, listed)
  BY <1>4, <1>7, <1>8 DEF ScanOK
<1> QED
  BY <1>3, <1>4, <1>9, ReaderKeepsInv

LEMMA ListKeepsInv ==
  ASSUME ScanInv, NEW s \in Scan, List(s)
  PROVE  ScanInv'
<1> DEFINE x == scan[s]
           first == Offset(x.next)
<1>1. PICK order \in ByCreatedAt(listed) :
        LET rows == SubSeq(order, first + 1,
                           IF first + ListPageSize < Len(order)
                           THEN first + ListPageSize ELSE Len(order))
        IN  scan' = [scan EXCEPT ![s] = Reads(s, rows, Len(rows) < ListPageSize)]
  BY DEF List
<1> DEFINE upto == IF first + ListPageSize < Len(order)
                   THEN first + ListPageSize ELSE Len(order)
           page == SubSeq(order, first + 1, upto)
           last == Len(page) < ListPageSize
           y == Reads(s, page, last)
<1>2. scan' = [scan EXCEPT ![s] = y]
  BY <1>1
<1>3. /\ x \in ScanState /\ ScanOK(x, listed) /\ x.pc = "offset"
      /\ listed \subseteq ListedRow /\ IsFiniteSet(listed)
  BY DEF ScanInv, ListingTypeOK, List
<1>4. first \in Nat
  BY <1>3, OffsetLemma DEF ScanState, ScanOK, OffsetOK
<1>5. order \in Seq(listed)
  BY <1>3, OrderLemma DEF ByCreatedAt
<1> HIDE DEF first
<1>6. page \in Seq(listed) /\ PageOf(order, first, page)
      /\ (last => Len(order) < first + ListPageSize)
  BY <1>4, <1>5, PageLemma
<1>7. last \in BOOLEAN /\ page \in Seq(ListedRow)
  BY <1>3, <1>6
<1>8. y = [x EXCEPT !.got = @ \o page, !.next = @ + 1, !.pc = IF last THEN "done" ELSE @]
  BY DEF Reads
<1> HIDE DEF x, upto, page, last, y
<1>9. PageRead(x, page, last, y)
  BY <1>3, <1>7, <1>8, ReadsLemma
<1>10. ScanOK(y, listed) /\ y \in ScanState
  <2>1. PageOf(order, Offset(x.next), page) /\ (last => Len(order) < Offset(x.next) + ListPageSize)
    BY <1>6 DEF first
  <2>2. ScanOK(y, listed)
    BY <1>3, <1>6, <1>7, <1>9, <2>1, OffsetPage
  <2> QED
    BY <1>9, <2>2 DEF PageRead
<1>11. UNCHANGED <<listed, made>>
  BY DEF List
<1> QED
  BY <1>2, <1>10, <1>11, ReaderKeepsInv

LEMMA ListByCursorKeepsInv ==
  ASSUME ScanInv, NEW s \in Scan, ListByCursor(s)
  PROVE  ScanInv'
<1> DEFINE x == scan[s]
           size == ListPageSize
<1>1. PICK order \in ByCursor(AfterCursor(x.cursor)) :
        LET more == Len(order) > size
            page == IF more THEN SubSeq(order, 1, size) ELSE order
        IN scan' = [scan EXCEPT ![s] =
               [Reads(s, page, ~more) EXCEPT !.cursor = IF more THEN page[size] ELSE @]]
  BY DEF ListByCursor
<1> DEFINE last == ~(Len(order) > size)
           page == IF last THEN order ELSE SubSeq(order, 1, size)
           z == Reads(s, page, last)
           cursor == IF last THEN x.cursor ELSE page[size]
           y == [z EXCEPT !.cursor = cursor]
<1>2. /\ x \in ScanState /\ ScanOK(x, listed) /\ x.pc = "cursor"
      /\ listed \subseteq ListedRow /\ IsFiniteSet(listed)
  BY DEF ScanInv, ListingTypeOK, ListByCursor
<1>3. AfterCursor(x.cursor) = After(x.cursor, listed)
  BY DEF AfterCursor, After
<1>4. order \in Seq(listed) /\ Len(order) \in Nat
  <2>1. IsFiniteSet(After(x.cursor, listed)) /\ After(x.cursor, listed) \subseteq listed
    BY <1>2, FS_Subset DEF After
  <2>2. order \in Seq(After(x.cursor, listed))
    BY <1>3, <2>1, OrderLemma DEF ByCursor
  <2> QED
    BY <2>1, <2>2
<1>5. size \in Nat /\ size > 0
  BY ListingAssumption
<1>6. last \in BOOLEAN /\ (last <=> Len(order) <= size)
  BY <1>4, <1>5
<1>7. page \in Seq(listed) /\ PageOf(order, 0, page)
  <2> DEFINE upto == IF 0 + size < Len(order) THEN 0 + size ELSE Len(order)
  <2>1. SubSeq(order, 0 + 1, upto) \in Seq(listed) /\ PageOf(order, 0, SubSeq(order, 0 + 1, upto))
    BY <1>4, PageLemma
  <2>2. page = SubSeq(order, 0 + 1, upto)
    <3>1. CASE last
      BY <1>4, <1>5, <3>1
    <3>2. CASE ~last
      BY <1>4, <1>5, <3>2
    <3> QED
      BY <3>1, <3>2
  <2> QED
    BY <2>1, <2>2
<1>8. z = [x EXCEPT !.got = @ \o page, !.next = @ + 1, !.pc = IF last THEN "done" ELSE @]
  BY DEF Reads
<1>9. page \in Seq(ListedRow)
  BY <1>2, <1>7
<1>10. ~last => page[size] \in ListedRow
  <2>1. ASSUME ~last PROVE Len(page) = size
    BY <1>4, <1>5, <2>1
  <2> QED
    BY <1>5, <1>9, <2>1
<1>11. scan' = [scan EXCEPT ![s] = [z EXCEPT !.cursor = IF last THEN @ ELSE page[size]]]
  <2>1. (Len(order) > size) <=> ~last
    OBVIOUS
  <2> HIDE DEF z
  <2> QED
    BY <1>1, <2>1 DEF z
<1> HIDE DEF x, page, last, z
<1>12. PageRead(x, page, last, z) /\ z.cursor = x.cursor
  <2>1. x \in ScanState /\ last \in BOOLEAN
    BY <1>2, <1>6
  <2>2. \A l \in BOOLEAN : \A w :
          w = [x EXCEPT !.got = @ \o page, !.next = @ + 1, !.pc = IF l THEN "done" ELSE @]
          => PageRead(x, page, l, w) /\ w.cursor = x.cursor
    BY <2>1, <1>9, ReadsLemma
  <2> QED
    BY <2>1, <2>2, <1>8
<1>13. cursor \in ListedRow \cup {NoCursor}
  BY <1>2, <1>10 DEF ScanState
<1>14. scan' = [scan EXCEPT ![s] = y]
  BY <1>11, <1>12
<1> HIDE DEF cursor
<1>15. PageRead(x, page, last, y) /\ y.cursor = cursor
  <2>1. z \in ScanState
    BY <1>12 DEF PageRead
  <2>2. /\ y \in ScanState /\ y.cursor = cursor
        /\ y.pc = z.pc /\ y.by = z.by /\ y.next = z.next /\ y.got = z.got
        /\ y.since = z.since /\ y.added = z.added /\ y.gone = z.gone /\ y.tied = z.tied
    BY <1>13, <2>1 DEF ScanState
  <2> HIDE DEF y
  <2>3. \A entry : Met(y, entry) <=> Met(z, entry)
    BY <2>2 DEF Met
  <2> QED
    BY <1>12, <2>2, <2>3 DEF PageRead
<1> HIDE DEF y
<1>16. ScanOK(y, listed)
  <2>1. order \in ByCursor(After(x.cursor, listed))
    BY <1>3 DEF x
  <2>2. y.cursor = IF last THEN x.cursor ELSE page[ListPageSize]
    BY <1>15 DEF cursor
  <2> QED
    BY <1>2, <1>6, <1>7, <1>15, <2>1, <2>2, CursorPage
<1>17. y \in ScanState
  BY <1>15 DEF PageRead
<1>18. UNCHANGED <<listed, made>>
  BY DEF ListByCursor
<1> QED
  BY <1>14, <1>16, <1>17, <1>18, ReaderKeepsInv

LEMMA ScanInvHolds == ScanSpec => []ScanInv
<1>1. ASSUME ScanInv, NEW s \in Scan, ForgetScan(s) PROVE ScanInv'
  BY <1>1, ScanIdleLemma, ReaderKeepsInv DEF ForgetScan
<1>2. ASSUME ScanInv, [ScanNext]_scanVars PROVE ScanInv'
  <2>1. CASE UNCHANGED scanVars
    BY <1>2, <2>1 DEF ScanInv, scanVars, ListingTypeOK
  <2>2. CASE ScanNext
    BY <1>1, <1>2, <2>2, ArticleAppearsKeepsInv, ArticleGoesKeepsInv, StartScanKeepsInv,
       ListKeepsInv, ListByCursorKeepsInv DEF ScanNext
  <2> QED
    BY <1>2, <2>1, <2>2
<1> QED
  BY <1>2, ScanInitHolds, PTL DEF ScanSpec

\* Whatever comes and goes, a scan by cursor meets each article that was there
\* throughout, in order; by offset that holds while nothing goes, and none is met
\* twice while nothing comes (article.go:218-246, 292-299).
THEOREM ScanMeetsAllHolds == ScanSpec => []ScanMeetsAll
<1>1. ASSUME ScanInv, NEW s \in Scan, scan[s].pc = "done"
      PROVE  IF scan[s].by = "cursor"
             THEN /\ MeetsAll(s)
                  /\ \A i, j \in DOMAIN scan[s].got :
                       i < j => Before(scan[s].got[i], scan[s].got[j])
             ELSE ~scan[s].tied =>
                  /\ ~scan[s].gone => MeetsAll(s)
                  /\ ~scan[s].added => NoneTwice(s)
  <2>1. scan[s] \in ScanState /\ OffsetOK(scan[s], listed) /\ CursorOK(scan[s], listed)
    BY <1>1 DEF ScanInv, ListingTypeOK, ScanOK
  <2>2. CASE scan[s].by = "cursor"
    BY <1>1, <2>1, <2>2 DEF CursorOK, MeetsAll, Met, Descending
  <2>3. CASE scan[s].by = "offset"
    BY <1>1, <2>1, <2>3 DEF OffsetOK, MeetsAll, NoneTwice, Met, Distinct
  <2> QED
    BY <2>1, <2>2, <2>3 DEF ScanState
<1>2. ScanInv => ScanMeetsAll
  BY <1>1 DEF ScanMeetsAll
<1> QED
  BY <1>2, ScanInvHolds, PTL
=============================================================================
