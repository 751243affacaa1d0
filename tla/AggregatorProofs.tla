---------------------------- MODULE AggregatorProofs ----------------------------
(***************************************************************************)
(* Proofs about Aggregator, for any set of venues, frames and subscribers. *)
(*                                                                         *)
(* The inductive invariant joins TypeOK with what the code relies on       *)
(* without saying so: the consolidated book is the one published under the *)
(* current version, a promise that is set holds the update of the version  *)
(* next to it, and only a call blocked in fut.get() has a task queued.     *)
(***************************************************************************)
EXTENDS Aggregator, OrderBookProofs

MergedBooks == {Merge(books) : books \in [Connectors -> Book]}

-----------------------------------------------------------------------------
(* The strand *)

LEMMA TaskFacts ==
    /\ UpdateTask \in Tasks
    /\ \A s \in Subscribers : BuildTask(s) \in Tasks /\ BuildTask(s) # UpdateTask
    /\ \A s, t \in Subscribers : BuildTask(s) = BuildTask(t) => s = t
BY DEF Tasks, UpdateTask, BuildTask

\* Posting puts a task behind those that wait.
LEMMA PostFacts ==
    ASSUME NEW queue \in Seq(Tasks), NEW task \in Tasks
    PROVE  /\ Append(queue, task) \in Seq(Tasks)
           /\ DOMAIN Append(queue, task) = DOMAIN queue \cup {Len(queue) + 1}
           /\ Len(queue) + 1 \notin DOMAIN queue
           /\ \A i \in DOMAIN queue : Append(queue, task)[i] = queue[i]
           /\ Append(queue, task)[Len(queue) + 1] = task
OBVIOUS

\* Running the first task moves the others up by one.
LEMMA RunFacts ==
    ASSUME NEW queue \in Seq(Tasks), queue # << >>
    PROVE  /\ Tail(queue) \in Seq(Tasks)
           /\ 1 \in DOMAIN queue /\ queue[1] = Head(queue)
           /\ \A i \in DOMAIN Tail(queue) :
                 i + 1 \in DOMAIN queue /\ Tail(queue)[i] = queue[i + 1]
           /\ \A i \in DOMAIN queue :
                 i = 1 \/ (i - 1 \in DOMAIN Tail(queue) /\ Tail(queue)[i - 1] = queue[i])
           /\ DOMAIN queue \subseteq Nat /\ DOMAIN Tail(queue) \subseteq Nat
OBVIOUS

-----------------------------------------------------------------------------
(* The inductive invariant *)

PublishedType == published \in Seq(MergedBooks)

\* The consolidated book is the one of the current version.
ConsolidatedIsPublished ==
    consolidated = IF version = 0 THEN EmptyBook ELSE published[version]

\* A promise holds an update together with its own version.
ResultMatchesVersion ==
    \A s \in Subscribers : \A result \in fut[s] :
        result.version > 0 => result.update = BuildUpdate(published[result.version])

\* What a promise holds was built after its call began, and only a waiting call
\* has something in its promise.
AnswersSinceJoin ==
    \A s \in Subscribers :
        /\ pc[s] # "wait" => fut[s] = {}
        /\ \A result \in fut[s] : result.version >= joined[s]

IInv ==
    /\ TypeOK
    /\ PublishedType
    /\ ConsolidatedIsPublished
    /\ ConsolidatedIsFresh
    /\ ResultMatchesVersion
    /\ ViewMatchesVersion
    /\ PromiseAlive
    /\ AnswersSinceJoin

\* The constructor leaves an empty sum of empty books, and no call.
THEOREM InitIInv == Init => IInv
<1> SUFFICES ASSUME Init PROVE IInv
  OBVIOUS
<1> USE DEF Init
<1>1. TypeOK
  BY EmptyBookType DEF TypeOK, EmptyBook, EmptySide
<1>2. PublishedType /\ ConsolidatedIsPublished /\ ResultMatchesVersion
  BY DEF PublishedType, ConsolidatedIsPublished, ResultMatchesVersion
<1>3. ConsolidatedIsFresh
  BY MergeOfEmpty DEF ConsolidatedIsFresh
<1>4. ViewMatchesVersion
  BY DEF ViewMatchesVersion
<1>5. PromiseAlive
  BY DEF PromiseAlive, BuildsQueued
<1>6. AnswersSinceJoin
  BY DEF AnswersSinceJoin
<1> QED
  BY <1>1, <1>2, <1>3, <1>4, <1>5, <1>6 DEF IInv

-----------------------------------------------------------------------------
(* One lemma for each action that touches the strand or a result *)

LEMMA HandleMessageStep ==
    ASSUME IInv, NEW c \in Connectors, NEW msg \in FeedMessages[c],
           HandleMessage(c, msg)
    PROVE  IInv'
<1> USE DEF IInv, HandleMessage, callVars
<1> DEFINE new == Append(strand_queue, UpdateTask)
<1>1. /\ Exchange[c] \in Exchanges /\ msg \in Message
      /\ local_books \in [Connectors -> Book]
      /\ strand_queue \in Seq(Tasks)
  BY AggregatorAssumption DEF TypeOK
<1>2. Parse(Exchange[c], local_books[c], msg) \in Book
  BY <1>1, ParseType
<1>3. /\ strand_queue' = new
      /\ new \in Seq(Tasks)
      /\ DOMAIN new = DOMAIN strand_queue \cup {Len(strand_queue) + 1}
      /\ \A i \in DOMAIN strand_queue : new[i] = strand_queue[i]
      /\ new[Len(strand_queue) + 1] = UpdateTask
  BY <1>1, TaskFacts, PostFacts
<1>4. TypeOK'
  BY <1>1, <1>2, <1>3 DEF TypeOK
<1>5. (PublishedType /\ ConsolidatedIsPublished)'
  BY DEF PublishedType, ConsolidatedIsPublished
<1>6. ConsolidatedIsFresh'
  BY <1>3 DEF ConsolidatedIsFresh
<1>7. (ResultMatchesVersion /\ ViewMatchesVersion)'
  BY DEF ResultMatchesVersion, ViewMatchesVersion
<1>8. PromiseAlive'
  <2> SUFFICES ASSUME NEW s \in Subscribers PROVE BuildsQueued(s)' = BuildsQueued(s)
    BY DEF PromiseAlive
  <2> QED
    BY <1>3, TaskFacts DEF BuildsQueued
<1>9. AnswersSinceJoin'
  BY DEF AnswersSinceJoin
<1> QED
  BY <1>4, <1>5, <1>6, <1>7, <1>8, <1>9

LEMMA UpdateConsolidatedBookStep ==
    ASSUME IInv, UpdateConsolidatedBook
    PROVE  IInv'
<1> USE DEF IInv, UpdateConsolidatedBook, callVars
<1>1. /\ local_books \in [Connectors -> Book]
      /\ strand_queue \in Seq(Tasks) /\ strand_queue # << >>
      /\ version \in Nat /\ Len(published) = version
      /\ published \in Seq(MergedBooks)
      /\ Merge(local_books) \in MergedBooks
  BY DEF TypeOK, PublishedType, MergedBooks
<1>2. /\ published' \in Seq(MergedBooks)
      /\ Len(published') = version + 1
      /\ published'[version + 1] = Merge(local_books)
      /\ \A v \in 1 .. version : published'[v] = published[v]
  BY <1>1
<1>3. TypeOK'
  <2>1. strand_queue' \in Seq(Tasks)
    BY <1>1, RunFacts
  <2>2. /\ DOMAIN consolidated'.bids \subseteq Price
        /\ DOMAIN consolidated'.asks \subseteq Price
    BY <1>1, MergeDomain
  <2> QED
    BY <1>1, <1>2, <2>1, <2>2 DEF TypeOK
<1>4. (PublishedType /\ ConsolidatedIsPublished)'
  BY <1>1, <1>2 DEF PublishedType, ConsolidatedIsPublished
<1>5. ConsolidatedIsFresh'
  BY DEF ConsolidatedIsFresh
<1>6. ResultMatchesVersion'
  <2> SUFFICES ASSUME NEW s \in Subscribers, NEW result \in fut[s], result.version > 0
               PROVE  result.update = BuildUpdate(published'[result.version])
    BY DEF ResultMatchesVersion
  <2>1. result.version \in 1 .. version
    BY DEF TypeOK
  <2> QED
    BY <1>2, <2>1 DEF ResultMatchesVersion
<1>7. ViewMatchesVersion'
  <2> SUFFICES ASSUME NEW s \in Subscribers
               PROVE  view[s] = IF last_seen_version[s] = 0 THEN NoUpdate
                                ELSE BuildUpdate(published'[last_seen_version[s]])
    BY DEF ViewMatchesVersion
  <2>1. last_seen_version[s] \in 0 .. version
    BY DEF TypeOK
  <2> QED
    BY <1>1, <1>2, <2>1 DEF ViewMatchesVersion
<1>8. PromiseAlive'
  <2> SUFFICES ASSUME NEW s \in Subscribers
               PROVE  /\ \A i, j \in BuildsQueued(s)' : i = j
                      /\ BuildsQueued(s)' # {} => BuildsQueued(s) # {}
                      /\ BuildsQueued(s) # {} => BuildsQueued(s)' # {}
    BY DEF PromiseAlive
  <2>1. \A i \in BuildsQueued(s)' : i \in Nat /\ i + 1 \in BuildsQueued(s)
    BY <1>1, RunFacts DEF BuildsQueued
  <2>2. \A i \in BuildsQueued(s) : i - 1 \in BuildsQueued(s)'
    BY <1>1, RunFacts, TaskFacts DEF BuildsQueued
  <2>3. \A i, j \in BuildsQueued(s)' : i = j
    BY <2>1 DEF PromiseAlive
  <2> QED
    BY <2>1, <2>2, <2>3
<1>9. AnswersSinceJoin'
  BY DEF AnswersSinceJoin
<1> QED
  BY <1>3, <1>4, <1>5, <1>6, <1>7, <1>8, <1>9

LEMMA BuildBookUpdateStep ==
    ASSUME IInv, NEW s \in Subscribers, BuildBookUpdate(s)
    PROVE  IInv'
<1> USE DEF IInv, BuildBookUpdate, feedVars
<1> DEFINE result == [update |-> BuildUpdate(consolidated), version |-> version]
<1>1. /\ strand_queue \in Seq(Tasks) /\ strand_queue # << >>
      /\ version \in Nat
      /\ DOMAIN fut = Subscribers
      /\ fut'[s] = {result}
      /\ \A t \in Subscribers \ {s} : fut'[t] = fut[t]
  BY DEF TypeOK
<1>2. TypeOK'
  <2>1. strand_queue' \in Seq(Tasks)
    BY <1>1, RunFacts
  <2>2. \A t \in Subscribers : \A r \in fut'[t] : r.version \in 0 .. version
    BY <1>1 DEF TypeOK
  <2> QED
    BY <1>1, <2>1, <2>2 DEF TypeOK
<1>3. (PublishedType /\ ConsolidatedIsPublished)'
  BY DEF PublishedType, ConsolidatedIsPublished
<1>4. ConsolidatedIsFresh'
  <2>1. ASSUME NEW i \in DOMAIN strand_queue, strand_queue[i] = UpdateTask
        PROVE  \E j \in DOMAIN strand_queue' : strand_queue'[j] = UpdateTask
    <3>1. i # 1
      BY <1>1, <2>1, RunFacts, TaskFacts
    <3>2. /\ i - 1 \in DOMAIN Tail(strand_queue)
          /\ Tail(strand_queue)[i - 1] = strand_queue[i]
      BY <1>1, <3>1, RunFacts
    <3> QED
      BY <2>1, <3>2
  <2> QED
    BY <2>1 DEF ConsolidatedIsFresh
<1>5. ResultMatchesVersion'
  <2>1. version > 0 => result.update = BuildUpdate(published[version])
    BY <1>1 DEF ConsolidatedIsPublished
  <2> QED
    BY <1>1, <2>1 DEF ResultMatchesVersion
<1>6. ViewMatchesVersion'
  BY DEF ViewMatchesVersion
<1>7. PromiseAlive'
  <2> SUFFICES ASSUME NEW t \in Subscribers
               PROVE  /\ \A i, j \in BuildsQueued(t)' : i = j
                      /\ BuildsQueued(t)' # {} => pc[t] = "wait" /\ fut'[t] = {}
                      /\ pc[t] = "wait" /\ fut'[t] = {} => BuildsQueued(t)' # {}
    BY DEF PromiseAlive
  <2>1. \A i \in BuildsQueued(t)' : i \in Nat /\ i # 0 /\ i + 1 \in BuildsQueued(t)
    BY <1>1, RunFacts DEF BuildsQueued
  <2>2. \A i, j \in BuildsQueued(t)' : i = j
    BY <2>1 DEF PromiseAlive
  <2>3. CASE t = s
    <3>1. 1 \in BuildsQueued(s)
      BY <1>1, RunFacts DEF BuildsQueued
    <3>2. BuildsQueued(s)' = {}
      BY <2>1, <2>3, <3>1 DEF PromiseAlive
    <3> QED
      BY <1>1, <2>3, <3>2
  <2>4. CASE t # s
    <3>1. \A i \in BuildsQueued(t) : i - 1 \in BuildsQueued(t)'
      BY <1>1, <2>4, RunFacts, TaskFacts DEF BuildsQueued
    <3> QED
      BY <1>1, <2>1, <2>2, <2>4, <3>1 DEF PromiseAlive
  <2> QED
    BY <2>3, <2>4
<1>8. AnswersSinceJoin'
  <2>1. pc[s] = "wait"
    <3>1. 1 \in BuildsQueued(s)
      BY <1>1, RunFacts DEF BuildsQueued
    <3> QED
      BY <3>1 DEF PromiseAlive
  <2>2. joined[s] \in 0 .. version
    BY DEF TypeOK
  <2> QED
    BY <1>1, <2>1, <2>2 DEF AnswersSinceJoin
<1> QED
  BY <1>2, <1>3, <1>4, <1>5, <1>6, <1>7, <1>8

LEMMA PostBuildStep ==
    ASSUME IInv, NEW s \in Subscribers, PostBuild(s)
    PROVE  IInv'
<1> USE DEF IInv, PostBuild, feedVars
<1> DEFINE new == Append(strand_queue, BuildTask(s))
           last == Len(strand_queue) + 1
<1>1. /\ strand_queue \in Seq(Tasks)
      /\ pc \in [Subscribers -> {"idle", "loop", "wait", "sleep"}]
      /\ DOMAIN fut = Subscribers
  BY DEF TypeOK
<1>2. /\ strand_queue' = new
      /\ new \in Seq(Tasks)
      /\ DOMAIN new = DOMAIN strand_queue \cup {last}
      /\ last \notin DOMAIN strand_queue
      /\ \A i \in DOMAIN strand_queue : new[i] = strand_queue[i]
      /\ new[last] = BuildTask(s)
  BY <1>1, TaskFacts, PostFacts
<1>3. TypeOK'
  BY <1>1, <1>2 DEF TypeOK
<1>4. (PublishedType /\ ConsolidatedIsPublished)'
  BY DEF PublishedType, ConsolidatedIsPublished
<1>5. ConsolidatedIsFresh'
  BY <1>2 DEF ConsolidatedIsFresh
<1>6. (ResultMatchesVersion /\ ViewMatchesVersion)'
  BY <1>1 DEF ResultMatchesVersion, ViewMatchesVersion
<1>7. PromiseAlive'
  <2> SUFFICES ASSUME NEW t \in Subscribers
               PROVE  /\ \A i, j \in BuildsQueued(t)' : i = j
                      /\ BuildsQueued(t)' # {} => pc'[t] = "wait" /\ fut'[t] = {}
                      /\ pc'[t] = "wait" /\ fut'[t] = {} => BuildsQueued(t)' # {}
    BY DEF PromiseAlive
  <2>1. CASE t = s
    <3>1. BuildsQueued(s) = {}
      BY <1>1 DEF PromiseAlive
    <3>2. BuildsQueued(s)' = {last}
      BY <1>2, <3>1 DEF BuildsQueued
    <3> QED
      BY <1>1, <2>1, <3>2
  <2>2. CASE t # s
    <3>1. BuildsQueued(t)' = BuildsQueued(t)
      BY <1>2, <2>2, TaskFacts DEF BuildsQueued
    <3> QED
      BY <1>1, <2>2, <3>1 DEF PromiseAlive
  <2> QED
    BY <2>1, <2>2
<1>8. AnswersSinceJoin'
  BY <1>1 DEF AnswersSinceJoin
<1> QED
  BY <1>3, <1>4, <1>5, <1>6, <1>7, <1>8

\* The value of a promise reaches the client, or is found to be old.
LEMMA TakeResultStep ==
    ASSUME IInv, NEW s \in Subscribers,
           WriteUpdate(s) \/ WriteFails(s) \/ SkipUpdate(s)
    PROVE  IInv'
<1> USE DEF IInv, feedVars
<1>1. /\ pc \in [Subscribers -> {"idle", "loop", "wait", "sleep"}]
      /\ last_seen_version \in [Subscribers -> 0 .. version]
      /\ DOMAIN fut = Subscribers /\ DOMAIN view = Subscribers
      /\ joined \in [Subscribers -> 0 .. version]
      /\ version \in Nat
      /\ \A r \in fut[s] : r.version \in 0 .. version
  BY DEF TypeOK
<1>2. /\ UNCHANGED <<local_books, consolidated, version, published>>
      /\ UNCHANGED <<strand_queue, cancelled>>
      /\ fut' = [fut EXCEPT ![s] = {}]
      /\ pc[s] = "wait" /\ fut[s] # {}
      /\ \/ pc' = [pc EXCEPT ![s] = "idle"]
         \/ pc' = [pc EXCEPT ![s] = "loop"]
         \/ pc' = [pc EXCEPT ![s] = "sleep"]
  BY DEF WriteUpdate, WriteFails, Return, SkipUpdate
<1>3. \/ UNCHANGED <<last_seen_version, view>>
      \/ /\ last_seen_version' = [last_seen_version EXCEPT ![s] = 0]
         /\ view' = [view EXCEPT ![s] = NoUpdate]
      \/ \E r \in fut[s] :
            /\ r.version > last_seen_version[s]
            /\ last_seen_version' = [last_seen_version EXCEPT ![s] = r.version]
            /\ view' = [view EXCEPT ![s] = r.update]
  BY DEF WriteUpdate, WriteFails, Return, SkipUpdate
<1>3a. joined' = joined \/ joined' = [joined EXCEPT ![s] = 0]
  BY DEF WriteUpdate, WriteFails, Return, SkipUpdate
<1>4. TypeOK'
  <2>1. last_seen_version' \in [Subscribers -> 0 .. version]
    BY <1>1, <1>3
  <2>2. pc' \in [Subscribers -> {"idle", "loop", "wait", "sleep"}]
    BY <1>1, <1>2
  <2>3. joined' \in [Subscribers -> 0 .. version]
    <3>1. 0 \in 0 .. version
      BY <1>1
    <3> QED
      BY <1>1, <1>3a, <3>1
  <2> QED
    BY <1>1, <1>2, <1>3, <2>1, <2>2, <2>3 DEF TypeOK
<1>5. (PublishedType /\ ConsolidatedIsPublished)'
  BY <1>2 DEF PublishedType, ConsolidatedIsPublished
<1>6. ConsolidatedIsFresh'
  BY <1>2 DEF ConsolidatedIsFresh
<1>7. ResultMatchesVersion'
  BY <1>1, <1>2 DEF ResultMatchesVersion
<1>8. ViewMatchesVersion'
  <2>1. CASE UNCHANGED <<last_seen_version, view>>
    BY <1>2, <2>1 DEF ViewMatchesVersion
  <2>2. CASE /\ last_seen_version' = [last_seen_version EXCEPT ![s] = 0]
             /\ view' = [view EXCEPT ![s] = NoUpdate]
    BY <1>1, <1>2, <2>2 DEF ViewMatchesVersion
  <2>3. ASSUME NEW r \in fut[s],
               r.version > last_seen_version[s],
               last_seen_version' = [last_seen_version EXCEPT ![s] = r.version],
               view' = [view EXCEPT ![s] = r.update]
        PROVE  ViewMatchesVersion'
    <3>1. r.version > 0
      BY <1>1, <2>3
    <3>2. r.update = BuildUpdate(published[r.version])
      BY <3>1 DEF ResultMatchesVersion
    <3> QED
      BY <1>1, <1>2, <2>3, <3>1, <3>2 DEF ViewMatchesVersion
  <2> QED
    BY <1>3, <2>1, <2>2, <2>3
<1>9. PromiseAlive'
  <2>1. BuildsQueued(s) = {}
    BY <1>2 DEF PromiseAlive
  <2>2. \A t \in Subscribers : BuildsQueued(t)' = BuildsQueued(t)
    BY <1>2 DEF BuildsQueued
  <2>3. pc'[s] # "wait" /\ \A t \in Subscribers \ {s} : pc'[t] = pc[t] /\ fut'[t] = fut[t]
    BY <1>1, <1>2
  <2> QED
    BY <2>1, <2>2, <2>3 DEF PromiseAlive
<1>10. AnswersSinceJoin'
  <2>1. \A t \in Subscribers \ {s} :
           pc'[t] = pc[t] /\ fut'[t] = fut[t] /\ joined'[t] = joined[t]
    BY <1>1, <1>2, <1>3a
  <2>2. fut'[s] = {}
    BY <1>1, <1>2
  <2> QED
    BY <2>1, <2>2 DEF AnswersSinceJoin
<1> QED
  BY <1>4, <1>5, <1>6, <1>7, <1>8, <1>9, <1>10

\* A call starts, wakes, is cancelled or ends, with no task and no result.
LEMMA CallFlagsStep ==
    ASSUME IInv, NEW s \in Subscribers,
           SubscribeBook(s) \/ ReturnCancelled(s) \/ Wake(s) \/ Cancel(s)
    PROVE  IInv'
<1> USE DEF IInv, feedVars
<1>1. /\ pc \in [Subscribers -> {"idle", "loop", "wait", "sleep"}]
      /\ cancelled \in [Subscribers -> BOOLEAN]
      /\ last_seen_version \in [Subscribers -> 0 .. version]
      /\ DOMAIN view = Subscribers /\ version \in Nat
  BY DEF TypeOK
<1>2. /\ UNCHANGED <<local_books, consolidated, version, published>>
      /\ UNCHANGED <<strand_queue, fut>>
      /\ \/ pc' = pc
         \/ pc[s] # "wait" /\ pc' = [pc EXCEPT ![s] = "idle"]
         \/ pc[s] # "wait" /\ pc' = [pc EXCEPT ![s] = "loop"]
      /\ \/ cancelled' = cancelled
         \/ cancelled' = [cancelled EXCEPT ![s] = TRUE]
         \/ cancelled' = [cancelled EXCEPT ![s] = FALSE]
      /\ \/ UNCHANGED <<last_seen_version, view>>
         \/ /\ last_seen_version' = [last_seen_version EXCEPT ![s] = 0]
            /\ view' = [view EXCEPT ![s] = NoUpdate]
  BY DEF SubscribeBook, ReturnCancelled, Return, Wake, Cancel
<1>2a. \/ joined' = joined
      \/ /\ pc[s] # "wait"
         /\ \/ joined' = [joined EXCEPT ![s] = version]
            \/ joined' = [joined EXCEPT ![s] = 0]
  BY DEF SubscribeBook, ReturnCancelled, Return, Wake, Cancel
<1>3. TypeOK'
  <2>1. pc' \in [Subscribers -> {"idle", "loop", "wait", "sleep"}]
    BY <1>1, <1>2
  <2>2. cancelled' \in [Subscribers -> BOOLEAN]
    BY <1>1, <1>2
  <2>3. last_seen_version' \in [Subscribers -> 0 .. version] /\ DOMAIN view' = Subscribers
    BY <1>1, <1>2
  <2>4. joined' \in [Subscribers -> 0 .. version]
    <3>1. joined \in [Subscribers -> 0 .. version]
      BY DEF TypeOK
    <3>2. 0 \in 0 .. version /\ version \in 0 .. version
      BY <1>1
    <3>3. \/ joined' = joined
          \/ joined' = [joined EXCEPT ![s] = version]
          \/ joined' = [joined EXCEPT ![s] = 0]
      BY <1>2a
    <3> HIDE DEF IInv
    <3> QED
      BY <3>1, <3>2, <3>3
  <2> QED
    BY <1>2, <2>1, <2>2, <2>3, <2>4 DEF TypeOK
<1>4. (PublishedType /\ ConsolidatedIsPublished)'
  BY <1>2 DEF PublishedType, ConsolidatedIsPublished
<1>5. (ConsolidatedIsFresh /\ ResultMatchesVersion)'
  BY <1>2 DEF ConsolidatedIsFresh, ResultMatchesVersion
<1>6. ViewMatchesVersion'
  BY <1>1, <1>2 DEF ViewMatchesVersion
<1>7. PromiseAlive'
  <2>1. \A t \in Subscribers : BuildsQueued(t)' = BuildsQueued(t)
    BY <1>2 DEF BuildsQueued
  <2>2. \A t \in Subscribers : pc'[t] = "wait" <=> pc[t] = "wait"
    BY <1>1, <1>2
  <2> QED
    BY <1>2, <2>1, <2>2 DEF PromiseAlive
<1>8. AnswersSinceJoin'
  <2>1. joined \in [Subscribers -> 0 .. version]
    BY DEF TypeOK
  <2>2. \A t \in Subscribers : pc'[t] = "wait" <=> pc[t] = "wait"
    BY <1>1, <1>2
  <2>3. \A t \in Subscribers : joined'[t] = joined[t] \/ pc[t] # "wait"
    BY <1>2a, <2>1
  <2> QED
    BY <1>2, <2>2, <2>3 DEF AnswersSinceJoin
<1> QED
  BY <1>3, <1>4, <1>5, <1>6, <1>7, <1>8

LEMMA StutterStep == IInv /\ UNCHANGED vars => IInv'
<1> SUFFICES ASSUME IInv, UNCHANGED vars PROVE IInv'
  OBVIOUS
<1> USE DEF IInv, vars
<1>1. TypeOK' /\ PublishedType' /\ ConsolidatedIsPublished'
  BY DEF TypeOK, PublishedType, ConsolidatedIsPublished
<1>2. ConsolidatedIsFresh' /\ ResultMatchesVersion' /\ ViewMatchesVersion'
  BY DEF ConsolidatedIsFresh, ResultMatchesVersion, ViewMatchesVersion
<1>3. PromiseAlive' /\ AnswersSinceJoin'
  BY DEF PromiseAlive, BuildsQueued, AnswersSinceJoin
<1> QED
  BY <1>1, <1>2, <1>3

\* No frame, task of the strand or step of a call breaks the invariant.
THEOREM NextIInv == IInv /\ [Next]_vars => IInv'
<1> SUFFICES ASSUME IInv, [Next]_vars PROVE IInv'
  OBVIOUS
<1>1. ASSUME NEW c \in Connectors, NEW msg \in FeedMessages[c], HandleMessage(c, msg)
      PROVE  IInv'
  BY <1>1, HandleMessageStep
<1>2. CASE UpdateConsolidatedBook
  BY <1>2, UpdateConsolidatedBookStep
<1>3. ASSUME NEW s \in Subscribers, BuildBookUpdate(s)
      PROVE  IInv'
  BY <1>3, BuildBookUpdateStep
<1>4. ASSUME NEW s \in Subscribers, SubscribeBook(s) \/ CallStep(s) \/ Cancel(s)
      PROVE  IInv'
  BY <1>4, PostBuildStep, TakeResultStep, CallFlagsStep DEF CallStep
<1>5. CASE UNCHANGED vars
  BY <1>5, StutterStep
<1> QED
  BY <1>1, <1>2, <1>3, <1>4, <1>5 DEF Next

\* The invariant holds of the Aggregator in every reachable state
\* (Aggregator.cpp:77-204).
THEOREM SpecIInv == Spec => []IInv
BY InitIInv, NextIInv, PTL DEF Spec

-----------------------------------------------------------------------------
(* What the invariant gives *)

\* TypeOK: the state of Aggregator.h keeps its types, and no call has seen a
\* version that was not counted yet.
THEOREM TypeCorrect == Spec => []TypeOK
BY SpecIInv, PTL DEF IInv

\* ConsolidatedIsFresh: whenever no update waits on the strand, the book that
\* builds read is the sum of the local books (Aggregator.cpp:77-103).
THEOREM NoUpdateLost == Spec => []ConsolidatedIsFresh
BY SpecIInv, PTL DEF IInv

\* ViewMatchesVersion: a client is sent the update of the version its call
\* records, for any number of calls and frames (Aggregator.cpp:180-195).
THEOREM VersionedViews == Spec => []ViewMatchesVersion
BY SpecIInv, PTL DEF IInv

\* PromiseAlive: no build task outlives the call whose promise it sets
\* (Aggregator.cpp:177-186).
THEOREM PromisesOutliveTasks == Spec => []PromiseAlive
BY SpecIInv, PTL DEF IInv

-----------------------------------------------------------------------------
(* What the sum keeps and what an update shows *)

\* Summing the sides of the venues price by price keeps their whole quantity.
LEMMA MergeSideConserves ==
    ASSUME NEW C, IsFiniteSet(C), NEW sides, DOMAIN sides = C,
           \A c \in C : sides[c] \in Side
    PROVE  SumFunction(MergeSide(sides)) = SumFunction([c \in C |-> SumFunction(sides[c])])
<1> DEFINE P == UNION {DOMAIN sides[c] : c \in C}
           quoting(p) == {c \in C : p \in DOMAIN sides[c]}
           line(c) == [p \in P |-> IF p \in DOMAIN sides[c] THEN sides[c][p] ELSE 0]
           m == [c \in C |-> line(c)]
<1>1. \A c \in C : /\ DOMAIN sides[c] \subseteq Price
                   /\ sides[c] \in [DOMAIN sides[c] -> Int]
  <2> SUFFICES ASSUME NEW c \in C
               PROVE  /\ DOMAIN sides[c] \subseteq Price
                      /\ sides[c] \in [DOMAIN sides[c] -> Int]
    OBVIOUS
  <2>1. sides[c] \in Side
    OBVIOUS
  <2>2. DOMAIN sides[c] \in SUBSET Price /\ sides[c] \in [DOMAIN sides[c] -> Quantity]
    BY <2>1, SideElim
  <2>3. Quantity \subseteq Int
    BY BookAssumption
  <2> QED
    BY <2>2, <2>3
<1>2. IsFiniteSet(P)
  <2>1. P \in SUBSET Price
    BY <1>1
  <2> HIDE DEF P
  <2> QED
    BY <2>1, BookAssumption, FS_Subset
<1>3. \A c \in C : DOMAIN sides[c] \subseteq P
  OBVIOUS
<1> HIDE DEF P
<1>4. ASSUME NEW c \in C
      PROVE  line(c) \in [P -> Int] /\ SumFunction(line(c)) = SumFunction(sides[c])
  <2>1. \A p \in P : (IF p \in DOMAIN sides[c] THEN sides[c][p] ELSE 0) \in Int
    <3>1. sides[c] \in [DOMAIN sides[c] -> Int]
      BY <1>1
    <3> QED
      BY <3>1
  <2>2. line(c) \in [P -> Int]
    BY <2>1
  <2>3. Extends(P, line(c), DOMAIN sides[c], sides[c])
    BY <1>1, <1>3, <2>2 DEF Extends
  <2> HIDE DEF line
  <2> QED
    BY <1>2, <2>2, <2>3, SumOfSupport
<1>5. m \in [C -> [P -> Int]]
  <2> HIDE DEF line
  <2> QED
    BY <1>4
<1>6. ASSUME NEW p \in P
      PROVE  Total(sides, p) = SumFunction([c \in C |-> m[c][p]])
  <2> DEFINE column == [c \in C |-> m[c][p]]
             own    == [c \in quoting(p) |-> sides[c][p]]
  <2>1. Total(sides, p) = SumFunction(own)
    BY DEF Total
  <2>2. column \in [C -> Int]
    <3> HIDE DEF m
    <3> QED
      BY <1>5
  <2>3. own \in [quoting(p) -> Int]
    BY <1>1
  <2>4. \A c \in C : column[c] = IF c \in quoting(p) THEN own[c] ELSE 0
    OBVIOUS
  <2>5. Extends(C, column, quoting(p), own)
    <3>1. quoting(p) \subseteq C
      OBVIOUS
    <3> HIDE DEF column, own, quoting
    <3> QED
      BY <2>2, <2>3, <2>4, <3>1 DEF Extends
  <2>6. SumFunction(column) = SumFunction(own)
    <3> HIDE DEF column, own, quoting
    <3> QED
      BY <2>5, SumOfSupport
  <2> QED
    BY <2>1, <2>6
<1>7. MergeSide(sides) = [p \in P |-> SumFunction([c \in C |-> m[c][p]])]
  <2>1. MergeSide(sides) = [p \in P |-> Total(sides, p)]
    BY DEF MergeSide, P
  <2> HIDE DEF m
  <2> QED
    BY <1>6, <2>1
<1>8. SumFunction([p \in P |-> SumFunction([c \in C |-> m[c][p]])]) =
        SumFunction([c \in C |-> SumFunction(m[c])])
  <2> HIDE DEF m
  <2> QED
    BY <1>2, <1>5, SumOfTable
<1>9. [c \in C |-> SumFunction(m[c])] = [c \in C |-> SumFunction(sides[c])]
  <2>1. \A c \in C : SumFunction(m[c]) = SumFunction(sides[c])
    BY <1>4
  <2> HIDE DEF m
  <2> QED
    BY <2>1
<1> HIDE DEF m
<1> QED
  BY <1>7, <1>8, <1>9

LEMMA ConservedByFresh ==
    ASSUME TypeOK, ConsolidatedIsFresh
    PROVE  QuantityConserved
<1> SUFFICES ASSUME consolidated = Merge(local_books)
             PROVE  /\ SideTotal(consolidated.bids) =
                         SumFunction([c \in Connectors |-> SideTotal(local_books[c].bids)])
                    /\ SideTotal(consolidated.asks) =
                         SumFunction([c \in Connectors |-> SideTotal(local_books[c].asks)])
  BY DEF QuantityConserved, ConsolidatedIsFresh
<1> DEFINE bids == [c \in Connectors |-> local_books[c].bids]
           asks == [c \in Connectors |-> local_books[c].asks]
<1>1. local_books \in [Connectors -> Book] /\ IsFiniteSet(Connectors)
  BY AggregatorAssumption DEF TypeOK
<1>2. /\ DOMAIN bids = Connectors /\ \A c \in Connectors : bids[c] \in Side
      /\ DOMAIN asks = Connectors /\ \A c \in Connectors : asks[c] \in Side
  BY <1>1 DEF Book
<1>3. /\ consolidated.bids = MergeSide(bids)
      /\ consolidated.asks = MergeSide(asks)
  BY <1>1 DEF Merge
<1>4. /\ [c \in Connectors |-> SumFunction(bids[c])] =
           [c \in Connectors |-> SumFunction(local_books[c].bids)]
      /\ [c \in Connectors |-> SumFunction(asks[c])] =
           [c \in Connectors |-> SumFunction(local_books[c].asks)]
  OBVIOUS
<1> HIDE DEF bids, asks
<1>5. SumFunction(MergeSide(bids)) = SumFunction([c \in Connectors |-> SumFunction(bids[c])])
  BY <1>1, <1>2, MergeSideConserves
<1>6. SumFunction(MergeSide(asks)) = SumFunction([c \in Connectors |-> SumFunction(asks[c])])
  BY <1>1, <1>2, MergeSideConserves
<1> QED
  BY <1>3, <1>4, <1>5, <1>6 DEF SideTotal

\* QuantityConserved: whatever the venues sent, and however many of them quote
\* one price, the consolidated book holds their whole quantity
\* (Aggregator.cpp:89-96).
THEOREM NothingLostInSum == Spec => []QuantityConserved
<1>1. IInv => QuantityConserved
  BY ConservedByFresh DEF IInv
<1> QED
  BY <1>1, SpecIInv, PTL

\* Both sides of an update are cut from the front of the order of their map.
LEMMA SidesShown ==
    ASSUME NEW side, DOMAIN side \subseteq Price
    PROVE  /\ ShowsBest(BestLevels(side, Descending(DOMAIN side)), side, LAMBDA p, q : p > q)
           /\ ShowsBest(BestLevels(side, Ascending(DOMAIN side)), side, LAMBDA p, q : p < q)
<1> DEFINE S == DOMAIN side
<1>1. S \in SUBSET Int /\ IsFiniteSet(S)
  <2>1. S \in SUBSET Price /\ Price \subseteq Int /\ IsFiniteSet(Price)
    BY BookAssumption
  <2> HIDE DEF S
  <2> QED
    BY <2>1, FS_Subset
<1>2. Orders(Higher(S), S) /\ Orders(Lower(S), S)
  BY <1>1 DEF Orders, Higher, Lower
<1>3. Lists(Descending(S), Higher(S), S) /\ Lists(Ascending(S), Lower(S), S)
  BY <1>1, DescendingLists, AscendingLists
<1>4. Shows(BestLevels(side, Descending(S)), side, Higher(S))
  BY <1>1, <1>2, <1>3, BestLevelsShow
<1>5. Shows(BestLevels(side, Ascending(S)), side, Lower(S))
  BY <1>1, <1>2, <1>3, BestLevelsShow
<1>6. /\ \A p, q : <<p, q>> \in Higher(S) => p > q
      /\ \A p, q : <<p, q>> \in Lower(S) => p < q
  BY DEF Higher, Lower
<1> HIDE DEF S
<1>7. ShowsBest(BestLevels(side, Descending(S)), side, LAMBDA p, q : p > q)
  BY <1>4, <1>6 DEF Shows, ShowsBest
<1>8. ShowsBest(BestLevels(side, Ascending(S)), side, LAMBDA p, q : p < q)
  BY <1>5, <1>6 DEF Shows, ShowsBest
<1> QED
  BY <1>7, <1>8 DEF S

LEMMA ShownByVersion ==
    ASSUME TypeOK, PublishedType, ViewMatchesVersion
    PROVE  ViewShowsBestLevels
<1> SUFFICES ASSUME NEW s \in Subscribers, view[s] # NoUpdate
             PROVE  LET book == published[last_seen_version[s]]
                    IN  /\ ShowsBest(view[s].bids, book.bids, LAMBDA p, q : p > q)
                        /\ ShowsBest(view[s].asks, book.asks, LAMBDA p, q : p < q)
  BY DEF ViewShowsBestLevels
<1> DEFINE book == published[last_seen_version[s]]
<1>1. last_seen_version[s] # 0 /\ view[s] = BuildUpdate(book)
  BY DEF ViewMatchesVersion
<1>2. last_seen_version[s] \in 1 .. Len(published)
  BY <1>1 DEF TypeOK
<1>3. book \in MergedBooks
  BY <1>2 DEF PublishedType
<1>4. DOMAIN book.bids \subseteq Price /\ DOMAIN book.asks \subseteq Price
  BY <1>3, MergeDomain DEF MergedBooks
<1> HIDE DEF book
<1>5. /\ view[s].bids = BestLevels(book.bids, Descending(DOMAIN book.bids))
      /\ view[s].asks = BestLevels(book.asks, Ascending(DOMAIN book.asks))
  BY <1>1 DEF BuildUpdate
<1>6. /\ ShowsBest(view[s].bids, book.bids, LAMBDA p, q : p > q)
      /\ ShowsBest(view[s].asks, book.asks, LAMBDA p, q : p < q)
  BY <1>4, <1>5, SidesShown
<1> QED
  BY <1>6 DEF book

\* ViewShowsBestLevels: what a client was sent starts at the best price, skips
\* none and is cut only at the depth, for any book the venues make
\* (Aggregator.cpp:113-129).
THEOREM BestLevelsSent == Spec => []ViewShowsBestLevels
<1>1. IInv => ViewShowsBestLevels
  BY ShownByVersion DEF IInv
<1> QED
  BY <1>1, SpecIInv, PTL

-----------------------------------------------------------------------------
(* The Aggregator implements BookFeed *)

LEMMA FeedInit == Init => Feed!Init
BY DEF Init, Feed!Init

LEMMA PublishImplemented ==
    ASSUME IInv, UpdateConsolidatedBook
    PROVE  Feed!Publish
<1> USE DEF IInv, UpdateConsolidatedBook, callVars
<1>1. published \in Seq(MergedBooks) /\ Merge(local_books) \in MergedBooks
  BY DEF TypeOK, PublishedType, MergedBooks
<1>2. /\ Len(published') = Len(published) + 1
      /\ \A v \in 1 .. Len(published) : published'[v] = published[v]
  BY <1>1
<1> QED
  BY <1>2 DEF Feed!Publish

LEMMA DeliverImplemented ==
    ASSUME IInv, NEW s \in Subscribers, WriteUpdate(s)
    PROVE  Feed!Deliver(s)
<1>1. PICK r \in fut[s] :
        /\ r.version > last_seen_version[s]
        /\ last_seen_version' = [last_seen_version EXCEPT ![s] = r.version]
        /\ view' = [view EXCEPT ![s] = r.update]
        /\ joined' = [joined EXCEPT ![s] = 0]
        /\ UNCHANGED published
  BY DEF WriteUpdate, feedVars
<1>2. /\ r.version \in 0 .. version /\ Len(published) = version
      /\ last_seen_version[s] \in 0 .. version /\ version \in Nat
  BY DEF IInv, TypeOK
<1>3. r.version \in last_seen_version[s] + 1 .. Len(published)
  BY <1>1, <1>2
<1>4. r.update = BuildUpdate(published[r.version])
  BY <1>1, <1>2 DEF IInv, ResultMatchesVersion
<1>5. r.version >= joined[s]
  BY DEF IInv, AnswersSinceJoin
<1> QED
  BY <1>1, <1>3, <1>4, <1>5 DEF Feed!Deliver

LEMMA JoinImplemented ==
    ASSUME IInv, NEW s \in Subscribers, SubscribeBook(s)
    PROVE  Feed!Join(s)
BY DEF IInv, TypeOK, SubscribeBook, feedVars, Feed!Join

LEMMA LeaveImplemented ==
    ASSUME NEW s \in Subscribers, Return(s)
    PROVE  Feed!Leave(s)
BY DEF Return, feedVars, Feed!Leave

\* Every step is one of the abstract feed, or none of its steps: the books that
\* are published are its publications, the writes its deliveries.
THEOREM StepImplemented == IInv /\ [Next]_vars => [Feed!Next]_Feed!vars
<1> SUFFICES ASSUME IInv, [Next]_vars PROVE [Feed!Next]_Feed!vars
  OBVIOUS
<1> USE DEF Feed!vars
<1>1. ASSUME NEW c \in Connectors, NEW msg \in FeedMessages[c], HandleMessage(c, msg)
      PROVE  UNCHANGED Feed!vars
  BY <1>1 DEF HandleMessage, callVars
<1>2. CASE UpdateConsolidatedBook
  BY <1>2, PublishImplemented DEF Feed!Next
<1>3. ASSUME NEW s \in Subscribers,
             \/ BuildBookUpdate(s) \/ PostBuild(s)
             \/ SkipUpdate(s) \/ Wake(s) \/ Cancel(s)
      PROVE  UNCHANGED Feed!vars
  BY <1>3 DEF BuildBookUpdate, PostBuild, SkipUpdate, Wake,
              Cancel, feedVars
<1>4. ASSUME NEW s \in Subscribers, WriteUpdate(s)
      PROVE  Feed!Next
  BY <1>4, DeliverImplemented DEF Feed!Next
<1>5. ASSUME NEW s \in Subscribers, ReturnCancelled(s) \/ WriteFails(s)
      PROVE  Feed!Next
  BY <1>5, LeaveImplemented DEF ReturnCancelled, WriteFails, Feed!Next
<1>6. CASE UNCHANGED vars
  BY <1>6 DEF vars
<1>7. ASSUME NEW s \in Subscribers, SubscribeBook(s)
      PROVE  Feed!Next
  BY <1>7, JoinImplemented DEF Feed!Next
<1> QED
  BY <1>1, <1>2, <1>3, <1>4, <1>5, <1>6, <1>7 DEF Next, CallStep

\* FeedSpec: the detailed Aggregator implements the abstract feed, so that a
\* client sees published books in order and none twice.
THEOREM ImplementsFeed == Spec => FeedSpec
BY FeedInit, StepImplemented, SpecIInv, PTL DEF Spec, FeedSpec, Feed!Spec

=============================================================================
