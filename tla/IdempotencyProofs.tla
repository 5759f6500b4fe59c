------------------------- MODULE IdempotencyProofs --------------------------
(***************************************************************************)
(* What an idempotency key guarantees, for every number of requests, every *)
(* TTL and every interleaving of them with clean-up and Delete.            *)
(***************************************************************************)
EXTENDS Idempotency, TLAPS

LEMMA OutcomesAreResults ==
    /\ Outcomes \subseteq Results
    /\ \A r \in Outcomes : StatusOf(r) \in Statuses
    /\ NoResult \in Results
    /\ Empty \in [status : Statuses, result : Results]
  BY DEF Outcomes, Results, StatusOf, Statuses, NoResult, Empty

\* Whatever a racing reader sees of a record, it answers with a result.
LEMMA ViewsAreRecords ==
    ASSUME TypeOK, NEW q \in Requests, request[q].found \in Requests,
           NEW view \in Views(q)
    PROVE  /\ view.status \in Statuses /\ view.result \in Results
           /\ Reply(view) \in Results
           /\ [view.result EXCEPT !.err = "duplicate"] \in Results
  <1>1. record[request[q].found] \in [status : Statuses, result : Results]
    BY DEF TypeOK
  <1>2. view.status \in Statuses /\ view.result \in Results
    BY <1>1 DEF Views, Results, Statuses
  <1> QED BY <1>2 DEF Reply, Results

Requesting == [at : {"start", "found", "missing", "duplicate", "answered",
                     "execute", "update", "executed"},
               found : Requests \union {Nothing},
               raced : BOOLEAN,
               reply : Results]

LEMMA AnsweredRequest ==
    ASSUME NEW c \in Requesting, NEW a \in Results
    PROVE  /\ [c EXCEPT !.at = "answered", !.reply = a] \in Requesting
           /\ [c EXCEPT !.at = "answered", !.reply = a].at = "answered"
           /\ [c EXCEPT !.at = "answered", !.reply = a].found = c.found
           /\ [c EXCEPT !.at = "answered", !.reply = a].raced = c.raced
           /\ [c EXCEPT !.at = "answered", !.reply = a].reply = a
  BY DEF Requesting

\* A request that found a record has one to read.
FoundOne ==
    \A q \in Requests : request[q].at \in {"found", "duplicate", "answered"} =>
        request[q].found \in Requests

\* A step of one request that creates nothing keeps the types.
LEMMA RequestMoves ==
    ASSUME TypeOK, FoundOne, NEW q \in Requests, NEW new \in Requesting,
           request' = [request EXCEPT ![q] = new],
           UNCHANGED <<now, created, stopped, deleted>>,
           stored' \in Requests \union {Nothing},
           record' \in [Requests -> [status : Statuses, result : Results]],
           finished' \in [Requests -> {Never} \union 0 .. MaxTime],
           new.at \in {"execute", "update", "executed"} <=> created[q] # Never,
           new.at \in {"found", "duplicate", "answered"} => new.found \in Requests
    PROVE  TypeOK' /\ FoundOne'
  <1>1. /\ request \in [Requests -> Requesting]
        /\ request' \in [Requests -> Requesting]
    BY DEF TypeOK, Requesting
  <1>2. \A p \in Requests : request'[p] = IF p = q THEN new ELSE request[p]
    BY <1>1
  <1>3. \A p \in Requests :
            created'[p] # Never <=> request'[p].at \in {"execute", "update", "executed"}
    BY <1>2 DEF TypeOK
  <1>4. FoundOne'
    BY <1>2 DEF FoundOne
  <1> QED BY <1>1, <1>3, <1>4 DEF TypeOK, Requesting

LEMMA TypeInit == Init => TypeOK /\ FoundOne
  <1> SUFFICES ASSUME Init PROVE TypeOK /\ FoundOne
    OBVIOUS
  <1> USE OutcomesAreResults, IdempotencyAssumption DEF Init
  <1>1. /\ now \in 0 .. MaxTime
        /\ stored \in Requests \union {Nothing}
        /\ stopped \in BOOLEAN
        /\ deleted \in BOOLEAN
    <2>1. now \in 0 .. MaxTime
      OBVIOUS
    <2> QED BY <2>1, Zenon
  <1>2. /\ created \in [Requests -> {Never} \union 0 .. MaxTime]
        /\ finished \in [Requests -> {Never} \union 0 .. MaxTime]
        /\ record \in [Requests -> [status : Statuses, result : Results]]
    OBVIOUS
  <1>3. request \in [Requests -> Requesting]
    BY DEF Requesting
  <1>4. \A q \in Requests : created[q] = Never /\ request[q].at = "start"
    OBVIOUS
  <1> QED BY <1>1, <1>2, <1>3, <1>4 DEF TypeOK, FoundOne, Requesting

LEMMA TypeStep == TypeOK /\ FoundOne /\ [Next]_vars => TypeOK' /\ FoundOne'
  <1> SUFFICES ASSUME TypeOK, FoundOne, [Next]_vars PROVE TypeOK' /\ FoundOne'
    OBVIOUS
  <1> USE IdempotencyAssumption, OutcomesAreResults
  <1>1. ASSUME NEW q \in Requests, Get(q) PROVE TypeOK' /\ FoundOne'
    <2>1. CASE Present
      <3> DEFINE new == [request[q] EXCEPT !.at = "found", !.found = stored,
                                           !.raced = finished[stored] = Never]
      <3>1. new \in Requesting /\ new.at = "found" /\ new.found \in Requests
        BY <2>1 DEF TypeOK, Present, Requesting
      <3>2. request' = [request EXCEPT ![q] = new]
        BY <1>1, <2>1 DEF Get, Found
      <3> QED BY <1>1, <3>1, <3>2, RequestMoves DEF Get, TypeOK
    <2>2. CASE ~Present
      <3> DEFINE new == [request[q] EXCEPT !.at = "missing"]
      <3>1. new \in Requesting /\ new.at = "missing"
        BY DEF TypeOK, Requesting
      <3>2. request' = [request EXCEPT ![q] = new]
        BY <1>1, <2>2 DEF Get, Goes
      <3> QED BY <1>1, <3>1, <3>2, RequestMoves DEF Get, TypeOK
    <2> QED BY <2>1, <2>2
  <1>2. ASSUME NEW q \in Requests, AnswerFound(q) PROVE TypeOK' /\ FoundOne'
    <2>1. PICK view \in Views(q) :
              request' = [request EXCEPT ![q].at = "answered", ![q].reply = Reply(view)]
      BY <1>2 DEF AnswerFound
    <2>2. request[q].found \in Requests
      BY <1>2 DEF AnswerFound, FoundOne
    <2>3. Reply(view) \in Results
      BY <2>2, ViewsAreRecords
    <2> DEFINE new == [request[q] EXCEPT !.at = "answered", !.reply = Reply(view)]
    <2>4. new \in Requesting /\ new.at = "answered" /\ new.found \in Requests
      <3>1. request[q] \in Requesting
        BY DEF TypeOK, Requesting
      <3> QED BY <2>2, <2>3, <3>1, AnsweredRequest
    <2>5. request' = [request EXCEPT ![q] = new]
      BY <2>1 DEF TypeOK
    <2> QED BY <1>2, <2>4, <2>5, RequestMoves DEF AnswerFound, TypeOK
  <1>3. ASSUME NEW q \in Requests, Create(q) PROVE TypeOK' /\ FoundOne'
    BY <1>3 DEF Create, Goes, TypeOK, FoundOne, Never
  <1>4. ASSUME NEW q \in Requests, CreateFindsDuplicate(q) PROVE TypeOK' /\ FoundOne'
    <2> DEFINE new == [request[q] EXCEPT !.at = "duplicate", !.found = stored,
                                         !.raced = finished[stored] = Never]
    <2>1. new \in Requesting /\ new.at = "duplicate" /\ new.found \in Requests
      BY <1>4 DEF CreateFindsDuplicate, TypeOK, Present, Requesting
    <2>2. request' = [request EXCEPT ![q] = new]
      BY <1>4 DEF CreateFindsDuplicate, Found
    <2> QED BY <1>4, <2>1, <2>2, RequestMoves DEF CreateFindsDuplicate, TypeOK
  <1>5. ASSUME NEW q \in Requests, AnswerDuplicate(q) PROVE TypeOK' /\ FoundOne'
    <2>1. PICK view \in Views(q) :
              request' = [request EXCEPT ![q].at = "answered",
                              ![q].reply = [view.result EXCEPT !.err = "duplicate"]]
      BY <1>5 DEF AnswerDuplicate
    <2> DEFINE reply == [view.result EXCEPT !.err = "duplicate"]
               new == [request[q] EXCEPT !.at = "answered", !.reply = reply]
    <2>2. request[q].found \in Requests
      BY <1>5 DEF AnswerDuplicate, FoundOne
    <2>3. reply \in Results
      BY <2>2, ViewsAreRecords
    <2>5. request' = [request EXCEPT ![q] = new]
      BY <2>1 DEF TypeOK
    <2> HIDE DEF reply
    <2>4. new \in Requesting /\ new.at = "answered" /\ new.found \in Requests
      <3>1. request[q] \in Requesting
        BY DEF TypeOK, Requesting
      <3> QED BY <2>2, <2>3, <3>1, AnsweredRequest
    <2> QED BY <1>5, <2>4, <2>5, RequestMoves DEF AnswerDuplicate, TypeOK
  <1>6. ASSUME NEW q \in Requests, Execute(q) PROVE TypeOK' /\ FoundOne'
    <2>1. PICK r \in Outcomes :
              /\ record' = [record EXCEPT ![q] = [status |-> StatusOf(r), result |-> r]]
              /\ request' = [request EXCEPT ![q].at = "update", ![q].reply = r]
      BY <1>6 DEF Execute
    <2> DEFINE new == [request[q] EXCEPT !.at = "update", !.reply = r]
    <2>2. new \in Requesting /\ new.at = "update"
      BY <2>1 DEF TypeOK, Requesting
    <2>3. request' = [request EXCEPT ![q] = new]
      BY <2>1 DEF TypeOK
    <2>4. [status |-> StatusOf(r), result |-> r] \in [status : Statuses, result : Results]
      OBVIOUS
    <2>5. record' \in [Requests -> [status : Statuses, result : Results]]
      BY <2>1, <2>4 DEF TypeOK
    <2> QED BY <1>6, <2>2, <2>3, <2>5, RequestMoves DEF Execute, TypeOK
  <1>7. ASSUME NEW q \in Requests, Update(q) PROVE TypeOK' /\ FoundOne'
    <2> DEFINE new == [request[q] EXCEPT !.at = "executed"]
    <2>1. new \in Requesting /\ new.at = "executed"
      BY DEF TypeOK, Requesting
    <2>2. request' = [request EXCEPT ![q] = new]
      BY <1>7 DEF Update, Goes
    <2>3. finished' \in [Requests -> {Never} \union 0 .. MaxTime]
      BY <1>7 DEF Update, TypeOK
    <2> QED BY <1>7, <2>1, <2>2, <2>3, RequestMoves DEF Update, TypeOK
  <1>8. CASE Cleanup
    BY <1>8 DEF Cleanup, TypeOK, FoundOne
  <1>9. CASE Stop
    BY <1>9 DEF Stop, TypeOK, FoundOne
  <1>10. CASE Delete
    BY <1>10 DEF Delete, TypeOK, FoundOne
  <1>11. CASE Tick
    BY <1>11 DEF Tick, TypeOK, FoundOne
  <1>12. CASE UNCHANGED vars
    BY <1>12 DEF vars, TypeOK, FoundOne
  <1> QED BY <1>1, <1>2, <1>3, <1>4, <1>5, <1>6, <1>7, <1>8, <1>9, <1>10, <1>11, <1>12
          DEF Next, RequestStep

\* The store and the requests keep their types, and exactly the requests that
\* created a record execute.
THEOREM TypeCorrect == Spec => []TypeOK
  BY TypeInit, TypeStep, PTL DEF Spec
-----------------------------------------------------------------------------
(***************************************************************************)
(* One execution per TTL.  ExecutedOncePerTTL is not inductive: Create     *)
(* looks only at the record that is stored.  As long as nothing displaced  *)
(* a record, a record that has not expired is the stored one, and a        *)
(* request that has not finished has no Update behind it.                  *)
(***************************************************************************)
Undisturbed == ~deleted /\ \A u \in Requests : ~Outlived(u)

LiveIsStored ==
    Undisturbed =>
        \A q \in Requests : created[q] # Never /\ ~Expired(q) => stored = q

UpdatedIsDone ==
    /\ \A q \in Requests : created[q] <= now
    /\ \A q \in Requests : finished[q] # Never => request[q].at = "executed"

Once == ExecutedOncePerTTL /\ LiveIsStored /\ UpdatedIsDone

LEMMA OnceInit == Init => Once
  BY IdempotencyAssumption
  DEF Init, Once, ExecutedOncePerTTL, LiveIsStored, UpdatedIsDone, Never

\* A step that neither creates nor finishes nor moves what is stored.
LEMMA OnceKept ==
    ASSUME TypeOK, Once, UNCHANGED <<now, stored, created, finished, deleted>>,
           \A q \in Requests : request[q].at = "executed" => request'[q].at = "executed"
    PROVE  Once'
  BY DEF Once, ExecutedOncePerTTL, LiveIsStored, UpdatedIsDone, Undisturbed, Outlived,
         Apart, Expired

LEMMA OnceStep == TypeOK /\ Once /\ [Next]_vars => Once'
  <1> SUFFICES ASSUME TypeOK, Once, [Next]_vars PROVE Once'
    OBVIOUS
  <1> USE IdempotencyAssumption
  <1>1. ASSUME NEW q \in Requests, Get(q) PROVE Once'
    BY <1>1, OnceKept DEF Get, Found, Goes, TypeOK
  <1>2. ASSUME NEW q \in Requests, AnswerFound(q) PROVE Once'
    BY <1>2, OnceKept DEF AnswerFound, TypeOK
  <1>3. ASSUME NEW q \in Requests, Create(q) PROVE Once'
    <2>1. /\ created[q] = Never /\ created' = [created EXCEPT ![q] = now]
          /\ stored' = q /\ now' = now /\ finished' = finished /\ deleted' = deleted
          /\ \A p \in Requests : p # q => created'[p] = created[p]
          /\ created'[q] = now
      BY <1>3 DEF Create, TypeOK
    <2>2. finished[q] = Never
      BY <1>3 DEF Create, Once, UpdatedIsDone
    <2>3. Undisturbed' => Undisturbed
      BY <2>1, <2>2 DEF Undisturbed, Outlived
    <2>4. Undisturbed => \A p \in Requests : created[p] # Never => Expired(p)
      BY <1>3 DEF Create, Present, Once, LiveIsStored
    <2>5. LiveIsStored'
      BY <2>1, <2>3, <2>4 DEF LiveIsStored, Expired
    <2>6. UpdatedIsDone'
      BY <1>3, <2>1, <2>2 DEF Create, Goes, Once, UpdatedIsDone, TypeOK
    <2>7. ASSUME Undisturbed', NEW p \in Requests, created[p] # Never, p # q
          PROVE  TTL > 0 /\ now - created[p] > TTL
      BY <2>3, <2>4, <2>7 DEF Expired
    <2>8. ExecutedOncePerTTL'
      <3>1. CASE ~Undisturbed'
        BY <3>1 DEF ExecutedOncePerTTL, Undisturbed
      <3>2. CASE Undisturbed'
        <4> SUFFICES ASSUME NEW p \in Requests, NEW r \in Requests, p # r,
                            created'[p] # Never, created'[r] # Never
                     PROVE  Apart(p, r)'
          BY DEF ExecutedOncePerTTL
        <4>1. CASE p = q
          BY <2>1, <2>7, <3>2, <4>1 DEF Apart
        <4>2. CASE r = q
          BY <2>1, <2>7, <3>2, <4>2 DEF Apart
        <4>3. CASE p # q /\ r # q
          BY <2>1, <2>3, <3>2, <4>3 DEF Apart, Once, ExecutedOncePerTTL, Undisturbed
        <4> QED BY <4>1, <4>2, <4>3
      <3> QED BY <3>1, <3>2
    <2> QED BY <2>5, <2>6, <2>8 DEF Once
  <1>4. ASSUME NEW q \in Requests, CreateFindsDuplicate(q) PROVE Once'
    BY <1>4, OnceKept DEF CreateFindsDuplicate, Found, TypeOK
  <1>5. ASSUME NEW q \in Requests, AnswerDuplicate(q) PROVE Once'
    BY <1>5, OnceKept DEF AnswerDuplicate, TypeOK
  <1>6. ASSUME NEW q \in Requests, Execute(q) PROVE Once'
    BY <1>6, OnceKept DEF Execute, TypeOK
  <1>7. ASSUME NEW q \in Requests, Update(q) PROVE Once'
    <2>1. /\ created[q] # Never /\ finished' = [finished EXCEPT ![q] = now]
          /\ now' = now /\ created' = created /\ deleted' = deleted
          /\ \A p \in Requests : p # q => finished'[p] = finished[p]
          /\ finished'[q] = now /\ now # Never
      BY <1>7 DEF Update, TypeOK, Never
    <2>2. finished[q] = Never
      BY <1>7 DEF Update, Once, UpdatedIsDone
    <2>3. \A u \in Requests : Outlived(u) => Outlived(u)'
      BY <2>1, <2>2 DEF Outlived
    <2>4. Undisturbed' => Undisturbed /\ ~Expired(q)
      BY <2>1, <2>3 DEF Undisturbed, Outlived, Expired
    <2>5. Undisturbed' => stored' = stored
      BY <1>7, <2>1, <2>4 DEF Update, Once, LiveIsStored
    <2>6. LiveIsStored'
      BY <2>1, <2>4, <2>5 DEF Once, LiveIsStored, Expired
    <2>7. UpdatedIsDone'
      BY <1>7, <2>1 DEF Update, Goes, Once, UpdatedIsDone, TypeOK
    <2>8. ExecutedOncePerTTL'
      BY <2>1, <2>3 DEF Once, ExecutedOncePerTTL, Apart
    <2> QED BY <2>6, <2>7, <2>8 DEF Once
  <1>8. CASE Cleanup
    BY <1>8 DEF Cleanup, Once, ExecutedOncePerTTL, LiveIsStored, UpdatedIsDone,
                Undisturbed, Outlived, Apart, Expired
  <1>9. CASE Stop
    BY <1>9, OnceKept DEF Stop
  <1>10. CASE Delete
    BY <1>10 DEF Delete, Once, ExecutedOncePerTTL, LiveIsStored, UpdatedIsDone,
                 Undisturbed
  <1>11. CASE Tick
    <2>1. /\ now' = now + 1 /\ now \in Nat
          /\ UNCHANGED <<stored, created, finished, request, deleted>>
      BY <1>11 DEF Tick, TypeOK
    <2>2. \A q \in Requests : created[q] \in Int
      BY DEF TypeOK, Never
    <2>3. LiveIsStored'
      BY <2>1, <2>2 DEF Once, LiveIsStored, Undisturbed, Outlived, Expired
    <2>4. UpdatedIsDone'
      BY <2>1, <2>2 DEF Once, UpdatedIsDone
    <2>5. ExecutedOncePerTTL'
      BY <2>1 DEF Once, ExecutedOncePerTTL, Apart, Outlived
    <2> QED BY <2>3, <2>4, <2>5 DEF Once
  <1>12. CASE UNCHANGED vars
    BY <1>12, OnceKept DEF vars
  <1> QED BY <1>1, <1>2, <1>3, <1>4, <1>5, <1>6, <1>7, <1>8, <1>9, <1>10, <1>11, <1>12
          DEF Next, RequestStep

\* request.go:229-231: two requests with one key execute only more than TTL
\* apart, unless Delete was called or an execution outlived its record; with TTL
\* 0 and no Delete, never.
THEOREM OneExecutionPerTTL == Spec => []ExecutedOncePerTTL
  <1>1. TypeOK /\ FoundOne /\ Once /\ [Next]_vars => (TypeOK /\ FoundOne /\ Once)'
    BY TypeStep, OnceStep
  <1>2. Once => ExecutedOncePerTTL
    BY DEF Once
  <1> QED BY TypeInit, OnceInit, <1>1, <1>2, PTL DEF Spec

-----------------------------------------------------------------------------
(***************************************************************************)
(* Honest answers.  SuccessWasExecuted speaks of answers given; before     *)
(* that, a request that saw a finished record keeps seeing it, and a       *)
(* finished record holds what its request returns, with a status that is   *)
(* "confirmed" only without an error.                                      *)
(***************************************************************************)
RecordsResults ==
    \A q \in Requests :
        request[q].at \in {"update", "executed"} =>
            /\ request[q].reply \in Outcomes
            /\ record[q] = [status |-> StatusOf(request[q].reply),
                            result |-> request[q].reply]

SawFinished ==
    \A q \in Requests :
        request[q].at \in {"found", "duplicate", "answered"} /\ ~request[q].raced =>
            request[request[q].found].at = "executed"

FinishedIsExecuted ==
    \A q \in Requests : finished[q] # Never => request[q].at = "executed"

Honest == RecordsResults /\ SawFinished /\ FinishedIsExecuted /\ SuccessWasExecuted

LEMMA HonestInit == Init => Honest
  BY DEF Init, Honest, RecordsResults, SawFinished, FinishedIsExecuted,
         SuccessWasExecuted, Never

\* A step of one request that has not executed, and does not end its execution.
LEMMA HonestMove ==
    ASSUME TypeOK, FoundOne, Honest, NEW q \in Requests, NEW new \in Requesting,
           request[q].at \notin {"update", "executed"},
           request' = [request EXCEPT ![q] = new],
           UNCHANGED <<record, finished>>,
           new.at \notin {"update", "executed"},
           new.at \in {"found", "duplicate", "answered"} /\ ~new.raced =>
               /\ new.found \in Requests
               /\ request[new.found].at = "executed",
           new.at = "answered" /\ ~new.raced /\ new.reply.err = "none" =>
               new.reply = request[new.found].reply
    PROVE  Honest'
  <1>1. \A p \in Requests : request'[p] = IF p = q THEN new ELSE request[p]
    BY DEF TypeOK
  <1>2. \A p \in Requests : request[p].at = "executed" => request'[p] = request[p]
    BY <1>1
  <1>3. RecordsResults' /\ FinishedIsExecuted'
    BY <1>1 DEF Honest, RecordsResults, FinishedIsExecuted
  <1>4. SawFinished'
    BY <1>1, <1>2 DEF Honest, SawFinished, FoundOne
  <1>5. SuccessWasExecuted'
    BY <1>1, <1>2 DEF Honest, SuccessWasExecuted, FoundOne
  <1> QED BY <1>3, <1>4, <1>5 DEF Honest

LEMMA HonestKept ==
    ASSUME Honest, UNCHANGED <<record, finished, request>>
    PROVE  Honest'
  BY DEF Honest, RecordsResults, SawFinished, FinishedIsExecuted, SuccessWasExecuted

\* What is answered from a finished record without an error is its outcome.
LEMMA FinishedReply ==
    ASSUME NEW r \in Outcomes, NEW v, v = [status |-> StatusOf(r), result |-> r],
           Reply(v).err = "none"
    PROVE  Reply(v) = r
  <1>1. r \in Results /\ r.err # "duplicate"
    BY DEF Outcomes
  <1>2. CASE StatusOf(r) = "failed"
    BY <1>1, <1>2 DEF Reply, Results, StatusOf
  <1>3. CASE StatusOf(r) = "confirmed"
    BY <1>1, <1>3 DEF Reply, Results, StatusOf
  <1>4. CASE StatusOf(r) = "submitted"
    BY <1>1, <1>4 DEF Reply, Results, StatusOf
  <1> QED BY <1>2, <1>3, <1>4 DEF StatusOf

LEMMA HonestStep == TypeOK /\ FoundOne /\ Honest /\ [Next]_vars => Honest'
  <1> SUFFICES ASSUME TypeOK, FoundOne, Honest, [Next]_vars PROVE Honest'
    OBVIOUS
  <1> USE IdempotencyAssumption
  <1>0. request \in [Requests -> Requesting]
    BY DEF TypeOK, Requesting
  <1>1. ASSUME NEW q \in Requests, Get(q) PROVE Honest'
    <2>1. CASE Present
      <3> DEFINE new == [request[q] EXCEPT !.at = "found", !.found = stored,
                                           !.raced = finished[stored] = Never]
      <3>1. /\ new \in Requesting /\ new.at = "found" /\ new.found = stored
            /\ stored \in Requests
            /\ ~new.raced => finished[stored] # Never
        BY <2>1, <1>0 DEF TypeOK, Present, Requesting
      <3>2. request' = [request EXCEPT ![q] = new]
        BY <1>1, <2>1 DEF Get, Found
      <3>3. ~new.raced => request[new.found].at = "executed"
        BY <3>1 DEF Honest, FinishedIsExecuted
      <3> HIDE DEF new
      <3> QED BY <1>1, <3>1, <3>2, <3>3, HonestMove DEF Get
    <2>2. CASE ~Present
      <3> DEFINE new == [request[q] EXCEPT !.at = "missing"]
      <3>1. new \in Requesting /\ new.at = "missing"
        BY <1>0 DEF Requesting
      <3>2. request' = [request EXCEPT ![q] = new]
        BY <1>1, <2>2 DEF Get, Goes
      <3> QED BY <1>1, <3>1, <3>2, HonestMove DEF Get
    <2> QED BY <2>1, <2>2
  <1>2. ASSUME NEW q \in Requests, AnswerFound(q) PROVE Honest'
    <2>1. PICK view \in Views(q) :
              request' = [request EXCEPT ![q].at = "answered", ![q].reply = Reply(view)]
      BY <1>2 DEF AnswerFound
    <2>2. request[q].found \in Requests
      BY <1>2 DEF AnswerFound, FoundOne
    <2> DEFINE reply == Reply(view)
               new == [request[q] EXCEPT !.at = "answered", !.reply = reply]
    <2>3. reply \in Results
      BY <2>2, ViewsAreRecords
    <2>4. request' = [request EXCEPT ![q] = new]
      BY <2>1 DEF TypeOK
    <2>5. ~request[q].raced => request[request[q].found].at = "executed"
      BY <1>2 DEF AnswerFound, Honest, SawFinished
    <2>6. ~request[q].raced /\ reply.err = "none" => reply = request[request[q].found].reply
      BY <2>2, <2>5, FinishedReply DEF Views, Honest, RecordsResults
    <2> HIDE DEF reply
    <2>7. /\ new \in Requesting /\ new.at = "answered" /\ new.found = request[q].found
          /\ new.raced = request[q].raced /\ new.reply = reply
      <3>1. request[q] \in Requesting
        BY <1>0
      <3> QED BY <2>3, <3>1, AnsweredRequest
    <2> HIDE DEF new
    <2> QED BY <1>2, <2>2, <2>4, <2>5, <2>6, <2>7, HonestMove DEF AnswerFound
  <1>3. ASSUME NEW q \in Requests, Create(q) PROVE Honest'
    <2> DEFINE new == [request[q] EXCEPT !.at = "execute"]
    <2>1. new \in Requesting /\ new.at = "execute"
      BY <1>0 DEF Requesting
    <2>2. request' = [request EXCEPT ![q] = new]
      BY <1>3 DEF Create, Goes
    <2> QED BY <1>3, <2>1, <2>2, HonestMove DEF Create
  <1>4. ASSUME NEW q \in Requests, CreateFindsDuplicate(q) PROVE Honest'
    <2> DEFINE new == [request[q] EXCEPT !.at = "duplicate", !.found = stored,
                                         !.raced = finished[stored] = Never]
    <2>1. /\ new \in Requesting /\ new.at = "duplicate" /\ new.found = stored
          /\ stored \in Requests
          /\ ~new.raced => finished[stored] # Never
      BY <1>4, <1>0 DEF CreateFindsDuplicate, TypeOK, Present, Requesting
    <2>2. request' = [request EXCEPT ![q] = new]
      BY <1>4 DEF CreateFindsDuplicate, Found
    <2>3. ~new.raced => request[new.found].at = "executed"
      BY <2>1 DEF Honest, FinishedIsExecuted
    <2> HIDE DEF new
    <2> QED BY <1>4, <2>1, <2>2, <2>3, HonestMove DEF CreateFindsDuplicate
  <1>5. ASSUME NEW q \in Requests, AnswerDuplicate(q) PROVE Honest'
    <2>1. PICK view \in Views(q) :
              request' = [request EXCEPT ![q].at = "answered",
                              ![q].reply = [view.result EXCEPT !.err = "duplicate"]]
      BY <1>5 DEF AnswerDuplicate
    <2>2. request[q].found \in Requests
      BY <1>5 DEF AnswerDuplicate, FoundOne
    <2> DEFINE reply == [view.result EXCEPT !.err = "duplicate"]
               new == [request[q] EXCEPT !.at = "answered", !.reply = reply]
    <2>3. reply \in Results /\ reply.err = "duplicate"
      BY <2>2, ViewsAreRecords DEF Results
    <2>4. request' = [request EXCEPT ![q] = new]
      BY <2>1 DEF TypeOK
    <2>5. ~request[q].raced => request[request[q].found].at = "executed"
      BY <1>5 DEF AnswerDuplicate, Honest, SawFinished
    <2> HIDE DEF reply
    <2>6. /\ new \in Requesting /\ new.at = "answered" /\ new.found = request[q].found
          /\ new.raced = request[q].raced /\ new.reply = reply
      <3>1. request[q] \in Requesting
        BY <1>0
      <3> QED BY <2>3, <3>1, AnsweredRequest
    <2> HIDE DEF new
    <2> QED BY <1>5, <2>2, <2>3, <2>4, <2>5, <2>6, HonestMove DEF AnswerDuplicate
  <1>6. ASSUME NEW q \in Requests, Execute(q) PROVE Honest'
    <2>1. PICK r \in Outcomes :
              /\ record' = [record EXCEPT ![q] = [status |-> StatusOf(r), result |-> r]]
              /\ request' = [request EXCEPT ![q].at = "update", ![q].reply = r]
      BY <1>6 DEF Execute
    <2>2. /\ request'[q].at = "update" /\ request'[q].reply = r
          /\ record'[q] = [status |-> StatusOf(r), result |-> r]
          /\ \A p \in Requests : p # q => request'[p] = request[p] /\ record'[p] = record[p]
          /\ finished' = finished /\ request[q].at = "execute"
      BY <1>6, <1>0, <2>1 DEF Execute, TypeOK, Requesting
    <2>3. RecordsResults' /\ FinishedIsExecuted'
      BY <2>2 DEF Honest, RecordsResults, FinishedIsExecuted
    <2>4. SawFinished'
      BY <2>2 DEF Honest, SawFinished, FoundOne
    <2>5. SuccessWasExecuted'
      BY <2>2 DEF Honest, SuccessWasExecuted, FoundOne
    <2> QED BY <2>3, <2>4, <2>5 DEF Honest
  <1>7. ASSUME NEW q \in Requests, Update(q) PROVE Honest'
    <2>1. /\ request'[q].at = "executed" /\ request'[q].reply = request[q].reply
          /\ \A p \in Requests : p # q => request'[p] = request[p] /\ finished'[p] = finished[p]
          /\ record' = record /\ request[q].at = "update"
      BY <1>7, <1>0 DEF Update, Goes, TypeOK, Requesting
    <2>2. RecordsResults' /\ FinishedIsExecuted'
      BY <2>1 DEF Honest, RecordsResults, FinishedIsExecuted
    <2>3. SawFinished'
      BY <2>1 DEF Honest, SawFinished, FoundOne
    <2>4. SuccessWasExecuted'
      BY <2>1 DEF Honest, SuccessWasExecuted, FoundOne
    <2> QED BY <2>2, <2>3, <2>4 DEF Honest
  <1>8. CASE Cleanup \/ Stop \/ Delete \/ Tick \/ UNCHANGED vars
    BY <1>8, HonestKept DEF Cleanup, Stop, Delete, Tick, vars
  <1> QED BY <1>1, <1>2, <1>3, <1>4, <1>5, <1>6, <1>7, <1>8 DEF Next, RequestStep

\* request.go:271-281: who is told that the payment succeeded without executing
\* it gets all of what an execution with the key returned, unless it read the
\* record while that was being written.
THEOREM SuccessIsGenuine == Spec => []SuccessWasExecuted
  <1>1. TypeOK /\ FoundOne /\ Honest /\ [Next]_vars => (TypeOK /\ FoundOne /\ Honest)'
    BY TypeStep, HonestStep
  <1>2. Honest => SuccessWasExecuted
    BY DEF Honest
  <1> QED BY TypeInit, HonestInit, <1>1, <1>2, PTL DEF Spec
=============================================================================
