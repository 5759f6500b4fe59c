---------------------------- MODULE Idempotency -----------------------------
(***************************************************************************)
(* Requests with ONE idempotency key: executeWithIdempotency of request.go *)
(* on the InMemoryStore of idempotency/idempotency.go.  No operation       *)
(* touches two keys.  The store's operations run under its lock; what a    *)
(* request does with the record it was given does not.                     *)
(***************************************************************************)
EXTENDS Integers

CONSTANTS
    Requests,    \* calls of Execute with the key, retries among them
    TTL,         \* how long a record lives, 0 for ever
    Deletes,     \* the application calls Delete
    MaxTime      \* bound: when the clock stops

VARIABLES
    now,
    stored,      \* records[key]: the request that created the record there
    created,     \* CreatedAt of the record each request created, Never if none
    record,      \* that record's result
    finished,    \* when a request's Update returned, Never before
    request,     \* where each request is
    stopped,     \* the clean-up goroutine was stopped
    deleted      \* history: Delete was called

vars == <<now, stored, created, record, finished, request, stopped, deleted>>

Never == -1
Nothing == "nothing"

\* A TTL below zero, which NewInMemoryStore takes, expires for Create only.
ASSUME IdempotencyAssumption ==
    /\ Nothing \notin Requests
    /\ TTL \in Nat /\ MaxTime \in Nat
    /\ Deletes \in BOOLEAN

\* What a request returns, or a record holds: the transaction, its receipt, and
\* which error.  A record's Status follows from the other fields.
Results == [tx : BOOLEAN, receipt : BOOLEAN, err : {"none", "failure", "duplicate"}]
NoResult == [tx |-> FALSE, receipt |-> FALSE, err |-> "none"]
Statuses == {"pending", "submitted", "confirmed", "failed"}
Empty == [status |-> "pending", result |-> NoResult]

\* What executeInternal may return.
Outcomes == {r \in Results : /\ r.err # "duplicate"
                             /\ r.receipt => r.tx
                             /\ r.tx \/ r.err = "failure"}

Init ==
    /\ now = 0
    /\ stored = Nothing
    /\ created = [q \in Requests |-> Never]
    /\ record = [q \in Requests |-> Empty]
    /\ finished = [q \in Requests |-> Never]
    /\ request = [q \in Requests |-> [at |-> "start", found |-> Nothing, raced |-> FALSE,
                                      reply |-> NoResult]]
    /\ stopped = FALSE
    /\ deleted = FALSE

Expired(q) == TTL > 0 /\ now - created[q] > TTL

Present == stored # Nothing /\ ~Expired(stored)

-----------------------------------------------------------------------------
(* One request.                                                            *)

Goes(q, place) == request' = [request EXCEPT ![q].at = place]

\* The result is complete in the memory of whoever takes the lock after Update.
Found(q, place) ==
    request' = [request EXCEPT ![q] = [@ EXCEPT !.at = place, !.found = stored,
                                                !.raced = finished[stored] = Never]]

Get(q) ==
    /\ request[q].at = "start"
    /\ IF Present THEN Found(q, "found") ELSE Goes(q, "missing")
    /\ UNCHANGED <<now, stored, created, record, finished, stopped, deleted>>

\* The fields of a record that is still being written may each be read before or
\* after the write.
Views(q) ==
    LET r == record[request[q].found] IN
    IF request[q].raced
    THEN [status : {"pending", r.status},
          result : [tx : {FALSE, r.result.tx}, receipt : {FALSE, r.result.receipt},
                    err : {"none", r.result.err}]]
    ELSE {r}

Reply(view) ==
    CASE view.status = "confirmed" -> [view.result EXCEPT !.err = "none"]
      [] view.status = "failed"    -> view.result
      [] OTHER                     -> [view.result EXCEPT !.err = "duplicate"]

AnswerFound(q) ==
    /\ request[q].at = "found"
    /\ \E view \in Views(q) :
           request' = [request EXCEPT ![q].at = "answered", ![q].reply = Reply(view)]
    /\ UNCHANGED <<now, stored, created, record, finished, stopped, deleted>>

\* Mutant: whatever Get saw still holds.
CreateUnchecked(q) ==
    /\ request[q].at = "missing"
    /\ stored' = q
    /\ created' = [created EXCEPT ![q] = now]
    /\ Goes(q, "execute")
    /\ UNCHANGED <<now, record, finished, stopped, deleted>>

Create(q) ==
    /\ request[q].at = "missing"
    /\ ~Present
    /\ stored' = q
    /\ created' = [created EXCEPT ![q] = now]
    /\ Goes(q, "execute")
    /\ UNCHANGED <<now, record, finished, stopped, deleted>>

\* Mutant: ErrDuplicateKey is taken for success.
CreateIgnoresDuplicate(q) ==
    /\ request[q].at = "missing"
    /\ Present
    /\ Found(q, "execute")
    /\ UNCHANGED <<now, stored, created, record, finished, stopped, deleted>>

CreateFindsDuplicate(q) ==
    /\ request[q].at = "missing"
    /\ Present
    /\ Found(q, "duplicate")
    /\ UNCHANGED <<now, stored, created, record, finished, stopped, deleted>>

AnswerDuplicate(q) ==
    /\ request[q].at = "duplicate"
    /\ \E view \in Views(q) :
           request' = [request EXCEPT ![q].at = "answered",
                                      ![q].reply = [view.result EXCEPT !.err = "duplicate"]]
    /\ UNCHANGED <<now, stored, created, record, finished, stopped, deleted>>

\* Mutant: a receipt makes it confirmed, reverted or not.
StatusByReceipt(r) ==
    IF r.receipt THEN "confirmed" ELSE IF r.err = "failure" THEN "failed" ELSE "submitted"

StatusOf(r) ==
    IF r.err = "failure" THEN "failed" ELSE IF r.receipt THEN "confirmed" ELSE "submitted"

\* executeInternal ends; its result is written to the record without the lock.
Execute(q) ==
    /\ request[q].at = "execute"
    /\ \E r \in Outcomes :
           /\ record' = [record EXCEPT ![q] = [status |-> StatusOf(r), result |-> r]]
           /\ request' = [request EXCEPT ![q].at = "update", ![q].reply = r]
    /\ UNCHANGED <<now, stored, created, finished, stopped, deleted>>

\* Any record with the key is overwritten; without one, ErrKeyNotFound is dropped.
Update(q) ==
    /\ request[q].at = "update"
    /\ stored' = IF stored = Nothing THEN Nothing ELSE q
    /\ finished' = [finished EXCEPT ![q] = now]
    /\ Goes(q, "executed")
    /\ UNCHANGED <<now, created, record, stopped, deleted>>

-----------------------------------------------------------------------------
(* The rest of the store, and time.                                        *)

\* cleanupLoop runs only with a TTL, and may be late.
Cleanup ==
    /\ TTL > 0 /\ ~stopped
    /\ stored # Nothing
    /\ Expired(stored)
    /\ stored' = Nothing
    /\ UNCHANGED <<now, created, record, finished, request, stopped, deleted>>

Stop ==
    /\ ~stopped
    /\ stopped' = TRUE
    /\ UNCHANGED <<now, stored, created, record, finished, request, deleted>>

Delete ==
    /\ Deletes
    /\ stored' = Nothing
    /\ deleted' = TRUE
    /\ UNCHANGED <<now, created, record, finished, request, stopped>>

Tick ==
    /\ now < MaxTime
    /\ now' = now + 1
    /\ UNCHANGED <<stored, created, record, finished, request, stopped, deleted>>

RequestStep(q) ==
    \/ Get(q)
    \/ AnswerFound(q)
    \/ Create(q)
    \/ CreateFindsDuplicate(q)
    \/ AnswerDuplicate(q)
    \/ Execute(q)
    \/ Update(q)

Next ==
    \/ \E q \in Requests : RequestStep(q)
    \/ Cleanup
    \/ Stop
    \/ Delete
    \/ Tick

Spec == Init /\ [][Next]_vars

-----------------------------------------------------------------------------
\* What idempotency.go:49-88 keeps for one key, and where a request that created
\* a record can be.
TypeOK ==
    /\ now \in 0 .. MaxTime
    /\ stored \in Requests \union {Nothing}
    /\ created \in [Requests -> {Never} \union 0 .. MaxTime]
    /\ record \in [Requests -> [status : Statuses, result : Results]]
    /\ finished \in [Requests -> {Never} \union 0 .. MaxTime]
    /\ request \in [Requests -> [at : {"start", "found", "missing", "duplicate", "answered",
                                       "execute", "update", "executed"},
                                 found : Requests \union {Nothing},
                                 raced : BOOLEAN,
                                 reply : Results]]
    /\ stopped \in BOOLEAN
    /\ deleted \in BOOLEAN
    /\ \A q \in Requests :
           created[q] # Never <=> request[q].at \in {"execute", "update", "executed"}

Apart(q, r) ==
    TTL > 0 /\ (created[q] - created[r] > TTL \/ created[r] - created[q] > TTL)

\* An execution that took longer than its record lived.
Outlived(q) == TTL > 0 /\ finished[q] # Never /\ finished[q] - created[q] > TTL

\* request.go:229-231, "instead of submitting a new transaction": however the
\* requests with the key interleave, two are executed only more than TTL apart,
\* or after Delete, or after an execution outlived its record, whose late Update
\* may take the place of a younger one.
ExecutedOncePerTTL ==
    \A q, r \in Requests :
        created[q] # Never /\ created[r] # Never /\ q # r =>
            \/ Apart(q, r)
            \/ deleted
            \/ \E u \in Requests : Outlived(u)

\* request.go:271-281: an answer given without executing that reports success has
\* behind it an execution that succeeded, and hands out all of its result, unless
\* it read the record while that was being written.
SuccessWasExecuted ==
    \A q \in Requests :
        LET a == request[q] IN
        a.at = "answered" /\ ~a.raced /\ a.reply.err = "none" =>
            /\ request[a.found].at = "executed"
            /\ a.reply = request[a.found].reply
=============================================================================
