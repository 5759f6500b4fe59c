------------------------------ MODULE Network -------------------------------
(***************************************************************************)
(* manager_network.go for ONE network: goroutines ask for its reader,      *)
(* analyzer or broadcaster, which the first of them creates under the      *)
(* network's lock, behind the network's circuit breaker.  The factories    *)
(* may fail whenever they are called, and the monitor's may give none.     *)
(***************************************************************************)
EXTENDS CircuitBreaker, Sequences

CONSTANT Callers     \* goroutines

NoOne == "no one"

ASSUME CallersAssumption == NoOne \notin Callers

VARIABLES
    created,    \* how many clients of each kind were stored, the last one in use
    lock,       \* the holder of the network's lock, NoOne when free
    call,       \* each goroutine's call
    initFailed, \* history: the last initialisation to end was cut short
    noMonitor,  \* history: the monitor's factory gave none
    reports     \* history: the latest reports to the breaker, the last one last

histVars == <<initFailed, noMonitor>>
vars == <<breakerVars, created, lock, call, histVars, reports>>

\* initNetwork creates them in this order.
Kinds == <<"reader", "analyzer", "broadcaster", "monitor">>
Last == Len(Kinds)
Wanted == {"reader", "analyzer", "broadcaster"}
Clients == Wanted \union {"monitor"}

\* client: which of the clients of its kind the call was given, 0 for none.
Idle == [at |-> "idle", want |-> "none", next |-> 0, client |-> 0]

Init ==
    /\ BreakerInit
    /\ created = [k \in Clients |-> 0]
    /\ lock = NoOne
    /\ call = [c \in Callers |-> Idle]
    /\ initFailed = FALSE
    /\ noMonitor = FALSE
    /\ reports = <<>>

Goes(c, place) == call' = [call EXCEPT ![c].at = place]

Window == IF FailureThreshold > SuccessThreshold THEN FailureThreshold ELSE SuccessThreshold

Latest(s) == SubSeq(s, Len(s) - UpTo(Window, Len(s)) + 1, Len(s))

Reported(ok) ==
    /\ IF ok THEN RecordSuccess ELSE RecordFailure
    /\ reports' = Latest(Append(reports, ok))

-----------------------------------------------------------------------------
(* Reader, Analyzer and Broadcaster are one operation of three clients.    *)

Ask(c, kind) ==
    /\ call[c].at = "idle"
    /\ call' = [call EXCEPT ![c] = [Idle EXCEPT !.at = "asked", !.want = kind]]
    /\ UNCHANGED <<breakerVars, created, lock, histVars, reports>>

\* Mutant: a refusal is reported as a failure.
RefuseReported(c) ==
    /\ call[c].at = "asked"
    /\ ~Allow
    /\ Reported(FALSE)
    /\ call' = [call EXCEPT ![c] = Idle]
    /\ UNCHANGED <<created, lock, histVars>>

\* ErrCircuitBreakerOpen.
Refuse(c) ==
    /\ call[c].at = "asked"
    /\ ~Allow
    /\ call' = [call EXCEPT ![c] = Idle]
    /\ UNCHANGED <<breakerVars, created, lock, histVars, reports>>

Admit(c) ==
    /\ call[c].at = "asked"
    /\ Allow
    /\ Goes(c, "load")
    /\ UNCHANGED <<breakerVars, created, lock, histVars, reports>>

Given(c) == [call EXCEPT ![c].at = "given", ![c].client = created[call[c].want]]

\* Loaded without the lock: a concurrent initialisation may be under way.
Load(c) ==
    /\ call[c].at = "load"
    /\ call' = IF created[call[c].want] > 0 THEN Given(c)
               ELSE [call EXCEPT ![c].at = "lock"]
    /\ UNCHANGED <<breakerVars, created, lock, histVars, reports>>

Lock(c) ==
    /\ call[c].at = "lock"
    /\ lock = NoOne
    /\ lock' = c
    /\ call' = [call EXCEPT ![c].at = "init", ![c].next = 1]
    /\ UNCHANGED <<breakerVars, created, histVars, reports>>

NextKind(c) == Kinds[call[c].next]

\* Mutant: what another initialisation created is created again.
CheckNothing(c) ==
    /\ call[c].at = "init" /\ call[c].next <= Last
    /\ Goes(c, "factory")
    /\ UNCHANGED <<breakerVars, created, lock, histVars, reports>>

\* What another initialisation created is kept.
Check(c) ==
    /\ call[c].at = "init" /\ call[c].next <= Last
    /\ call' = IF created[NextKind(c)] > 0
               THEN [call EXCEPT ![c].next = @ + 1]
               ELSE [call EXCEPT ![c].at = "factory"]
    /\ UNCHANGED <<breakerVars, created, lock, histVars, reports>>

\* A monitor is stored unless the factory gave none, as the default one does for
\* a reader of the application's own.
FactoryReturns(c) ==
    /\ call[c].at = "factory"
    /\ \/ /\ created' = [created EXCEPT ![NextKind(c)] = @ + 1]
          /\ UNCHANGED noMonitor
       \/ /\ NextKind(c) = "monitor"
          /\ noMonitor' = TRUE
          /\ UNCHANGED created
    /\ call' = [call EXCEPT ![c].at = "init", ![c].next = @ + 1]
    /\ UNCHANGED <<breakerVars, lock, initFailed, reports>>

\* Mutant: the early return keeps the lock.
FactoryFailsHoldingLock(c) ==
    /\ call[c].at = "factory" /\ NextKind(c) # "monitor"
    /\ initFailed' = TRUE
    /\ Goes(c, "failed")
    /\ UNCHANGED <<breakerVars, created, lock, noMonitor, reports>>

\* What was created before stays; the monitor's factory returns no error.
FactoryFails(c) ==
    /\ call[c].at = "factory" /\ NextKind(c) # "monitor"
    /\ lock' = NoOne
    /\ initFailed' = TRUE
    /\ Goes(c, "failed")
    /\ UNCHANGED <<breakerVars, created, noMonitor, reports>>

\* Mutant: done as soon as there is a broadcaster.
InitialisedWithoutMonitor(c) ==
    /\ call[c].at = "init" /\ call[c].next >= Last
    /\ lock' = NoOne
    /\ initFailed' = FALSE
    /\ call' = Given(c)
    /\ UNCHANGED <<breakerVars, created, noMonitor, reports>>

\* initNetwork returns, and the client is loaded again.
Initialised(c) ==
    /\ call[c].at = "init" /\ call[c].next > Last
    /\ lock' = NoOne
    /\ initFailed' = FALSE
    /\ call' = Given(c)
    /\ UNCHANGED <<breakerVars, created, noMonitor, reports>>

ReportFailed(c) ==
    /\ call[c].at = "failed"
    /\ Reported(FALSE)
    /\ call' = [call EXCEPT ![c] = Idle]
    /\ UNCHANGED <<created, lock, histVars>>

\* To have a client counts as a success, before it is used.
ReportGiven(c) ==
    /\ call[c].at = "given"
    /\ Reported(TRUE)
    /\ Goes(c, "using")
    /\ UNCHANGED <<created, lock, histVars>>

-----------------------------------------------------------------------------
\* The client is kept as long as the caller likes.
Used(c) ==
    /\ call[c].at = "using"
    /\ call' = [call EXCEPT ![c] = Idle]
    /\ UNCHANGED <<breakerVars, created, lock, histVars, reports>>

\* RecordNetworkSuccess and RecordNetworkFailure: whoever likes tells the breaker
\* how an operation went, admitted or not, and as often as it likes.
Report(ok) ==
    /\ Reported(ok)
    /\ UNCHANGED <<created, lock, call, histVars>>

ResetCircuitBreaker ==
    /\ Reset
    /\ reports' = <<>>
    /\ UNCHANGED <<created, lock, call, histVars>>

Tick ==
    /\ Elapse
    /\ UNCHANGED <<created, lock, call, histVars, reports>>

Returns(c) ==
    \/ Refuse(c)
    \/ Admit(c)
    \/ Load(c)
    \/ Check(c)
    \/ FactoryReturns(c)
    \/ FactoryFails(c)
    \/ Initialised(c)
    \/ ReportFailed(c)
    \/ ReportGiven(c)

Next ==
    \/ \E c \in Callers : \/ \E kind \in Wanted : Ask(c, kind)
                          \/ Returns(c)
                          \/ Lock(c)
                          \/ Used(c)
    \/ \E ok \in BOOLEAN : Report(ok)
    \/ ResetCircuitBreaker
    \/ Tick

Spec == Init /\ [][Next]_vars

\* Goroutines run, time passes, and Go's mutexes let nobody wait for ever.  No
\* fairness for a caller that asks, uses its client, reports or resets.
Fairness ==
    /\ \A c \in Callers : WF_vars(Returns(c)) /\ SF_vars(Lock(c))
    /\ WF_vars(Tick)

FairSpec == Spec /\ Fairness

-----------------------------------------------------------------------------
\* What circuitbreaker.go:58-70 and the maps of manager.go:60-68 hold, and the
\* lock's holder is the one call that initialises.
TypeOK ==
    /\ state \in {"closed", "open"}
    /\ consecutiveFailures \in 0 .. FailureThreshold
    /\ consecutiveSuccesses \in 0 .. SuccessThreshold
    /\ sinceFailure \in 0 .. Timeout
    /\ created \in [Clients -> Nat]
    /\ lock \in {NoOne} \union Callers
    /\ call \in [Callers -> [at : {"idle", "asked", "load", "lock", "init", "factory", "failed", "given", "using"},
                             want : {"none"} \union Wanted,
                             next : 0 .. (Last + 1),
                             client : Nat]]
    /\ \A c \in Callers : lock = c <=> call[c].at \in {"init", "factory"}
    /\ initFailed \in BOOLEAN /\ noMonitor \in BOOLEAN
    /\ reports \in Seq(BOOLEAN) /\ Len(reports) <= Window

\* manager_network.go:120-171, the double-checked initialisation: however many
\* goroutines find a client missing at once, everyone is given the one that stays.
EveryoneSharesTheClient ==
    \A c \in Callers : call[c].at \in {"given", "using"} =>
        call[c].client = 1 /\ created[call[c].want] = 1

\* manager_tx.go:228-230 calls the monitor without looking whether there is one.
\* A goroutine that has a client finds it missing only when the monitor's factory
\* gave none (manager_network.go:167-170), while another still initialises the
\* network, or after an initialisation was cut short.
MonitorMissingForAReason ==
    \A c \in Callers : call[c].at = "using" /\ created["monitor"] = 0 =>
        noMonitor \/ lock # NoOne \/ initFailed

EndsIn(s, n, ok) == Len(s) >= n /\ \A i \in (Len(s) - n + 1) .. Len(s) : s[i] = ok

\* circuitbreaker.go:34-39, whatever the order the answers of concurrent requests
\* come in: the breaker opens only on FailureThreshold failures in a row, and
\* closes only on SuccessThreshold successes in a row, or a reset.
OpensAndClosesOnStreaks ==
    [][/\ (state = "closed" /\ state' = "open") => EndsIn(reports', FailureThreshold, FALSE)
       /\ (state = "open" /\ state' = "closed") =>
              EndsIn(reports', SuccessThreshold, TRUE) \/ reports' = <<>>]_vars

\* SKILL.md:342, "It auto-recovers": failures of calls admitted before, or refused,
\* never keep an open breaker from admitting again; only an application that goes
\* on for ever reporting failures of its own (RecordNetworkFailure) does.
AdmitsAgain == []<>Allow \/ []<><<Report(FALSE)>>_vars

\* Every call returns, with a client or an error: the network's lock is never
\* lost, whichever factory fails.
CallsReturn ==
    \A c \in Callers : call[c].at # "idle" ~> call[c].at \in {"idle", "using"}
=============================================================================
