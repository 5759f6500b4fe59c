--------------------------- MODULE NetworkProofs ----------------------------
(***************************************************************************)
(* What the initialisation of a network guarantees, for every number of    *)
(* goroutines, every thresholds and time of the breaker, and factories     *)
(* that may fail at any call, the monitor's also by giving none.           *)
(***************************************************************************)
EXTENDS Network, SequenceTheorems, TLAPS

Calls == [at : {"idle", "asked", "load", "lock", "init", "factory", "failed", "given", "using"},
          want : {"none"} \union Wanted,
          next : 0 .. (Last + 1),
          client : Nat]

Initialising == {"init", "factory"}

Places == {"idle", "asked", "load", "lock", "init", "factory", "failed", "given", "using"}

WithNext(x, p, n) == [x EXCEPT !.at = p, !.next = n]
WithClient(x, p, n) == [x EXCEPT !.at = p, !.client = n]
WithWant(x, p, w) == [x EXCEPT !.at = p, !.want = w]

LEMMA CallWithNext ==
    ASSUME NEW x \in Calls, NEW p \in Places, NEW n \in 0 .. (Last + 1)
    PROVE  /\ WithNext(x, p, n) \in Calls
           /\ WithNext(x, p, n).at = p
           /\ WithNext(x, p, n).next = n
           /\ WithNext(x, p, n).want = x.want
  BY DEF Calls, Places, WithNext

LEMMA CallWithClient ==
    ASSUME NEW x \in Calls, NEW p \in Places, NEW n \in Nat
    PROVE  /\ WithClient(x, p, n) \in Calls
           /\ WithClient(x, p, n).at = p
           /\ WithClient(x, p, n).client = n
           /\ WithClient(x, p, n).want = x.want
  BY DEF Calls, Places, WithClient

LEMMA CallThatWants ==
    ASSUME NEW x \in Calls, NEW p \in Places, NEW w \in Wanted
    PROVE  /\ WithWant(x, p, w) \in Calls
           /\ WithWant(x, p, w).at = p
           /\ WithWant(x, p, w).want = w
  BY DEF Calls, Places, WithWant

LEMMA FourKinds ==
    /\ Last = 4
    /\ \A i \in 1 .. Last : Kinds[i] \in Clients
    /\ \A k \in Clients : \E i \in 1 .. Last : Kinds[i] = k
    /\ \A i, j \in 1 .. Last : Kinds[i] = Kinds[j] => i = j
  <1>1. /\ Last = 4
        /\ Kinds[1] = "reader" /\ Kinds[2] = "analyzer"
        /\ Kinds[3] = "broadcaster" /\ Kinds[4] = "monitor"
    BY DEF Last, Kinds
  <1>2. \A i \in 1 .. 4 : i = 1 \/ i = 2 \/ i = 3 \/ i = 4
    OBVIOUS
  <1> HIDE DEF Kinds, Last
  <1> QED BY <1>1, <1>2 DEF Clients, Wanted

LEMMA WindowIsNat == Window \in Nat \ {0}
  BY ConfigAssumption DEF Window

LEMMA LatestReports ==
    ASSUME NEW s \in Seq(BOOLEAN), NEW ok \in BOOLEAN
    PROVE  /\ Latest(Append(s, ok)) \in Seq(BOOLEAN)
           /\ Len(Latest(Append(s, ok))) <= Window
  <1> DEFINE a == Append(s, ok)
             n == UpTo(Window, Len(a))
  <1>1. a \in Seq(BOOLEAN) /\ Len(a) \in Nat /\ Len(a) = Len(s) + 1
    BY AppendProperties
  <1>2. n \in Nat /\ n <= Window /\ n <= Len(a)
    BY <1>1, WindowIsNat DEF UpTo
  <1> HIDE DEF a, n
  <1>3. Len(a) - n + 1 \in 1 .. (Len(a) + 1)
    BY <1>1, <1>2
  <1>4. /\ SubSeq(a, Len(a) - n + 1, Len(a)) \in Seq(BOOLEAN)
        /\ Len(SubSeq(a, Len(a) - n + 1, Len(a))) <= Window
    BY <1>1, <1>2, <1>3, SubSeqProperties
  <1> QED BY <1>4 DEF Latest, a, n

-----------------------------------------------------------------------------
BreakerOK ==
    /\ state \in {"closed", "open"}
    /\ consecutiveFailures \in 0 .. FailureThreshold
    /\ consecutiveSuccesses \in 0 .. SuccessThreshold
    /\ sinceFailure \in 0 .. Timeout
    /\ reports \in Seq(BOOLEAN) /\ Len(reports) <= Window

LEMMA ReportTypes ==
    ASSUME BreakerOK, NEW ok \in BOOLEAN, Reported(ok)
    PROVE  BreakerOK'
  <1>0. RecordSuccess \/ RecordFailure
    BY Zenon DEF Reported
  <1>1. reports' \in Seq(BOOLEAN) /\ Len(reports') <= Window
    BY LatestReports DEF Reported, BreakerOK
  <1>2. CASE RecordSuccess
    <2>1. /\ consecutiveFailures' = 0 /\ sinceFailure' = sinceFailure
          /\ state' \in {"closed", state}
          /\ consecutiveSuccesses' \in {0, UpTo(SuccessThreshold, consecutiveSuccesses + 1)}
      BY <1>2 DEF RecordSuccess
    <2> QED BY <1>1, <2>1, ConfigAssumption DEF BreakerOK, UpTo
  <1>3. CASE RecordFailure
    <2>1. /\ consecutiveSuccesses' = 0 /\ sinceFailure' = 0
          /\ state' \in {"open", state}
          /\ consecutiveFailures' = UpTo(FailureThreshold, consecutiveFailures + 1)
      BY <1>3 DEF RecordFailure
    <2> QED BY <1>1, <2>1, ConfigAssumption DEF BreakerOK, UpTo
  <1> QED BY <1>0, <1>2, <1>3

\* Every other step leaves the breaker alone, resets it, or lets its time pass.
LEMMA BreakerStep == BreakerOK /\ [Next]_vars => BreakerOK'
  <1> SUFFICES ASSUME BreakerOK, [Next]_vars PROVE BreakerOK'
    OBVIOUS
  <1>1. CASE UNCHANGED <<breakerVars, reports>>
    BY <1>1 DEF BreakerOK, breakerVars
  <1>2. ASSUME NEW c \in Callers, ReportFailed(c) \/ ReportGiven(c) PROVE BreakerOK'
    BY <1>2, ReportTypes DEF ReportFailed, ReportGiven
  <1>3. ASSUME NEW ok \in BOOLEAN, Report(ok) PROVE BreakerOK'
    BY <1>3, ReportTypes DEF Report
  <1>4. CASE ResetCircuitBreaker
    <2>1. <<>> \in Seq(BOOLEAN) /\ Len(<<>>) = 0
      OBVIOUS
    <2> QED BY <1>4, <2>1, WindowIsNat, ConfigAssumption
            DEF ResetCircuitBreaker, Reset, BreakerOK
  <1>5. CASE Tick
    BY <1>5, ConfigAssumption DEF Tick, Elapse, BreakerOK
  <1> QED BY <1>1, <1>2, <1>3, <1>4, <1>5
          DEF Next, Returns, Ask, Refuse, Admit, Load, Lock, Check, FactoryReturns,
              FactoryFails, Initialised, Used, vars

-----------------------------------------------------------------------------
(***************************************************************************)
(* The breaker.  OpensAndClosesOnStreaks speaks of the reports alone and   *)
(* the breaker of its counters alone: the invariant that relates them is   *)
(* that each counter is the length of a run of equal reports that ends     *)
(* with the latest one.                                                    *)
(***************************************************************************)
Streaks ==
    /\ EndsIn(reports, consecutiveFailures, FALSE)
    /\ EndsIn(reports, consecutiveSuccesses, TRUE)

\* A report prolongs the run it belongs to, as far as the window remembers.
LEMMA StreakGrows ==
    ASSUME NEW s \in Seq(BOOLEAN), NEW n \in Nat, NEW k \in Nat, NEW ok \in BOOLEAN,
           EndsIn(s, n, ok), k <= n + 1, k <= Window
    PROVE  EndsIn(Latest(Append(s, ok)), k, ok)
  <1> DEFINE a == Append(s, ok)
             u == UpTo(Window, Len(a))
             l == SubSeq(a, Len(a) - u + 1, Len(a))
  <1>1. /\ a \in Seq(BOOLEAN) /\ Len(s) \in Nat /\ Len(a) = Len(s) + 1
        /\ \A i \in 1 .. Len(s) : a[i] = s[i]
        /\ a[Len(s) + 1] = ok
    BY AppendProperties
  <1>2. u \in Nat /\ u <= Len(a) /\ k <= u
    BY <1>1, WindowIsNat DEF UpTo, EndsIn
  <1>3. \A i \in (Len(s) - n + 1) .. Len(a) : a[i] = ok
    BY <1>1 DEF EndsIn
  <1> HIDE DEF a, u
  <1>4. /\ Len(a) - u + 1 \in Int /\ Len(a) \in Int
        /\ \A i \in (Len(a) - u + 1) .. Len(a) : a[i] \in BOOLEAN
    BY <1>1, <1>2
  <1>5. /\ Len(l) = IF Len(a) - u + 1 <= Len(a) THEN Len(a) - (Len(a) - u + 1) + 1 ELSE 0
        /\ \A i \in 1 .. Len(a) - (Len(a) - u + 1) + 1 : l[i] = a[(Len(a) - u + 1) + i - 1]
    BY <1>4, SubSeqProperties
  <1>6. Len(l) = u /\ \A i \in 1 .. u : l[i] = a[Len(a) - u + i]
    BY <1>1, <1>2, <1>5
  <1> HIDE DEF l
  <1>7. Len(l) >= k /\ \A i \in (Len(l) - k + 1) .. Len(l) : l[i] = ok
    <2>1. ASSUME NEW i \in (u - k + 1) .. u PROVE l[i] = ok
      <3>1. i \in 1 .. u /\ Len(a) - u + i \in (Len(s) - n + 1) .. Len(a)
        BY <1>1, <1>2
      <3> QED BY <1>3, <1>6, <3>1
    <2> QED BY <1>2, <1>6, <2>1
  <1> QED BY <1>7 DEF EndsIn, Latest, a, u, l

LEMMA NoStreak ==
    ASSUME NEW s \in Seq(BOOLEAN), NEW ok \in BOOLEAN
    PROVE  EndsIn(s, 0, ok)
  BY DEF EndsIn

LEMMA ReportStreaks ==
    ASSUME BreakerOK, Streaks, NEW ok \in BOOLEAN, Reported(ok)
    PROVE  /\ Streaks'
           /\ (state = "closed" /\ state' = "open") => EndsIn(reports', FailureThreshold, FALSE)
           /\ (state = "open" /\ state' = "closed") => EndsIn(reports', SuccessThreshold, TRUE)
  <1>0. /\ reports' = Latest(Append(reports, ok)) /\ reports' \in Seq(BOOLEAN)
        /\ FailureThreshold <= Window /\ SuccessThreshold <= Window
        /\ Window \in Nat /\ consecutiveFailures \in Nat /\ consecutiveSuccesses \in Nat
    BY ReportTypes, WindowIsNat, ConfigAssumption DEF Reported, BreakerOK, Window
  <1>1. CASE ok
    <2> DEFINE n == UpTo(SuccessThreshold, consecutiveSuccesses + 1)
    <2>1. RecordSuccess /\ ok = TRUE
      BY <1>1, Zenon DEF Reported
    <2>2. n \in Nat /\ n <= consecutiveSuccesses + 1 /\ n <= Window
      BY <1>0, ConfigAssumption DEF UpTo
    <2>3. EndsIn(reports', n, TRUE)
      BY <1>0, <2>1, <2>2, StreakGrows DEF Streaks, BreakerOK
    <2>4. EndsIn(reports', 0, TRUE) /\ EndsIn(reports', 0, FALSE)
      BY <1>0, NoStreak
    <2> HIDE DEF n
    <2>5. /\ consecutiveFailures' = 0
          /\ \/ state' = state /\ consecutiveSuccesses' = n
             \/ state' = "closed" /\ consecutiveSuccesses' = 0 /\ n = SuccessThreshold
      BY <2>1 DEF RecordSuccess, n
    <2> QED BY <2>3, <2>4, <2>5 DEF Streaks
  <1>2. CASE ~ok
    <2> DEFINE n == UpTo(FailureThreshold, consecutiveFailures + 1)
    <2>1. RecordFailure /\ ok = FALSE
      BY <1>2, Zenon DEF Reported
    <2>2. n \in Nat /\ n <= consecutiveFailures + 1 /\ n <= Window
      BY <1>0, ConfigAssumption DEF UpTo
    <2>3. EndsIn(reports', n, FALSE)
      BY <1>0, <2>1, <2>2, StreakGrows DEF Streaks, BreakerOK
    <2>4. EndsIn(reports', 0, TRUE)
      BY <1>0, NoStreak
    <2> HIDE DEF n
    <2>5. /\ consecutiveFailures' = n /\ consecutiveSuccesses' = 0
          /\ state' = state \/ (state' = "open" /\ n = FailureThreshold)
      BY <2>1 DEF RecordFailure, n
    <2> QED BY <2>3, <2>4, <2>5 DEF Streaks
  <1> QED BY <1>1, <1>2

OnStreak ==
    /\ (state = "closed" /\ state' = "open") => EndsIn(reports', FailureThreshold, FALSE)
    /\ (state = "open" /\ state' = "closed") =>
           EndsIn(reports', SuccessThreshold, TRUE) \/ reports' = <<>>

LEMMA StreaksInit == Init => Streaks
  <1> SUFFICES ASSUME Init PROVE Streaks
    OBVIOUS
  <1>1. reports = <<>> /\ consecutiveFailures = 0 /\ consecutiveSuccesses = 0
    BY DEF Init, BreakerInit
  <1>2. <<>> \in Seq(BOOLEAN)
    OBVIOUS
  <1> QED BY <1>1, <1>2, NoStreak DEF Streaks

LEMMA StreaksStep == BreakerOK /\ Streaks /\ [Next]_vars => Streaks' /\ OnStreak
  <1> SUFFICES ASSUME BreakerOK, Streaks, [Next]_vars PROVE Streaks' /\ OnStreak
    OBVIOUS
  <1>1. CASE UNCHANGED <<breakerVars, reports>>
    BY <1>1 DEF Streaks, OnStreak, breakerVars
  <1>2. ASSUME NEW c \in Callers, ReportFailed(c) \/ ReportGiven(c) PROVE Streaks' /\ OnStreak
    BY <1>2, ReportStreaks DEF ReportFailed, ReportGiven, OnStreak
  <1>3. ASSUME NEW ok \in BOOLEAN, Report(ok) PROVE Streaks' /\ OnStreak
    BY <1>3, ReportStreaks DEF Report, OnStreak
  <1>4. CASE ResetCircuitBreaker
    <2>1. /\ reports' = <<>> /\ consecutiveFailures' = 0 /\ consecutiveSuccesses' = 0
          /\ state' = "closed"
      BY <1>4 DEF ResetCircuitBreaker, Reset
    <2>2. <<>> \in Seq(BOOLEAN)
      OBVIOUS
    <2> QED BY <2>1, <2>2, NoStreak DEF Streaks, OnStreak
  <1>5. CASE Tick
    BY <1>5 DEF Tick, Elapse, Streaks, OnStreak
  <1> QED BY <1>1, <1>2, <1>3, <1>4, <1>5
          DEF Next, Returns, Ask, Refuse, Admit, Load, Lock, Check, FactoryReturns,
              FactoryFails, Initialised, Used, vars

-----------------------------------------------------------------------------
(***************************************************************************)
(* Sharing.  EveryoneSharesTheClient is not inductive: a goroutine between *)
(* its check and its Store must know that nobody else stores the client,   *)
(* which the lock ensures, and whoever completes the initialisation that   *)
(* every kind was created, which the order of Kinds ensures.               *)
(***************************************************************************)
CallsOK ==
    /\ created \in [Clients -> {0, 1}]
    /\ lock \in {NoOne} \union Callers
    /\ call \in [Callers -> Calls]
    /\ initFailed \in BOOLEAN /\ noMonitor \in BOOLEAN
    /\ \A c \in Callers : lock = c <=> call[c].at \in Initialising

\* The factory of the i-th kind was asked: only the monitor's may give none.
Provided(i) == created[Kinds[i]] = 1 \/ (Kinds[i] = "monitor" /\ noMonitor)

CallOK(c) ==
    /\ call[c].at # "idle" => call[c].want \in Wanted
    /\ call[c].at \in Initialising =>
           /\ call[c].next >= 1
           /\ \A i \in 1 .. Last : i < call[c].next => Provided(i)
    /\ call[c].at = "factory" => call[c].next <= Last /\ created[NextKind(c)] = 0
    /\ call[c].at \in {"given", "using"} =>
           call[c].client = 1 /\ created[call[c].want] = 1

\* A network that is initialised in part is being initialised, or failed to be,
\* or its monitor's factory gave none.
PartlyInitialised ==
    (\E k \in Wanted : created[k] = 1) /\ created["monitor"] = 0 =>
        noMonitor \/ lock # NoOne \/ initFailed

Shared == CallsOK /\ (\A c \in Callers : CallOK(c)) /\ PartlyInitialised

LEMMA NetworkInit == Init => BreakerOK /\ Shared
  <1> SUFFICES ASSUME Init PROVE BreakerOK /\ Shared
    OBVIOUS
  <1> USE ConfigAssumption, CallersAssumption, FourKinds DEF Init
  <1>1. BreakerOK
    <2>1. <<>> \in Seq(BOOLEAN) /\ Len(<<>>) = 0
      OBVIOUS
    <2> QED BY <2>1, WindowIsNat DEF BreakerOK, BreakerInit
  <1>2. CallsOK
    <2>1. Idle \in Calls /\ Idle.at = "idle"
      BY DEF Calls, Idle
    <2>2. /\ call \in [Callers -> Calls]
          /\ \A c \in Callers : call[c].at = "idle" /\ lock # c
      BY <2>1
    <2>3. created \in [Clients -> {0, 1}]
      OBVIOUS
    <2>4. initFailed \in BOOLEAN /\ noMonitor \in BOOLEAN
      BY Zenon
    <2> QED BY <2>2, <2>3, <2>4 DEF CallsOK, Initialising
  <1>3. (\A c \in Callers : CallOK(c)) /\ PartlyInitialised
    BY DEF CallOK, Idle, Initialising, PartlyInitialised, Clients, Wanted
  <1> QED BY <1>1, <1>2, <1>3 DEF Shared

\* One call moves; what was created stays, and no other call holds the lock.
LEMMA CallMoves ==
    ASSUME Shared, NEW c \in Callers, NEW new \in Calls,
           call' = [call EXCEPT ![c] = new],
           created' = created, noMonitor' = noMonitor, initFailed' \in BOOLEAN,
           \/ lock' = lock /\ (new.at \in Initialising <=> lock = c)
           \/ lock' = c /\ lock = NoOne /\ new.at \in Initialising
           \/ lock' = NoOne /\ lock = c /\ new.at \notin Initialising,
           CallOK(c)', PartlyInitialised'
    PROVE  Shared'
  <1>1. \A d \in Callers : call'[d] = IF d = c THEN new ELSE call[d]
    BY DEF Shared, CallsOK
  <1>2. CallsOK'
    <2>1. call' \in [Callers -> Calls] /\ lock' \in {NoOne} \union Callers
      BY DEF Shared, CallsOK
    <2>2. \A d \in Callers : lock' = d <=> call'[d].at \in Initialising
      BY <1>1, CallersAssumption DEF Shared, CallsOK
    <2> QED BY <2>1, <2>2 DEF Shared, CallsOK
  <1>3. \A d \in Callers : CallOK(d)'
    <2> SUFFICES ASSUME NEW d \in Callers, d # c PROVE CallOK(d)'
      OBVIOUS
    <2> QED BY <1>1 DEF Shared, CallOK, NextKind, Provided
  <1> QED BY <1>2, <1>3 DEF Shared

LEMMA SharedStep == Shared /\ [Next]_vars => Shared'
  <1> SUFFICES ASSUME Shared, [Next]_vars PROVE Shared'
    OBVIOUS
  <1> USE FourKinds, CallersAssumption DEF Initialising
  <1>0. /\ call \in [Callers -> Calls] /\ lock \in {NoOne} \union Callers /\ initFailed \in BOOLEAN
        /\ noMonitor \in BOOLEAN
    BY DEF Shared, CallsOK
  <1>1. ASSUME NEW c \in Callers, NEW kind \in Wanted, Ask(c, kind) PROVE Shared'
    <2> DEFINE new == WithWant(Idle, "asked", kind)
    <2>1. new \in Calls /\ new.at = "asked" /\ new.want = kind
      <3>1. Idle \in Calls /\ "asked" \in Places
        BY DEF Calls, Idle, Places
      <3> QED BY ONLY <3>1, kind \in Wanted, CallThatWants
    <2>2. call' = [call EXCEPT ![c] = new] /\ call'[c] = new /\ call[c].at = "idle"
      BY <1>0, <1>1 DEF histVars, Ask, WithWant
    <2>3. CallOK(c)'
      BY <2>1, <2>2 DEF CallOK
    <2>4. PartlyInitialised' /\ (new.at \in Initialising <=> lock = c)
      BY <1>1, <2>1, <2>2 DEF histVars, Ask, Shared, PartlyInitialised, CallsOK
    <2> HIDE DEF new
    <2> QED BY <1>0, <1>1, <2>1, <2>2, <2>3, <2>4, CallMoves DEF histVars, Ask
  <1>2. ASSUME NEW c \in Callers, Refuse(c) \/ ReportFailed(c) \/ Used(c) PROVE Shared'
    <2>1. Idle \in Calls /\ Idle.at = "idle"
      BY DEF Calls, Idle
    <2>2. /\ call' = [call EXCEPT ![c] = Idle] /\ call'[c] = Idle
          /\ UNCHANGED <<created, lock, initFailed, noMonitor>>
          /\ call[c].at \notin Initialising
      BY <1>0, <1>2 DEF histVars, Refuse, ReportFailed, Used
    <2>3. CallOK(c)'
      BY <2>1, <2>2 DEF CallOK
    <2>4. PartlyInitialised' /\ lock # c
      BY <2>2 DEF histVars, Shared, PartlyInitialised, CallsOK
    <2> QED BY <1>0, <2>1, <2>2, <2>3, <2>4, CallMoves
  <1>3. ASSUME NEW c \in Callers, Admit(c) PROVE Shared'
    <2> DEFINE new == [call[c] EXCEPT !.at = "load"]
    <2>1. new \in Calls /\ new.at = "load" /\ new.want = call[c].want
      BY <1>0 DEF Calls
    <2>2. call' = [call EXCEPT ![c] = new] /\ call'[c] = new /\ call[c].at = "asked"
      BY <1>0, <1>3 DEF histVars, Admit, Goes
    <2>3. CallOK(c)'
      BY <2>1, <2>2 DEF CallOK, Shared
    <2>4. PartlyInitialised' /\ lock # c
      BY <1>3, <2>2 DEF histVars, Admit, Shared, PartlyInitialised, CallsOK
    <2> HIDE DEF new
    <2> QED BY <1>0, <1>3, <2>1, <2>2, <2>3, <2>4, CallMoves DEF histVars, Admit
  <1>4. ASSUME NEW c \in Callers, Load(c) PROVE Shared'
    <2>1. call[c].want \in Wanted /\ call[c].want \in Clients /\ call[c].at = "load"
      BY <1>4 DEF histVars, Load, Shared, CallOK, Clients
    <2>2. lock # c
      BY <2>1 DEF Shared, CallsOK
    <2>3. CASE created[call[c].want] > 0
      <3> DEFINE new == WithClient(call[c], "given", created[call[c].want])
      <3>1. created[call[c].want] = 1
        BY <2>1, <2>3 DEF Shared, CallsOK
      <3>2. new \in Calls /\ new.at = "given" /\ new.want = call[c].want /\ new.client = 1
        <4>1. call[c] \in Calls /\ 1 \in Nat /\ "given" \in Places
          BY <1>0 DEF Places
        <4> QED BY ONLY <3>1, <4>1, CallWithClient
      <3>3. call' = [call EXCEPT ![c] = new] /\ call'[c] = new
        BY <1>0, <1>4, <2>3 DEF histVars, Load, Given, WithClient
      <3>4. CallOK(c)'
        BY <1>4, <2>1, <3>1, <3>2, <3>3 DEF CallOK, Load
      <3>5. PartlyInitialised'
        BY <1>4 DEF histVars, Load, Shared, PartlyInitialised
      <3> HIDE DEF new
      <3> QED BY <1>0, <1>4, <2>2, <3>2, <3>3, <3>4, <3>5, CallMoves DEF histVars, Load
    <2>4. CASE ~(created[call[c].want] > 0)
      <3> DEFINE new == [call[c] EXCEPT !.at = "lock"]
      <3>2. new \in Calls /\ new.at = "lock" /\ new.want = call[c].want
        BY <1>0 DEF Calls
      <3>3. call' = [call EXCEPT ![c] = new] /\ call'[c] = new
        BY <1>0, <1>4, <2>4 DEF histVars, Load
      <3>4. CallOK(c)'
        BY <2>1, <3>2, <3>3 DEF CallOK
      <3>5. PartlyInitialised'
        BY <1>4 DEF histVars, Load, Shared, PartlyInitialised
      <3> HIDE DEF new
      <3> QED BY <1>0, <1>4, <2>2, <3>2, <3>3, <3>4, <3>5, CallMoves DEF histVars, Load
    <2> QED BY <2>3, <2>4
  <1>5. ASSUME NEW c \in Callers, Lock(c) PROVE Shared'
    <2> DEFINE new == WithNext(call[c], "init", 1)
    <2>1. new \in Calls /\ new.at = "init" /\ new.want = call[c].want /\ new.next = 1
      <3>1. call[c] \in Calls /\ 1 \in 0 .. (Last + 1) /\ "init" \in Places
        BY <1>0 DEF Places
      <3> QED BY ONLY <3>1, CallWithNext
    <2>2. call' = [call EXCEPT ![c] = new] /\ call'[c] = new /\ call[c].at = "lock"
      BY <1>0, <1>5 DEF histVars, Lock, WithNext
    <2>3. CallOK(c)'
      BY <2>1, <2>2 DEF CallOK, Shared
    <2>4. PartlyInitialised'
      BY <1>5 DEF histVars, Lock, PartlyInitialised
    <2> HIDE DEF new
    <2> QED BY <1>0, <1>5, <2>1, <2>2, <2>3, <2>4, CallMoves DEF histVars, Lock
  <1>6. ASSUME NEW c \in Callers, Check(c) PROVE Shared'
    <2>0. /\ call[c].at = "init" /\ lock = c /\ call[c].want \in Wanted
          /\ call[c].next \in 1 .. Last
          /\ \A i \in 1 .. Last : i < call[c].next => Provided(i)
      BY <1>0, <1>6 DEF histVars, Check, Shared, CallsOK, CallOK, Calls
    <2>1. PartlyInitialised' /\ created' = created
      BY <1>6 DEF histVars, Check, Shared, PartlyInitialised
    <2>2. CASE created[NextKind(c)] > 0
      <3> DEFINE new == [call[c] EXCEPT !.next = @ + 1]
      <3>1. /\ new \in Calls /\ new.at = "init" /\ new.want = call[c].want
            /\ new.next = call[c].next + 1
        BY <1>0, <2>0 DEF Calls
      <3>2. call' = [call EXCEPT ![c] = new] /\ call'[c] = new
        BY <1>0, <1>6, <2>2 DEF histVars, Check
      <3>3. created[Kinds[call[c].next]] = 1
        BY <2>0, <2>2 DEF NextKind, Shared, CallsOK
      <3>4. CallOK(c)'
        <4>1. \A i \in 1 .. Last : i < new.next => Provided(i)
          BY <2>0, <3>1, <3>3 DEF Provided
        <4>2. \A i \in 1 .. Last : Provided(i) => Provided(i)'
          BY <1>6, <2>1 DEF histVars, Check, Provided
        <4> HIDE DEF new
        <4> QED BY <2>0, <2>1, <3>1, <3>2, <4>1, <4>2 DEF CallOK
      <3> HIDE DEF new
      <3> QED BY <1>0, <1>6, <2>0, <2>1, <3>1, <3>2, <3>4, CallMoves DEF histVars, Check
    <2>3. CASE ~(created[NextKind(c)] > 0)
      <3> DEFINE new == [call[c] EXCEPT !.at = "factory"]
      <3>1. /\ new \in Calls /\ new.at = "factory" /\ new.want = call[c].want
            /\ new.next = call[c].next
        BY <1>0 DEF Calls
      <3>2. call' = [call EXCEPT ![c] = new] /\ call'[c] = new
        BY <1>0, <1>6, <2>3 DEF histVars, Check
      <3>3. created[Kinds[call[c].next]] = 0
        BY <2>0, <2>3 DEF NextKind, Shared, CallsOK
      <3> HIDE DEF new
      <3>4. CallOK(c)'
        <4>1. \A i \in 1 .. Last : Provided(i) => Provided(i)'
          BY <1>6, <2>1 DEF histVars, Check, Provided
        <4> QED BY <2>0, <2>1, <3>1, <3>2, <3>3, <4>1 DEF CallOK, NextKind
      <3> QED BY <1>0, <1>6, <2>0, <2>1, <3>1, <3>2, <3>4, CallMoves DEF histVars, Check
    <2> QED BY <2>2, <2>3
  <1>7. ASSUME NEW c \in Callers, FactoryReturns(c) PROVE Shared'
    <2>0. /\ call[c].at = "factory" /\ lock = c /\ call[c].want \in Wanted
          /\ call[c].next \in 1 .. Last
          /\ \A i \in 1 .. Last : i < call[c].next => Provided(i)
          /\ created[Kinds[call[c].next]] = 0
      BY <1>0, <1>7 DEF histVars, FactoryReturns, Shared, CallsOK, CallOK, Calls, NextKind
    <2> DEFINE new == WithNext(call[c], "init", call[c].next + 1)
               k == Kinds[call[c].next]
    <2>1. /\ new \in Calls /\ new.at = "init" /\ new.want = call[c].want
          /\ new.next = call[c].next + 1
      <3>1. call[c] \in Calls /\ call[c].next + 1 \in 0 .. (Last + 1) /\ "init" \in Places
        BY <1>0, <2>0 DEF Places
      <3> QED BY ONLY <3>1, CallWithNext
    <2>2. /\ call' = [call EXCEPT ![c] = new]
          /\ \A d \in Callers : call'[d] = IF d = c THEN new ELSE call[d]
      BY <1>0, <1>7 DEF histVars, FactoryReturns, WithNext
    <2>3. /\ k \in Clients
          /\ created' \in [Clients -> {0, 1}]
          /\ \A j \in Clients : created[j] = 1 => created'[j] = 1
          /\ created'[k] = 1 \/ (k = "monitor" /\ noMonitor')
          /\ noMonitor => noMonitor'
          /\ noMonitor' \in BOOLEAN
          /\ lock' = lock /\ initFailed' = initFailed
      <3>1. k \in Clients /\ created \in [Clients -> {0, 1}] /\ created[k] = 0
        BY <2>0 DEF Shared, CallsOK
      <3>2. lock' = lock /\ initFailed' = initFailed
        BY <1>7 DEF FactoryReturns
      <3>3. CASE created' = [created EXCEPT ![k] = @ + 1] /\ UNCHANGED noMonitor
        BY <1>0, <3>1, <3>2, <3>3
      <3>4. CASE k = "monitor" /\ noMonitor' = TRUE /\ UNCHANGED created
        BY <3>1, <3>2, <3>4
      <3> QED BY <1>7, <3>3, <3>4 DEF FactoryReturns, NextKind
    <2> HIDE DEF new
    <2>4. CallsOK'
      BY <1>0, <2>0, <2>1, <2>2, <2>3 DEF Shared, CallsOK
    <2>5. CallOK(c)'
      <3>1. \A i \in 1 .. Last : i < new.next => Provided(i)'
        BY <2>0, <2>1, <2>3 DEF Provided
      <3> QED BY <2>0, <2>1, <2>2, <3>1 DEF CallOK
    <2>6. ASSUME NEW d \in Callers, d # c PROVE CallOK(d)'
      <3>1. call'[d] = call[d] /\ call[d].at \notin Initialising
        BY <2>0, <2>2, <2>6 DEF Shared, CallsOK
      <3>2. \A w \in Wanted : w \in Clients
        BY DEF Clients
      <3> QED BY <2>3, <3>1, <3>2 DEF Shared, CallOK
    <2>7. PartlyInitialised'
      BY <2>0, <2>3 DEF PartlyInitialised
    <2> QED BY <2>4, <2>5, <2>6, <2>7 DEF Shared
  <1>8. ASSUME NEW c \in Callers, FactoryFails(c) PROVE Shared'
    <2> DEFINE new == [call[c] EXCEPT !.at = "failed"]
    <2>1. new \in Calls /\ new.at = "failed" /\ new.want = call[c].want
      BY <1>0 DEF Calls
    <2>2. /\ call' = [call EXCEPT ![c] = new] /\ call'[c] = new /\ call[c].at = "factory"
          /\ lock = c
      BY <1>0, <1>8 DEF histVars, FactoryFails, Goes, Shared, CallsOK
    <2>3. CallOK(c)'
      BY <2>1, <2>2 DEF CallOK, Shared
    <2>4. PartlyInitialised'
      BY <1>8 DEF histVars, FactoryFails, PartlyInitialised
    <2> HIDE DEF new
    <2> QED BY <1>0, <1>8, <2>1, <2>2, <2>3, <2>4, CallMoves DEF histVars, FactoryFails
  <1>9. ASSUME NEW c \in Callers, Initialised(c) PROVE Shared'
    <2>0. /\ call[c].at = "init" /\ lock = c /\ call[c].want \in Wanted
          /\ \A i \in 1 .. Last : Provided(i)
      BY <1>0, <1>9 DEF histVars, Initialised, Shared, CallsOK, CallOK, Calls
    <2>1. \A k \in Clients : created[k] = 1 \/ (k = "monitor" /\ noMonitor)
      BY <2>0 DEF Provided
    <2>2. created[call[c].want] = 1 /\ (created["monitor"] = 1 \/ noMonitor)
      BY <2>0, <2>1 DEF Clients, Wanted
    <2> DEFINE new == WithClient(call[c], "given", created[call[c].want])
    <2>3. new \in Calls /\ new.at = "given" /\ new.want = call[c].want /\ new.client = 1
      <3>1. call[c] \in Calls /\ 1 \in Nat /\ "given" \in Places
        BY <1>0 DEF Places
      <3> QED BY ONLY <2>2, <3>1, CallWithClient
    <2>4. call' = [call EXCEPT ![c] = new] /\ call'[c] = new
      BY <1>0, <1>9 DEF histVars, Initialised, Given, WithClient
    <2> HIDE DEF new
    <2>5. CallOK(c)' /\ PartlyInitialised'
      BY <1>9, <2>0, <2>2, <2>3, <2>4 DEF histVars, Initialised, CallOK, PartlyInitialised
    <2> QED BY <1>0, <1>9, <2>0, <2>3, <2>4, <2>5, CallMoves DEF histVars, Initialised
  <1>10. ASSUME NEW c \in Callers, ReportGiven(c) PROVE Shared'
    <2> DEFINE new == [call[c] EXCEPT !.at = "using"]
    <2>1. /\ new \in Calls /\ new.at = "using" /\ new.want = call[c].want
          /\ new.client = call[c].client
      BY <1>0 DEF Calls
    <2>2. call' = [call EXCEPT ![c] = new] /\ call'[c] = new /\ call[c].at = "given"
      BY <1>0, <1>10 DEF histVars, ReportGiven, Goes
    <2>3. CallOK(c)'
      BY <1>10, <2>1, <2>2 DEF histVars, ReportGiven, CallOK, Shared
    <2>4. PartlyInitialised' /\ lock # c
      BY <1>10, <2>2 DEF histVars, ReportGiven, Shared, PartlyInitialised, CallsOK
    <2> HIDE DEF new
    <2> QED BY <1>0, <1>10, <2>1, <2>2, <2>3, <2>4, CallMoves DEF histVars, ReportGiven
  <1>11. CASE ResetCircuitBreaker \/ Tick \/ (\E ok \in BOOLEAN : Report(ok)) \/ UNCHANGED vars
    <2>1. UNCHANGED <<created, lock, call, histVars>>
      BY <1>11 DEF ResetCircuitBreaker, Tick, Report, vars
    <2> QED BY <2>1 DEF histVars, Shared, CallsOK, CallOK, NextKind, Provided, PartlyInitialised
  <1> QED BY <1>1, <1>2, <1>3, <1>4, <1>5, <1>6, <1>7, <1>8, <1>9, <1>10, <1>11
          DEF Next, Returns

-----------------------------------------------------------------------------
LEMMA NetworkInvariant == Spec => [](BreakerOK /\ Shared)
  <1>1. BreakerOK /\ Shared /\ [Next]_vars => (BreakerOK /\ Shared)'
    BY BreakerStep, SharedStep
  <1> QED BY NetworkInit, <1>1, PTL DEF Spec

\* The breaker's counters stay within their thresholds and the lock is held by
\* exactly the call that initialises.
THEOREM TypeCorrect == Spec => []TypeOK
  <1>1. BreakerOK /\ Shared => TypeOK
    BY DEF BreakerOK, Shared, CallsOK, TypeOK, Calls, Initialising
  <1> QED BY NetworkInvariant, <1>1, PTL

\* manager_network.go:120-171: nobody is ever given a client that is replaced by
\* another, however many initialisations start at once and wherever they fail.
THEOREM ClientIsShared == Spec => []EveryoneSharesTheClient
  <1>1. Shared => EveryoneSharesTheClient
    BY DEF Shared, CallOK, EveryoneSharesTheClient
  <1> QED BY NetworkInvariant, <1>1, PTL

\* manager_tx.go:228-230: a goroutine with a client misses the monitor only when
\* its factory gave none, while the network is being initialised, or after that
\* failed.
THEOREM MonitorMissesForAReason == Spec => []MonitorMissingForAReason
  <1>1. Shared => MonitorMissingForAReason
    BY DEF Shared, CallOK, PartlyInitialised, MonitorMissingForAReason
  <1> QED BY NetworkInvariant, <1>1, PTL

\* circuitbreaker.go:34-39: for every threshold, and whatever the order in which
\* concurrent requests report, the breaker opens only on FailureThreshold
\* failures in a row and closes only on SuccessThreshold successes in a row or a
\* reset; so every report is counted in exactly one run.
THEOREM BreakerFollowsStreaks == Spec => OpensAndClosesOnStreaks
  <1>1. BreakerOK /\ Streaks /\ [Next]_vars => (BreakerOK /\ Streaks)'
    BY BreakerStep, StreaksStep
  <1>2. Init => BreakerOK /\ Streaks
    BY NetworkInit, StreaksInit
  <1>3. BreakerOK /\ Streaks /\ [Next]_vars => [OnStreak]_vars
    BY StreaksStep
  <1>4. Spec => [][OnStreak]_vars
    BY <1>1, <1>2, <1>3, PTL DEF Spec
  <1> QED BY <1>4 DEF OpensAndClosesOnStreaks, OnStreak
=============================================================================
