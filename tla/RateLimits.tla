------------------------------ MODULE RateLimits ------------------------------
(***************************************************************************)
(* The rate limit of POST /v1/measurements for one client, an IP address   *)
(* or a user: src/src/lib/rate-limiter/rate-limiter-post.ts as called by   *)
(* MeasurementRunner.run, and the calls to the primary process that take   *)
(* the credits of a user: src/src/lib/ipc/.  Requests of the admin are not *)
(* limited and not modelled.                                               *)
(*                                                                         *)
(* A request takes as many points from the counter in Redis as it has      *)
(* probes.  If that exceeds the limit, a user pays with credits and gets   *)
(* the same number of points back; whoever cannot pay gets all of them     *)
(* back and is refused.  The counter expires with its window.              *)
(*                                                                         *)
(* A call to the primary process is a message, an answer, and a timer; a   *)
(* worker that gave up, or was restarted, ignores the answer, and the      *)
(* primary process does not know.  CreditsMaster models what the call does *)
(* there; here it is one step.                                             *)
(***************************************************************************)
EXTENDS Integers, FiniteSets, FiniteSetsExt

CONSTANTS Requests,   \* requests of the client
          Workers,    \* worker processes
          Limit,      \* points of a window
          Sizes,      \* numbers of probes a request asks for
          MaxCredits, \* bound on the credits the user has at first
          MaxDeposits, \* bound on the credits he receives
          MaxWindows, \* bound on the windows that end
          MaxFaults,  \* bound on the faults of a behaviour
          Nothing     \* no key, no attempt, no bound

ASSUME SizesAssumption == Sizes \subseteq Nat \ {0} /\ IsFiniteSet(Sizes) /\ Sizes # {}
ASSUME BoundsAssumption ==
  /\ Limit \in Nat /\ MaxCredits \in Nat /\ MaxDeposits \in Nat
  /\ MaxWindows \in Nat /\ MaxFaults \in Nat
ASSUME NothingAssumption == Nothing \notin Int

VARIABLES
  client,   \* "user" or "ip"
  counter,  \* the points taken in this window, or Nothing
  balance,  \* the credits of the user
  attempt,  \* failedCreditsAttempts of each worker: its entry for the user
  request,  \* control state and local variables of the requests
  call,     \* the call of each request to the primary process
  \* bookkeeping
  initially, \* the credits the user had at first
  free,     \* tests accepted in this window that nobody paid for
  late,     \* points given back in this window and taken in an earlier one
  paid,     \* credits taken for measurements that are created
  deposits, \* credits received so far
  gaveUp,   \* has a worker given up on a call?
  windows,  \* windows that ended
  faults    \* faults so far

books == <<initially, free, late, paid>>
bounds == <<deposits, gaveUp, windows, faults>>
vars == <<client, counter, balance, attempt, request, call, books, bounds>>

Answers == {"granted", "refused", "failed"}
Final == {"accepted", "refused", "failed"}
MaxSize == Max(Sizes)

New == [state |-> "new"]
Done(outcome) == [state |-> outcome]
NoCall == [state |-> "none"]

\* A request that took points, and has a call or a reward ahead of it.
Taking == [state : {"asking", "paying", "returning"}, worker : Workers,
           points : 1..MaxSize, required : 0..MaxSize, stale : BOOLEAN]

RequestState == {New} \cup [state : Final] \cup [state : {"finding"}, worker : Workers] \cup Taking

Called == [state : Answers, required : 1..MaxSize, deposits : 0..MaxDeposits]
CallState == {NoCall} \cup [state : {"sent"}, required : 1..MaxSize] \cup Called

Attempt == [required : 1..MaxSize, deposits : 0..MaxDeposits]

TypeOK ==
  /\ client \in {"user", "ip"}
  /\ counter \in Int \cup {Nothing}
  /\ balance \in 0..MaxCredits + MaxDeposits
  /\ attempt \in [Workers -> Attempt \cup {Nothing}]
  /\ request \in [Requests -> RequestState]
  /\ call \in [Requests -> CallState]
  /\ initially \in 0..MaxCredits
  /\ free \in Nat /\ late \in Nat /\ paid \in Nat
  /\ deposits \in 0..MaxDeposits
  /\ gaveUp \in BOOLEAN
  /\ windows \in 0..MaxWindows
  /\ faults \in 0..MaxFaults

Init ==
  /\ client \in {"user", "ip"}
  /\ counter = Nothing
  /\ balance \in 0..MaxCredits
  /\ initially = balance
  /\ attempt = [w \in Workers |-> Nothing]
  /\ request = [r \in Requests |-> New]
  /\ call = [r \in Requests |-> NoCall]
  /\ free = 0 /\ late = 0 /\ paid = 0
  /\ deposits = 0 /\ gaveUp = FALSE /\ windows = 0 /\ faults = 0

Fault == faults < MaxFaults /\ faults' = faults + 1

Become(r, state) == request' = [request EXCEPT ![r] = state]

\* The points taken so far; a command to a missing key creates it with 0.
Taken == IF counter = Nothing THEN 0 ELSE counter

-------------------------------------------------------------------------------
(* precheckPostMeasurementRateLimit *)

\* The last attempt to pay failed, and it was no dearer.
FailedBefore(w, required) ==
  IF attempt[w] = Nothing THEN FALSE ELSE required >= attempt[w].required

\* At most max probes are asked for; with the id of a measurement as the locations
\* there is no maximum.
Hopeless(w, max) ==
  IF max = Nothing \/ counter = Nothing THEN FALSE
  ELSE /\ Limit - Min({Taken, Limit}) < max
       /\ client = "user" => FailedBefore(w, max - (Limit - Min({Taken, Limit})))

Precheck(r, w, max) ==
  /\ request[r] = New
  /\ Become(r, IF Hopeless(w, max) THEN Done("refused")
               ELSE [state |-> "finding", worker |-> w])
  /\ UNCHANGED <<client, counter, balance, attempt, call, books, bounds>>

-------------------------------------------------------------------------------
(* checkPostMeasurementRateLimit *)

\* No probe matches, or the counter cannot be reached.
FindNoProbes(r) ==
  /\ request[r].state = "finding"
  /\ Become(r, Done("failed"))
  /\ UNCHANGED <<client, counter, balance, attempt, call, books, bounds>>

Within(r, n) ==
  /\ request[r].state = "finding"
  /\ Taken + n <= Limit
  /\ counter' = Taken + n
  /\ free' = free + n
  /\ Become(r, Done("accepted"))
  /\ UNCHANGED <<client, balance, attempt, call, initially, late, paid, bounds>>

\* The credits consumeCredits asks for, when the counter has become taken.
Required(taken, n) == Min({taken - Limit, n})

Exceed(r, n) ==
  LET taken == Taken + n
      w == request[r].worker
      refuse == client = "ip" \/ FailedBefore(w, Required(taken, n))
      taking(state, required) ==
        [state |-> state, worker |-> w, points |-> n, required |-> required, stale |-> FALSE]
  IN /\ request[r].state = "finding"
     /\ taken > Limit
     /\ counter' = taken
     /\ IF refuse
        THEN Become(r, taking("returning", 0)) /\ UNCHANGED call
        ELSE /\ Become(r, taking("asking", Required(taken, n)))
             /\ call' = [call EXCEPT ![r] = [state |-> "sent", required |-> Required(taken, n)]]
     /\ UNCHANGED <<client, balance, attempt, books, bounds>>

\* The command fails; it may have been executed all the same.
ConsumeFails(r) ==
  /\ Fault
  /\ request[r].state = "finding"
  /\ \E n \in Sizes \cup {0} : counter' = IF n = 0 THEN counter ELSE Taken + n
  /\ Become(r, Done("failed"))
  /\ UNCHANGED <<client, balance, attempt, call, books, deposits, gaveUp, windows>>

\* The primary process has refused; the worker remembers it for a minute.
Refused(r) ==
  /\ request[r].state = "asking" /\ call[r].state = "refused"
  /\ attempt' = [attempt EXCEPT ![request[r].worker] =
                   [required |-> call[r].required, deposits |-> call[r].deposits]]
  /\ Become(r, [request[r] EXCEPT !.state = "returning"])
  /\ call' = [call EXCEPT ![r] = NoCall]
  /\ UNCHANGED <<client, counter, balance, books, bounds>>

GrantedRefused(r) ==  \* mutant: isConsumed is read the wrong way round
  /\ request[r].state = "asking" /\ call[r].state = "granted"
  /\ Become(r, [request[r] EXCEPT !.state = "returning"])
  /\ call' = [call EXCEPT ![r] = NoCall]
  /\ UNCHANGED <<client, counter, balance, attempt, books, bounds>>

GrantedRemembered(r) ==  \* mutant: failedCreditsAttempts is set whatever the answer
  /\ request[r].state = "asking" /\ call[r].state = "granted"
  /\ attempt' = [attempt EXCEPT ![request[r].worker] =
                   [required |-> call[r].required, deposits |-> call[r].deposits]]
  /\ Become(r, [request[r] EXCEPT !.state = "paying"])
  /\ call' = [call EXCEPT ![r] = NoCall]
  /\ UNCHANGED <<client, counter, balance, books, bounds>>

Granted(r) ==
  /\ request[r].state = "asking" /\ call[r].state = "granted"
  /\ Become(r, [request[r] EXCEPT !.state = "paying"])
  /\ call' = [call EXCEPT ![r] = NoCall]
  /\ UNCHANGED <<client, counter, balance, attempt, books, bounds>>

\* The points of a request whose call failed are not given back.
CallFailed(r) ==
  /\ request[r].state = "asking" /\ call[r].state = "failed"
  /\ Become(r, Done("failed"))
  /\ call' = [call EXCEPT ![r] = NoCall]
  /\ UNCHANGED <<client, counter, balance, attempt, books, bounds>>

GiveBackTooMuch(r, points) == points + 1  \* mutant: one too many

GivenBack(r, points) == points

\* rateLimiter.reward
Reward(r, points) ==
  /\ counter' = Taken - GivenBack(r, points)
  /\ late' = IF request[r].stale THEN late + points ELSE late

\* What was paid for is given back, and the measurement is created.
RewardPaid(r) ==
  LET rest == request[r].points - request[r].required IN
  /\ request[r].state = "paying"
  /\ Reward(r, request[r].required)
  /\ paid' = paid + request[r].required
  /\ free' = IF request[r].stale THEN free ELSE free + rest
  /\ Become(r, Done("accepted"))
  /\ UNCHANGED <<client, balance, attempt, call, initially, bounds>>

RewardNothing(r) ==  \* mutant: a refused request keeps its points
  /\ request[r].state = "returning"
  /\ Become(r, Done("refused"))
  /\ UNCHANGED <<client, counter, balance, attempt, call, books, bounds>>

RewardRefused(r) ==
  /\ request[r].state = "returning"
  /\ Reward(r, request[r].points)
  /\ Become(r, Done("refused"))
  /\ UNCHANGED <<client, balance, attempt, call, initially, free, paid, bounds>>

\* The command fails, executed or not: the request does, whether it was paid or not.
RewardFails(r) ==
  /\ Fault
  /\ request[r].state \in {"paying", "returning"}
  /\ \/ UNCHANGED <<counter, late>>
     \/ Reward(r, IF request[r].state = "paying" THEN request[r].required
                  ELSE request[r].points)
  /\ Become(r, Done("failed"))
  /\ UNCHANGED <<client, balance, attempt, call, initially, free, paid, deposits, gaveUp, windows>>

-------------------------------------------------------------------------------
(* The call to the primary process *)

\* handleMessage: the credits are taken if there are enough.
Handle(r) ==
  LET granted == balance >= call[r].required IN
  /\ call[r].state = "sent"
  /\ balance' = IF granted THEN balance - call[r].required ELSE balance
  /\ call' = [call EXCEPT ![r] =
                [state |-> IF granted THEN "granted" ELSE "refused",
                 required |-> call[r].required, deposits |-> deposits]]
  /\ UNCHANGED <<client, counter, attempt, request, books, bounds>>

\* The database or the message fails, before or after the credits were taken.
HandleFails(r) ==
  /\ Fault
  /\ call[r].state = "sent"
  /\ \/ UNCHANGED balance
     \/ balance >= call[r].required /\ balance' = balance - call[r].required
  /\ call' = [call EXCEPT ![r] =
                [state |-> "failed", required |-> call[r].required, deposits |-> deposits]]
  /\ UNCHANGED <<client, counter, attempt, request, books, deposits, gaveUp, windows>>

TimeOutNever(r) == FALSE /\ UNCHANGED vars  \* mutant: the timer is not set

\* No answer within IPC_TIMEOUT; the call goes on.
TimeOut(r) ==
  /\ request[r].state = "asking"
  /\ Become(r, Done("failed"))
  /\ gaveUp' = TRUE
  /\ UNCHANGED <<client, counter, balance, attempt, call, books, deposits, windows, faults>>

\* Nobody waits for the answer any more.
IgnoreAnswer(r) ==
  /\ request[r].state # "asking" /\ call[r].state \in Answers
  /\ call' = [call EXCEPT ![r] = NoCall]
  /\ UNCHANGED <<client, counter, balance, attempt, request, books, bounds>>

\* A worker exits with its requests and its memory, and is replaced.
Restart(w) ==
  /\ Fault
  /\ attempt' = [attempt EXCEPT ![w] = Nothing]
  /\ request' = [r \in Requests |->
       IF request[r].state \in Final \cup {"new"} THEN request[r]
       ELSE IF request[r].worker = w THEN Done("failed") ELSE request[r]]
  /\ UNCHANGED <<client, counter, balance, call, books, deposits, gaveUp, windows>>

-------------------------------------------------------------------------------
(* Time and the dashboard *)

\* The key of the counter expires.
EndWindow ==
  /\ windows < MaxWindows /\ windows' = windows + 1
  /\ counter # Nothing
  /\ counter' = Nothing
  /\ free' = 0 /\ late' = 0
  /\ request' = [r \in Requests |->
       IF request[r].state \in {"asking", "paying", "returning"}
       THEN [request[r] EXCEPT !.stale = TRUE] ELSE request[r]]
  /\ UNCHANGED <<client, balance, attempt, call, initially, paid, deposits, gaveUp, faults>>

\* The entry of failedCreditsAttempts is a minute old.
ForgetAttempt(w) ==
  /\ attempt[w] # Nothing
  /\ attempt' = [attempt EXCEPT ![w] = Nothing]
  /\ UNCHANGED <<client, counter, balance, request, call, books, bounds>>

Deposit ==
  /\ deposits < MaxDeposits /\ deposits' = deposits + 1
  /\ balance' = balance + 1
  /\ UNCHANGED <<client, counter, attempt, request, call, books, gaveUp, windows, faults>>

-------------------------------------------------------------------------------

RequestStep(r) ==
  \/ \E w \in Workers, max \in Sizes \cup {Nothing} : Precheck(r, w, max)
  \/ \E n \in Sizes : Within(r, n) \/ Exceed(r, n)
  \/ FindNoProbes(r) \/ ConsumeFails(r)
  \/ Refused(r) \/ Granted(r) \/ CallFailed(r) \/ TimeOut(r)
  \/ RewardPaid(r) \/ RewardRefused(r) \/ RewardFails(r)

CallStep(r) == Handle(r) \/ HandleFails(r) \/ IgnoreAnswer(r)

Next == \/ \E r \in Requests : RequestStep(r) \/ CallStep(r)
        \/ \E w \in Workers : Restart(w) \/ ForgetAttempt(w)
        \/ EndWindow \/ Deposit

Spec == Init /\ [][Next]_vars

\* A worker goes on with its requests and its timers run; the primary process may
\* be as slow as it likes.
FairSpec == Spec /\ \A r \in Requests : WF_vars(RequestStep(r))

-------------------------------------------------------------------------------
(* Properties *)

\* In every window the client gets at most Limit tests for nothing, and those that
\* points given back too late add, however requests, answers and windows overlap.
Promise == INSTANCE FreeLimit WITH allowance <- Limit + late, MaxTests <- MaxSize
FreeLimitIsKept == Promise!Spec

\* The points of this window that requests have taken and may get back, one by one.
Holds(v) == v.state \in {"asking", "paying", "returning"} /\ ~v.stale
HeldBy(r, v) == {r} \X (IF Holds(v) THEN 1..v.points ELSE {})
Held == UNION {HeldBy(r, request[r]) : r \in Requests}

\* Unless a worker gave up on a call or something failed, the points of refused
\* requests, and those that were paid for, come back: the counter holds the free tests
\* of its window and what is in flight, less what came back late.
RefusalsTakeNoPoints ==
  ~gaveUp /\ faults = 0 => Taken = free - late + Cardinality(Held)

\* The credits that were taken for requests on their way, one by one.
DueBy(r, v, c) ==
  {r} \X (CASE v.state = "paying" -> 1..v.required
             [] v.state = "asking" /\ c.state = "granted" -> 1..c.required
             [] OTHER -> {})
Due == UNION {DueBy(r, request[r], call[r]) : r \in Requests}

\* Unless a worker gave up on a call or something failed, credits are taken for
\* measurements that are created, or about to be, and for nothing else.
CreditsBuyTests ==
  ~gaveUp /\ faults = 0 => balance + paid + Cardinality(Due) = initially + deposits

\* A worker refuses without asking only what the primary process would refuse too, until
\* the user receives credits.
RememberedRefusalsAreRight ==
  TypeOK /\ \A w \in Workers :
    (IF attempt[w] = Nothing THEN FALSE ELSE attempt[w].deposits = deposits)
      => balance < attempt[w].required

\* Every request is answered, even if the primary process never answers.
EveryRequestIsAnswered == \A r \in Requests : <>(request[r].state \in Final)
===============================================================================
