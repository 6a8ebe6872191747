--------------------------- MODULE RateLimitsProofs ---------------------------
(***************************************************************************)
(* Proofs about RateLimits, for any requests, workers, sizes and limit, any *)
(* number of credits, deposits and windows, and any number of faults.      *)
(***************************************************************************)
EXTENDS RateLimits, FiniteSetTheorems, TLAPS

\* What is asked for is a part of what was taken.
Payable(v) == v.state \in {"asking", "paying"} => v.required \in 1..v.points
PayInv == \A r \in Requests : Payable(request[r])

\* Credits come from deposits only.
BalanceInv == balance <= MaxCredits + deposits

\* A refusal, on its way or remembered, stands until the next deposit.
Stands(refusal) ==
  /\ refusal.deposits <= deposits
  /\ refusal.deposits = deposits => balance < refusal.required

RefusalInv ==
  /\ \A r \in Requests : call[r].state = "refused" => Stands(call[r])
  /\ \A w \in Workers : attempt[w] # Nothing => Stands(attempt[w])

-------------------------------------------------------------------------------
(* Greatest and least numbers *)

\* A finite set of numbers that has an element has a greatest one.
LEMMA GreatestExists ==
  ASSUME NEW S, S \subseteq Int, IsFiniteSet(S), S # {}
  PROVE  \E m \in S : \A n \in S : m >= n
<1> DEFINE Unbounded == {U \in FiniteSubsetsOf(S) : U # {} /\ ~\E m \in U : \A n \in U : m >= n}
<1>1. SUFFICES ASSUME Unbounded # {} PROVE FALSE
  <2>1. S \in FiniteSubsetsOf(S)
    BY DEF FiniteSubsetsOf
  <2>2. QED
    BY <2>1
<1>2. PICK U \in Unbounded : \A V \in Unbounded : <<V, U>> \notin StrictSubsetOrdering(S)
  <2>1. Unbounded \subseteq FiniteSubsetsOf(S)
    OBVIOUS
  <2> HIDE DEF Unbounded
  <2>2. QED
    BY <1>1, <2>1, FS_StrictSubsetOrderingWellFounded, WFMin
<1>3. PICK x \in U : TRUE
  OBVIOUS
<1>4. U \ {x} \in FiniteSubsetsOf(S) /\ <<U \ {x}, U>> \in StrictSubsetOrdering(S)
  <2>1. U \subseteq S /\ IsFiniteSet(U)
    BY DEF FiniteSubsetsOf
  <2>2. IsFiniteSet(U \ {x})
    BY <2>1, FS_RemoveElement
  <2>3. QED
    BY <1>3, <2>1, <2>2 DEF FiniteSubsetsOf, StrictSubsetOrdering
<1>5. U \subseteq Int
  BY DEF FiniteSubsetsOf
<1>6. CASE U \ {x} = {}
  BY <1>3, <1>5, <1>6
<1>7. CASE U \ {x} # {}
  <2>1. PICK m \in U \ {x} : \A n \in U \ {x} : m >= n
    BY <1>2, <1>4, <1>7
  <2>2. (\A n \in U : m >= n) \/ (\A n \in U : x >= n)
    BY <1>3, <1>5, <2>1
  <2>3. QED
    BY <1>3, <2>1, <2>2
<1>8. QED
  BY <1>6, <1>7

\* No request asks for more probes than MaxSize.
LEMMA MaxSizeBounds ==
  ASSUME NEW n \in Sizes
  PROVE  n \in 1..MaxSize /\ MaxSize \in Nat
<1>1. Sizes \subseteq Int /\ Sizes # {}
  BY SizesAssumption
<1>2. \E m \in Sizes : \A k \in Sizes : m >= k
  BY <1>1, SizesAssumption, GreatestExists
<1>3. MaxSize \in Sizes /\ MaxSize >= n
  BY <1>2 DEF MaxSize, Max
<1>4. QED
  BY <1>3, SizesAssumption

\* The lesser of two numbers.
LEMMA LesserOf ==
  ASSUME NEW a \in Int, NEW b \in Int
  PROVE  Min({a, b}) = IF a <= b THEN a ELSE b
<1>1. \E m \in {a, b} : \A n \in {a, b} : m <= n
  OBVIOUS
<1>2. Min({a, b}) \in {a, b} /\ \A n \in {a, b} : Min({a, b}) <= n
  BY <1>1 DEF Min
<1>3. QED
  BY <1>2

-------------------------------------------------------------------------------
(* The records of the model *)

\* What each control state of a request carries.
LEMMA RequestFields ==
  ASSUME NEW v \in RequestState
  PROVE  /\ v.state \in {"new", "finding", "asking", "paying", "returning"} \cup Final
         /\ v.state \in {"asking", "paying", "returning"} <=> v \in Taking
         /\ v.state = "finding" => v.worker \in Workers
BY DEF RequestState, Taking, New, Final

\* What each control state of a call carries.
LEMMA CallFields ==
  ASSUME NEW v \in CallState
  PROVE  /\ v.state \in {"none", "sent"} \cup Answers
         /\ v.state = "sent" => v.required \in 1..MaxSize
         /\ v.state \in Answers => v.required \in 1..MaxSize /\ v.deposits \in 0..MaxDeposits
BY DEF CallState, Called, NoCall, Answers

\* What a request that took points carries.
LEMMA TakingFields ==
  ASSUME NEW v \in Taking
  PROVE  /\ v.worker \in Workers /\ v.points \in 1..MaxSize /\ v.required \in 0..MaxSize
         /\ v.stale \in BOOLEAN
         /\ v.points \in Nat \ {0} /\ v.required \in Nat
<1>1. /\ v.worker \in Workers /\ v.points \in 1..MaxSize /\ v.required \in 0..MaxSize
      /\ v.stale \in BOOLEAN
  BY DEF Taking
<1>2. QED
  BY <1>1

\* It keeps its points while its control state changes.
LEMMA TakingBecomes ==
  ASSUME NEW v \in Taking, NEW s \in {"asking", "paying", "returning"}
  PROVE  LET u == [v EXCEPT !.state = s]
         IN  u \in Taking /\ u.state = s /\ u.points = v.points /\ u.required = v.required /\ u.stale = v.stale
BY DEF Taking

\* It keeps them when it becomes stale.
LEMMA TakingStale ==
  ASSUME NEW v \in Taking
  PROVE  LET u == [v EXCEPT !.stale = TRUE]
         IN  u \in Taking /\ u.state = v.state /\ u.points = v.points /\ u.required = v.required /\ u.stale = TRUE
BY DEF Taking

\* The control states that carry nothing.
LEMMA PlainStates ==
  /\ New \in RequestState /\ Payable(New)
  /\ \A s \in Final : Done(s) \in RequestState /\ Payable(Done(s)) /\ Done(s).state = s
  /\ \A w \in Workers : LET v == [state |-> "finding", worker |-> w] IN v \in RequestState /\ Payable(v)
  /\ NoCall \in CallState /\ NoCall.state = "none"
BY DEF New, Done, NoCall, RequestState, CallState, Payable, Final

\* A request that takes another control state leaves the others in theirs.
LEMMA BecomeType ==
  ASSUME request \in [Requests -> RequestState], PayInv,
         NEW r \in Requests, NEW v \in RequestState, Payable(v), Become(r, v)
  PROVE  request' \in [Requests -> RequestState] /\ PayInv'
BY DEF Become, PayInv

\* What the limiter asks for when a request takes n points beyond the limit.
LEMMA RequiredBounds ==
  ASSUME NEW n \in Sizes, NEW before \in Int, before + n > Limit
  PROVE  /\ n \in 1..MaxSize
         /\ Required(before + n, n) = IF before < Limit THEN before + n - Limit ELSE n
         /\ Required(before + n, n) \in 1..n
<1>1. n \in 1..MaxSize /\ MaxSize \in Nat /\ n \in Nat /\ n > 0 /\ n <= MaxSize
  BY MaxSizeBounds
<1>2. Limit \in Nat
  BY BoundsAssumption
<1>3. Required(before + n, n) = IF before + n - Limit <= n THEN before + n - Limit ELSE n
  BY <1>1, <1>2, LesserOf DEF Required
<1>4. QED
  BY <1>1, <1>2, <1>3

-------------------------------------------------------------------------------
(* Types *)

\* Whatever has been deposited, the balance stays within what may ever be.
LEMMA WithinBound ==
  ASSUME NEW a \in Nat, NEW m \in Nat, NEW d \in Nat, d <= m, NEW b \in 0..a + d
  PROVE  b \in 0..a + m /\ b <= a + d
OBVIOUS

\* The numbers every step reads.
LEMMA Numbers ==
  ASSUME TypeOK
  PROVE  /\ Taken \in Int /\ balance \in Nat /\ free \in Nat /\ late \in Nat /\ paid \in Nat
         /\ deposits \in Nat /\ deposits <= MaxDeposits
         /\ Limit \in Nat /\ MaxCredits \in Nat /\ MaxDeposits \in Nat
         /\ MaxWindows \in Nat /\ MaxFaults \in Nat
         /\ \A n \in Sizes : n \in Nat \ {0}
BY BoundsAssumption, SizesAssumption DEF TypeOK, Taken

\* Every step keeps the types.
LEMMA TypeStep == TypeOK /\ PayInv /\ BalanceInv /\ [Next]_vars => (TypeOK /\ PayInv /\ BalanceInv)'
<1> SUFFICES ASSUME TypeOK, PayInv, BalanceInv, [Next]_vars
             PROVE  TypeOK' /\ PayInv' /\ BalanceInv'
  OBVIOUS
<1>a. /\ client \in {"user", "ip"} /\ counter \in Int \cup {Nothing}
      /\ balance \in 0..MaxCredits + MaxDeposits
      /\ attempt \in [Workers -> Attempt \cup {Nothing}]
      /\ request \in [Requests -> RequestState] /\ call \in [Requests -> CallState]
      /\ initially \in 0..MaxCredits /\ free \in Nat /\ late \in Nat /\ paid \in Nat
      /\ deposits \in 0..MaxDeposits /\ gaveUp \in BOOLEAN
      /\ windows \in 0..MaxWindows /\ faults \in 0..MaxFaults
  BY DEF TypeOK
<1>b. /\ Taken \in Int /\ balance \in Nat /\ deposits \in Nat
      /\ Limit \in Nat /\ MaxCredits \in Nat /\ MaxDeposits \in Nat
      /\ MaxWindows \in Nat /\ MaxFaults \in Nat
      /\ \A n \in Sizes : n \in Nat \ {0}
  BY Numbers
<1>c. ASSUME NEW r \in Requests
      PROVE  /\ request[r] \in RequestState /\ Payable(request[r]) /\ call[r] \in CallState
             /\ request[r].state \in {"asking", "paying", "returning"} <=> request[r] \in Taking
             /\ request[r].state = "finding" => request[r].worker \in Workers
  BY <1>a, RequestFields DEF PayInv
\* A step of the limiter: the counter and the books move, the credits do not.
<1>d. ASSUME UNCHANGED <<client, balance, attempt, initially, deposits, windows>>,
             counter' \in Int \cup {Nothing}, free' \in Nat, late' \in Nat, paid' \in Nat,
             request' \in [Requests -> RequestState], PayInv', call' \in [Requests -> CallState],
             gaveUp' \in BOOLEAN, faults' \in 0..MaxFaults
      PROVE  TypeOK' /\ PayInv' /\ BalanceInv'
  BY <1>d, <1>a DEF TypeOK, BalanceInv
\* A step that leaves the requests alone.
<1>e. ASSUME UNCHANGED <<client, counter, request, books, gaveUp, windows>>,
             balance' \in 0..MaxCredits + deposits', deposits' \in 0..MaxDeposits,
             attempt' \in [Workers -> Attempt \cup {Nothing}],
             call' \in [Requests -> CallState], faults' \in 0..MaxFaults
      PROVE  TypeOK' /\ PayInv' /\ BalanceInv'
  <2>0. deposits' \in Nat /\ deposits' <= MaxDeposits /\ balance' \in 0..MaxCredits + deposits'
    <3>1. deposits' \in 0..MaxDeposits /\ balance' \in 0..MaxCredits + deposits'
      BY <1>e
    <3>2. MaxDeposits \in Nat
      BY <1>b
    <3>3. QED
      BY <3>1, <3>2
  <2>1. balance' \in 0..MaxCredits + MaxDeposits /\ balance' <= MaxCredits + deposits'
    BY <2>0, <1>b, WithinBound
  <2>2. TypeOK'
    BY <1>e, <1>a, <2>1 DEF TypeOK, books
  <2>3. PayInv'
    BY <1>e DEF PayInv
  <2>4. BalanceInv'
    BY <2>1 DEF BalanceInv
  <2>5. QED
    BY <2>2, <2>3, <2>4
\* A request ends, or begins to look for probes.
<1>f. ASSUME NEW r \in Requests, NEW v, v \in {Done(s) : s \in Final}, Become(r, v)
      PROVE  request' \in [Requests -> RequestState] /\ PayInv'
  BY <1>f, <1>a, PlainStates, BecomeType
<1>g. ASSUME Fault PROVE faults' \in 0..MaxFaults
  BY <1>g, <1>a, <1>b DEF Fault
<1>h. ASSUME NEW r \in Requests, NEW points \in Nat, Reward(r, points)
      PROVE  counter' \in Int \cup {Nothing} /\ late' \in Nat
  BY <1>h, <1>a, <1>b DEF Reward, GivenBack
<1>1. ASSUME NEW r \in Requests, NEW w \in Workers, NEW max \in Sizes \cup {Nothing}, Precheck(r, w, max)
      PROVE  TypeOK' /\ PayInv' /\ BalanceInv'
  <2>1. request' \in [Requests -> RequestState] /\ PayInv'
    <3>1. CASE Hopeless(w, max)
      BY <1>1, <1>f, <3>1 DEF Precheck, Final
    <3>2. CASE ~Hopeless(w, max)
      BY <1>1, <1>a, <3>2, PlainStates, BecomeType DEF Precheck
    <3>3. QED
      BY <3>1, <3>2
  <2>2. QED
    BY <1>1, <1>a, <1>d, <2>1 DEF Precheck, books, bounds
<1>2. ASSUME NEW r \in Requests, FindNoProbes(r) PROVE TypeOK' /\ PayInv' /\ BalanceInv'
  BY <1>2, <1>a, <1>d, <1>f DEF FindNoProbes, books, bounds, Final
<1>3. ASSUME NEW r \in Requests, NEW n \in Sizes, Within(r, n) PROVE TypeOK' /\ PayInv' /\ BalanceInv'
  BY <1>3, <1>a, <1>b, <1>d, <1>f DEF Within, bounds, Final
<1>4. ASSUME NEW r \in Requests, NEW n \in Sizes, Exceed(r, n) PROVE TypeOK' /\ PayInv' /\ BalanceInv'
  <2> DEFINE required == Required(Taken + n, n)
             taking(state, m) == [state |-> state, worker |-> request[r].worker, points |-> n,
                                  required |-> m, stale |-> FALSE]
  <2>1. n \in 1..MaxSize /\ required \in 1..n /\ required \in 1..MaxSize /\ 0 \in 0..MaxSize
    BY <1>4, <1>b, RequiredBounds, MaxSizeBounds DEF Exceed
  <2>2. request[r].worker \in Workers
    BY <1>4, <1>c DEF Exceed
  <2>3. /\ taking("returning", 0) \in RequestState /\ Payable(taking("returning", 0))
        /\ taking("asking", required) \in RequestState /\ Payable(taking("asking", required))
    BY <2>1, <2>2 DEF RequestState, Taking, Payable
  <2>4. [state |-> "sent", required |-> required] \in CallState
    BY <2>1 DEF CallState
  <2>5. /\ counter' = Taken + n /\ UNCHANGED <<client, balance, attempt, books, bounds>>
        /\ \/ Become(r, taking("returning", 0)) /\ UNCHANGED call
           \/ /\ Become(r, taking("asking", required))
              /\ call' = [call EXCEPT ![r] = [state |-> "sent", required |-> required]]
    BY <1>4 DEF Exceed
  <2>6. request' \in [Requests -> RequestState] /\ PayInv'
    <3> HIDE DEF taking, required
    <3>1. QED
      BY <1>a, <2>3, <2>5, BecomeType
  <2>7. call' \in [Requests -> CallState]
    BY <1>a, <2>4, <2>5
  <2>8. QED
    BY <1>a, <1>b, <1>d, <2>5, <2>6, <2>7 DEF books, bounds
<1>5. ASSUME NEW r \in Requests, ConsumeFails(r) PROVE TypeOK' /\ PayInv' /\ BalanceInv'
  <2>1. counter' \in Int \cup {Nothing}
    BY <1>5, <1>a, <1>b DEF ConsumeFails
  <2>2. QED
    BY <1>5, <1>a, <1>d, <1>f, <1>g, <2>1 DEF ConsumeFails, books, Final
<1>6. ASSUME NEW r \in Requests, Refused(r) PROVE TypeOK' /\ PayInv' /\ BalanceInv'
  <2>1. request[r] \in Taking /\ call[r].state = "refused"
    BY <1>6, <1>c DEF Refused
  <2>2. [required |-> call[r].required, deposits |-> call[r].deposits] \in Attempt
    BY <1>c, <2>1, CallFields DEF Attempt, Answers
  <2>3. attempt' \in [Workers -> Attempt \cup {Nothing}]
    BY <1>6, <1>a, <2>2 DEF Refused
  <2>4. request' \in [Requests -> RequestState] /\ PayInv'
    BY <1>6, <1>a, <2>1, TakingBecomes, BecomeType DEF Refused, RequestState, Payable
  <2>5. call' \in [Requests -> CallState]
    BY <1>6, <1>a, PlainStates DEF Refused
  <2>6. QED
    BY <1>6, <1>a, <2>3, <2>4, <2>5 DEF Refused, TypeOK, BalanceInv, books, bounds
<1>7. ASSUME NEW r \in Requests, Granted(r) PROVE TypeOK' /\ PayInv' /\ BalanceInv'
  <2>1. request[r] \in Taking /\ Payable(request[r]) /\ request[r].state = "asking"
    BY <1>7, <1>c DEF Granted
  <2>2. request' \in [Requests -> RequestState] /\ PayInv'
    BY <1>7, <1>a, <2>1, TakingBecomes, BecomeType DEF Granted, RequestState, Payable
  <2>3. call' \in [Requests -> CallState]
    BY <1>7, <1>a, PlainStates DEF Granted
  <2>4. QED
    BY <1>7, <1>a, <1>d, <2>2, <2>3 DEF Granted, books, bounds
<1>8. ASSUME NEW r \in Requests, CallFailed(r) PROVE TypeOK' /\ PayInv' /\ BalanceInv'
  <2>1. call' \in [Requests -> CallState]
    BY <1>8, <1>a, PlainStates DEF CallFailed
  <2>2. QED
    BY <1>8, <1>a, <1>d, <1>f, <2>1 DEF CallFailed, books, bounds, Final
<1>9. ASSUME NEW r \in Requests, TimeOut(r) PROVE TypeOK' /\ PayInv' /\ BalanceInv'
  BY <1>9, <1>a, <1>d, <1>f DEF TimeOut, books, Final
<1>10. ASSUME NEW r \in Requests, RewardPaid(r) PROVE TypeOK' /\ PayInv' /\ BalanceInv'
  <2>1. request[r] \in Taking /\ request[r].required \in 1..request[r].points
    BY <1>10, <1>c DEF RewardPaid, Payable
  <2>2. /\ request[r].required \in Nat /\ request[r].points \in Nat
        /\ request[r].points - request[r].required \in Nat
    <3>1. request[r].required \in Nat /\ request[r].points \in Nat
      BY <2>1, TakingFields
    <3>2. QED
      BY <2>1, <3>1
  <2>3. counter' \in Int \cup {Nothing} /\ late' \in Nat /\ free' \in Nat /\ paid' \in Nat
    BY <1>10, <1>a, <1>h, <2>2 DEF RewardPaid
  <2>4. QED
    BY <1>10, <1>a, <1>d, <1>f, <2>3 DEF RewardPaid, bounds, Final
<1>11. ASSUME NEW r \in Requests, RewardRefused(r) PROVE TypeOK' /\ PayInv' /\ BalanceInv'
  <2>1. request[r].points \in Nat
    BY <1>11, <1>c, TakingFields DEF RewardRefused
  <2>2. QED
    BY <1>11, <1>a, <1>d, <1>f, <1>h, <2>1 DEF RewardRefused, bounds, Final
<1>12. ASSUME NEW r \in Requests, RewardFails(r) PROVE TypeOK' /\ PayInv' /\ BalanceInv'
  <2>1. request[r].points \in Nat /\ request[r].required \in Nat
    BY <1>12, <1>c, TakingFields DEF RewardFails
  <2>2. counter' \in Int \cup {Nothing} /\ late' \in Nat
    BY <1>12, <1>a, <1>h, <2>1 DEF RewardFails
  <2>3. QED
    BY <1>12, <1>a, <1>d, <1>f, <1>g, <2>2 DEF RewardFails, Final
<1>13. ASSUME NEW r \in Requests, Handle(r) PROVE TypeOK' /\ PayInv' /\ BalanceInv'
  <2>1. call[r].required \in 1..MaxSize /\ call[r].required \in Nat
    BY <1>13, <1>c, CallFields DEF Handle
  <2>2. balance' \in 0..MaxCredits + deposits
    BY <1>13, <1>a, <1>b, <2>1 DEF Handle, BalanceInv
  <2>3. \A s \in Answers :
          [state |-> s, required |-> call[r].required, deposits |-> deposits] \in CallState
    BY <1>a, <2>1 DEF CallState, Called
  <2>4. call' \in [Requests -> CallState]
    BY <1>13, <1>a, <2>3 DEF Handle, Answers
  <2>5. QED
    BY <1>13, <1>a, <1>e, <2>2, <2>4 DEF Handle, bounds
<1>14. ASSUME NEW r \in Requests, HandleFails(r) PROVE TypeOK' /\ PayInv' /\ BalanceInv'
  <2>1. call[r].required \in 1..MaxSize /\ call[r].required \in Nat
    BY <1>14, <1>c, CallFields DEF HandleFails
  <2>2. balance' \in 0..MaxCredits + deposits
    BY <1>14, <1>a, <1>b, <2>1 DEF HandleFails, BalanceInv
  <2>3. [state |-> "failed", required |-> call[r].required, deposits |-> deposits] \in CallState
    BY <1>a, <2>1 DEF CallState, Called, Answers
  <2>4. call' \in [Requests -> CallState]
    BY <1>14, <1>a, <2>3 DEF HandleFails
  <2>5. QED
    BY <1>14, <1>a, <1>e, <1>g, <2>2, <2>4 DEF HandleFails
<1>15. ASSUME NEW r \in Requests, IgnoreAnswer(r) PROVE TypeOK' /\ PayInv' /\ BalanceInv'
  <2>1. call' \in [Requests -> CallState]
    BY <1>15, <1>a, PlainStates DEF IgnoreAnswer
  <2>2. QED
    BY <1>15, <1>a, <1>d, <2>1 DEF IgnoreAnswer, PayInv, books, bounds
<1>16. ASSUME NEW w \in Workers, Restart(w) PROVE TypeOK' /\ PayInv' /\ BalanceInv'
  <2>1. attempt' \in [Workers -> Attempt \cup {Nothing}]
    BY <1>16, <1>a DEF Restart
  <2>2. \A r \in Requests : request'[r] = request[r] \/ request'[r] = Done("failed")
    BY <1>16 DEF Restart
  <2>3. request' \in [Requests -> RequestState]
    <3>1. \A r \in Requests : request'[r] \in RequestState
      BY <1>c, <2>2, PlainStates DEF Final
    <3>2. request' = [r \in Requests |-> request'[r]]
      BY <1>16 DEF Restart
    <3>3. QED
      BY <3>1, <3>2
  <2>4. PayInv'
    BY <1>c, <2>2, PlainStates DEF PayInv, Final
  <2>5. QED
    BY <1>16, <1>a, <1>g, <2>1, <2>3, <2>4 DEF Restart, TypeOK, BalanceInv, books
<1>17. ASSUME EndWindow PROVE TypeOK' /\ PayInv' /\ BalanceInv'
  <2>1. ASSUME NEW r \in Requests PROVE request'[r] \in RequestState /\ Payable(request'[r])
    <3>1. CASE request[r].state \in {"asking", "paying", "returning"}
      <4>1. request[r] \in Taking /\ request'[r] = [request[r] EXCEPT !.stale = TRUE]
        BY <1>17, <1>c, <3>1 DEF EndWindow
      <4>2. /\ request'[r] \in Taking /\ request'[r].state = request[r].state
            /\ request'[r].points = request[r].points /\ request'[r].required = request[r].required
        BY <4>1, TakingStale
      <4>3. QED
        BY <1>c, <4>2 DEF RequestState, Payable
    <3>2. CASE request[r].state \notin {"asking", "paying", "returning"}
      BY <1>17, <1>c, <3>2 DEF EndWindow
    <3>3. QED
      BY <3>1, <3>2
  <2>2. request' = [r \in Requests |-> request'[r]]
    BY <1>17 DEF EndWindow
  <2>3. request' \in [Requests -> RequestState] /\ PayInv'
    BY <2>1, <2>2 DEF PayInv
  <2>4. windows' \in 0..MaxWindows
    BY <1>17, <1>a, <1>b DEF EndWindow
  <2>5. QED
    BY <1>17, <1>a, <2>3, <2>4 DEF EndWindow, TypeOK, BalanceInv
<1>18. ASSUME NEW w \in Workers, ForgetAttempt(w) PROVE TypeOK' /\ PayInv' /\ BalanceInv'
  BY <1>18, <1>a DEF ForgetAttempt, TypeOK, PayInv, BalanceInv, books, bounds
<1>19. ASSUME Deposit PROVE TypeOK' /\ PayInv' /\ BalanceInv'
  <2>1. deposits' \in 0..MaxDeposits /\ balance' \in 0..MaxCredits + deposits'
    BY <1>19, <1>a, <1>b DEF Deposit, BalanceInv
  <2>2. QED
    BY <1>19, <1>a, <1>e, <2>1 DEF Deposit
<1>20. ASSUME UNCHANGED vars PROVE TypeOK' /\ PayInv' /\ BalanceInv'
  BY <1>20 DEF vars, books, bounds, TypeOK, PayInv, BalanceInv
<1>21. QED
  BY <1>1, <1>2, <1>3, <1>4, <1>5, <1>6, <1>7, <1>8, <1>9, <1>10, <1>11, <1>12, <1>13, <1>14,
     <1>15, <1>16, <1>17, <1>18, <1>19, <1>20 DEF Next, RequestStep, CallStep

\* Every step keeps what makes refusals right.
LEMMA RefusalStep ==
  TypeOK /\ RefusalInv /\ [Next]_vars => RefusalInv'
<1> SUFFICES ASSUME TypeOK, RefusalInv, [Next]_vars PROVE RefusalInv'
  OBVIOUS
<1>a. /\ attempt \in [Workers -> Attempt \cup {Nothing}]
      /\ request \in [Requests -> RequestState] /\ call \in [Requests -> CallState]
      /\ balance \in Nat /\ deposits \in Nat
  BY Numbers DEF TypeOK
<1>b. ASSUME NEW r \in Requests
      PROVE  /\ call[r].state = "refused" => Stands(call[r]) /\ call[r].deposits \in Nat
             /\ call[r].state \in {"sent"} \cup Answers => call[r].required \in Nat
             /\ request[r].state \in {"asking", "paying", "returning"} => request[r].worker \in Workers
  <2>1. call[r] \in CallState /\ request[r] \in RequestState
    BY <1>a
  <2>2. /\ call[r].state \in {"sent"} \cup Answers => call[r].required \in 1..MaxSize
        /\ call[r].state = "refused" => call[r].deposits \in 0..MaxDeposits
    BY <2>1, CallFields DEF Answers
  <2>3. request[r].state \in {"asking", "paying", "returning"} => request[r].worker \in Workers
    BY <2>1, RequestFields, TakingFields
  <2>4. QED
    BY <2>2, <2>3 DEF RefusalInv
<1>c. ASSUME NEW w \in Workers, attempt[w] # Nothing
      PROVE  Stands(attempt[w]) /\ attempt[w].required \in Nat /\ attempt[w].deposits \in Nat
  <2>1. attempt[w] \in Attempt
    BY <1>a, <1>c
  <2>2. attempt[w].required \in 1..MaxSize /\ attempt[w].deposits \in 0..MaxDeposits
    BY <2>1 DEF Attempt
  <2>3. QED
    BY <1>c, <2>2 DEF RefusalInv
\* While no credits come in, what stands keeps standing.
<1>d. ASSUME deposits' = deposits, balance' \in Nat, balance' <= balance,
             NEW refusal, Stands(refusal), refusal.required \in Nat, refusal.deposits \in Nat
      PROVE  /\ refusal.deposits <= deposits'
             /\ refusal.deposits = deposits' => balance' < refusal.required
  BY <1>d, <1>a DEF Stands
\* A step that brings neither credits nor a refusal.
<1>e. ASSUME deposits' = deposits, balance' \in Nat, balance' <= balance,
             \A w \in Workers : attempt'[w] \in {attempt[w], Nothing},
             \A r \in Requests : call'[r] = call[r] \/ call'[r].state # "refused"
      PROVE  RefusalInv'
  <2>1. ASSUME NEW r \in Requests, call'[r].state = "refused" PROVE Stands(call[r])'
    <3>1. call'[r] = call[r]
      BY <1>e, <2>1
    <3>2. Stands(call[r]) /\ call[r].required \in Nat /\ call[r].deposits \in Nat
      BY <1>b, <2>1, <3>1 DEF Answers
    <3>3. QED
      BY <1>d, <1>e, <3>1, <3>2 DEF Stands
  <2>2. ASSUME NEW w \in Workers, attempt'[w] # Nothing PROVE Stands(attempt[w])'
    <3>1. attempt'[w] = attempt[w]
      BY <1>e, <2>2
    <3>2. Stands(attempt[w]) /\ attempt[w].required \in Nat /\ attempt[w].deposits \in Nat
      BY <1>c, <2>2, <3>1
    <3>3. QED
      BY <1>d, <1>e, <3>1, <3>2 DEF Stands
  <2>3. QED
    BY <2>1, <2>2 DEF RefusalInv
\* A request that does not come back from a refusal.
<1>f. ASSUME UNCHANGED <<balance, attempt, deposits>>, NEW r \in Requests,
             call' = call \/ call' = [call EXCEPT ![r] = NoCall]
      PROVE  RefusalInv'
  BY <1>a, <1>e, <1>f, PlainStates
<1>1. ASSUME NEW r \in Requests, NEW w \in Workers, NEW max \in Sizes \cup {Nothing}, Precheck(r, w, max)
      PROVE  RefusalInv'
  BY <1>1, <1>f DEF Precheck, bounds
<1>2. ASSUME NEW r \in Requests, FindNoProbes(r) PROVE RefusalInv'
  BY <1>2, <1>f DEF FindNoProbes, bounds
<1>3. ASSUME NEW r \in Requests, NEW n \in Sizes, Within(r, n) PROVE RefusalInv'
  BY <1>3, <1>f DEF Within, bounds
<1>4. ASSUME NEW r \in Requests, NEW n \in Sizes, Exceed(r, n) PROVE RefusalInv'
  <2>1. UNCHANGED <<balance, attempt, deposits>>
    BY <1>4 DEF Exceed, bounds
  <2>2. call' = call \/ call' = [call EXCEPT ![r] = [state |-> "sent", required |-> Required(Taken + n, n)]]
    BY <1>4 DEF Exceed
  <2>3. QED
    BY <1>a, <1>e, <2>1, <2>2
<1>5. ASSUME NEW r \in Requests, ConsumeFails(r) PROVE RefusalInv'
  BY <1>5, <1>f DEF ConsumeFails
\* The worker remembers the refusal as the primary process meant it.
<1>6. ASSUME NEW r \in Requests, Refused(r) PROVE RefusalInv'
  <2>1. /\ call[r].state = "refused" /\ request[r].state = "asking" /\ UNCHANGED <<balance, deposits>>
        /\ attempt' = [attempt EXCEPT ![request[r].worker] =
                         [required |-> call[r].required, deposits |-> call[r].deposits]]
        /\ call' = [call EXCEPT ![r] = NoCall]
    BY <1>6 DEF Refused, bounds
  <2>2. Stands(call[r])
    BY <1>b, <2>1
  <2>3. ASSUME NEW w \in Workers, attempt'[w] # Nothing PROVE Stands(attempt[w])'
    <3>1. CASE w = request[r].worker
      <4>1. attempt'[w] = [required |-> call[r].required, deposits |-> call[r].deposits]
        BY <1>a, <2>1, <3>1
      <4>2. QED
        BY <2>1, <2>2, <4>1 DEF Stands
    <3>2. CASE w # request[r].worker
      <4>1. attempt'[w] = attempt[w]
        BY <1>a, <2>1, <3>2
      <4>2. QED
        BY <1>c, <2>1, <2>3, <4>1 DEF Stands
    <3>3. QED
      BY <3>1, <3>2
  <2>4. ASSUME NEW q \in Requests, call'[q].state = "refused" PROVE Stands(call[q])'
    <3>1. call'[q] = call[q]
      BY <1>a, <2>1, <2>4, PlainStates
    <3>2. QED
      BY <1>b, <2>1, <2>4, <3>1 DEF Stands
  <2>5. QED
    BY <2>3, <2>4 DEF RefusalInv
<1>7. ASSUME NEW r \in Requests, Granted(r) PROVE RefusalInv'
  BY <1>7, <1>f DEF Granted, bounds
<1>8. ASSUME NEW r \in Requests, CallFailed(r) PROVE RefusalInv'
  BY <1>8, <1>f DEF CallFailed, bounds
<1>9. ASSUME NEW r \in Requests, TimeOut(r) PROVE RefusalInv'
  BY <1>9, <1>f DEF TimeOut
<1>10. ASSUME NEW r \in Requests, RewardPaid(r) PROVE RefusalInv'
  BY <1>10, <1>f DEF RewardPaid, bounds
<1>11. ASSUME NEW r \in Requests, RewardRefused(r) PROVE RefusalInv'
  BY <1>11, <1>f DEF RewardRefused, bounds
<1>12. ASSUME NEW r \in Requests, RewardFails(r) PROVE RefusalInv'
  BY <1>12, <1>f DEF RewardFails
\* The primary process refuses what the balance does not cover.
<1>13. ASSUME NEW r \in Requests, Handle(r) PROVE RefusalInv'
  <2>1. /\ call[r].state = "sent" /\ UNCHANGED <<attempt, deposits>>
        /\ balance' = IF balance >= call[r].required THEN balance - call[r].required ELSE balance
        /\ call' = [call EXCEPT ![r] =
              [state |-> IF balance >= call[r].required THEN "granted" ELSE "refused",
               required |-> call[r].required, deposits |-> deposits]]
    BY <1>13 DEF Handle, bounds
  <2>2. call[r].required \in Nat
    BY <1>b, <2>1
  <2>3. CASE balance >= call[r].required
    <3>1. balance' \in Nat /\ balance' <= balance
      BY <1>a, <2>1, <2>2, <2>3
    <3>2. \A q \in Requests : call'[q] = call[q] \/ call'[q].state # "refused"
      BY <1>a, <2>1, <2>3
    <3>3. QED
      BY <1>e, <2>1, <3>1, <3>2
  <2>4. CASE ~(balance >= call[r].required)
    <3>1. balance' = balance /\ balance < call[r].required
      BY <1>a, <2>1, <2>2, <2>4
    <3>2. ASSUME NEW q \in Requests, call'[q].state = "refused" PROVE Stands(call[q])'
      <4>1. CASE q = r
        <5>1. call'[q].required = call[r].required /\ call'[q].deposits = deposits
          BY <1>a, <2>1, <4>1
        <5>2. QED
          BY <1>a, <2>1, <3>1, <5>1 DEF Stands
      <4>2. CASE q # r
        <5>1. call'[q] = call[q]
          BY <1>a, <2>1, <4>2
        <5>2. QED
          BY <1>b, <2>1, <3>1, <3>2, <5>1 DEF Stands
      <4>3. QED
        BY <4>1, <4>2
    <3>3. ASSUME NEW w \in Workers, attempt'[w] # Nothing PROVE Stands(attempt[w])'
      BY <1>c, <2>1, <3>1, <3>3 DEF Stands
    <3>4. QED
      BY <3>2, <3>3 DEF RefusalInv
  <2>5. QED
    BY <2>3, <2>4
<1>14. ASSUME NEW r \in Requests, HandleFails(r) PROVE RefusalInv'
  <2>1. /\ call[r].state = "sent" /\ UNCHANGED <<attempt, deposits>>
        /\ balance' = balance \/ (balance >= call[r].required /\ balance' = balance - call[r].required)
        /\ call' = [call EXCEPT ![r] =
              [state |-> "failed", required |-> call[r].required, deposits |-> deposits]]
    BY <1>14 DEF HandleFails
  <2>2. call[r].required \in Nat
    BY <1>b, <2>1
  <2>3. balance' \in Nat /\ balance' <= balance
    BY <1>a, <2>1, <2>2
  <2>4. \A q \in Requests : call'[q] = call[q] \/ call'[q].state # "refused"
    BY <1>a, <2>1
  <2>5. QED
    BY <1>e, <2>1, <2>3, <2>4
<1>15. ASSUME NEW r \in Requests, IgnoreAnswer(r) PROVE RefusalInv'
  BY <1>15, <1>f DEF IgnoreAnswer, bounds
<1>16. ASSUME NEW w \in Workers, Restart(w) \/ ForgetAttempt(w) PROVE RefusalInv'
  <2>1. UNCHANGED <<balance, deposits, call>> /\ attempt' = [attempt EXCEPT ![w] = Nothing]
    BY <1>16 DEF Restart, ForgetAttempt, bounds
  <2>2. \A v \in Workers : attempt'[v] \in {attempt[v], Nothing}
    BY <1>a, <2>1
  <2>3. QED
    BY <1>a, <1>e, <2>1, <2>2
<1>17. ASSUME EndWindow \/ UNCHANGED vars PROVE RefusalInv'
  <2>1. UNCHANGED <<balance, deposits, call, attempt>>
    BY <1>17 DEF EndWindow, vars, bounds
  <2>2. QED
    BY <1>a, <1>e, <2>1
\* After a deposit no refusal counts.
<1>18. ASSUME Deposit PROVE RefusalInv'
  <2>1. deposits' = deposits + 1 /\ UNCHANGED <<call, attempt>>
    BY <1>18 DEF Deposit
  <2>2. ASSUME NEW refusal, Stands(refusal), refusal.deposits \in Nat
        PROVE  refusal.deposits <= deposits' /\ refusal.deposits # deposits'
    BY <1>a, <2>1, <2>2 DEF Stands
  <2>3. ASSUME NEW r \in Requests, call'[r].state = "refused" PROVE Stands(call[r])'
    BY <1>b, <2>1, <2>2, <2>3 DEF Stands
  <2>4. ASSUME NEW w \in Workers, attempt'[w] # Nothing PROVE Stands(attempt[w])'
    BY <1>c, <2>1, <2>2, <2>4 DEF Stands
  <2>5. QED
    BY <2>3, <2>4 DEF RefusalInv
<1>19. QED
  BY <1>1, <1>2, <1>3, <1>4, <1>5, <1>6, <1>7, <1>8, <1>9, <1>10, <1>11, <1>12, <1>13, <1>14,
     <1>15, <1>16, <1>17, <1>18 DEF Next, RequestStep, CallStep

\* What the memory of the workers rests on holds at any time.
THEOREM RefusalsStand == Spec => [](TypeOK /\ PayInv /\ BalanceInv /\ RefusalInv)
<1>1. Init => TypeOK /\ PayInv /\ BalanceInv /\ RefusalInv
  <2> SUFFICES ASSUME Init PROVE TypeOK /\ PayInv /\ BalanceInv /\ RefusalInv
    OBVIOUS
  <2>1. MaxCredits \in Nat /\ MaxDeposits \in Nat /\ MaxWindows \in Nat /\ MaxFaults \in Nat
    BY BoundsAssumption
  <2>2. balance \in 0..MaxCredits /\ deposits = 0 /\ initially = balance
    BY DEF Init
  <2>3. balance \in 0..MaxCredits + MaxDeposits /\ balance <= MaxCredits + deposits
    BY <2>1, <2>2
  <2>4. /\ request \in [Requests -> RequestState] /\ call \in [Requests -> CallState]
        /\ attempt \in [Workers -> Attempt \cup {Nothing}]
    BY PlainStates DEF Init
  <2>5. TypeOK
    <3>1. /\ client \in {"user", "ip"} /\ counter = Nothing /\ gaveUp \in BOOLEAN
          /\ free = 0 /\ late = 0 /\ paid = 0 /\ windows = 0 /\ faults = 0
      BY DEF Init
    <3>2. /\ deposits \in 0..MaxDeposits /\ windows \in 0..MaxWindows /\ faults \in 0..MaxFaults
          /\ initially \in 0..MaxCredits
      BY <2>1, <2>2, <3>1
    <3>3. QED
      BY <2>3, <2>4, <3>1, <3>2 DEF TypeOK
  <2>6. PayInv
    BY PlainStates DEF Init, PayInv
  <2>7. RefusalInv
    BY PlainStates DEF Init, RefusalInv
  <2>8. QED
    BY <2>3, <2>5, <2>6, <2>7 DEF BalanceInv
<1>2. QED
  BY <1>1, TypeStep, RefusalStep, PTL DEF Spec

\* A worker refuses without asking only what the primary process would refuse too, until the
\* user receives credits: for any workers, calls that overlap, and answers that come late.
THEOREM RememberedRefusalsAlwaysRight == Spec => []RememberedRefusalsAreRight
<1>1. TypeOK /\ RefusalInv => RememberedRefusalsAreRight
  BY DEF TypeOK, RefusalInv, Stands, RememberedRefusalsAreRight
<1>2. QED
  BY <1>1, RefusalsStand, PTL

-------------------------------------------------------------------------------
(* Points are counted one by one *)

\* Of the points a request holds, those it will not get back but may use for nothing, if it is
\* granted what it asks for.
KeptBy(r, v) == {r} \X (IF Holds(v) /\ v.state # "returning" THEN v.required + 1..v.points ELSE {})
Kept == UNION {KeptBy(r, request[r]) : r \in Requests}

\* What is free, and what is held, has been taken from the counter, or came back too late; what
\* is free, and what may still be, is within the limit and what came back too late.
FreeInv ==
  /\ IsFiniteSet(Held) /\ IsFiniteSet(Kept)
  /\ free + Cardinality(Held) <= Taken + late
  /\ free + Cardinality(Kept) <= Limit + late

\* As long as nothing fails a call belongs to a request that waits for it.
CallInv ==
  ~gaveUp /\ faults = 0 =>
    \A r \in Requests :
      /\ call[r].state # "failed"
      /\ request[r].state = "asking" <=> call[r].state # "none"
      /\ request[r].state = "asking" => request[r].required = call[r].required

PaidInv == CallInv /\ IsFiniteSet(Due) /\ CreditsBuyTests

HeldCount(v) == IF Holds(v) THEN v.points ELSE 0
KeptCount(v) == IF Holds(v) /\ v.state # "returning" THEN v.points - v.required ELSE 0
DueCount(v, c) == IF v.state = "paying" THEN v.required
                  ELSE IF v.state = "asking" /\ c.state = "granted" THEN c.required ELSE 0

\* As many pairs as numbers.
LEMMA SlotCount ==
  ASSUME NEW r, NEW a \in Nat, NEW b \in Nat, a <= b
  PROVE  IsFiniteSet({r} \X (a + 1..b)) /\ Cardinality({r} \X (a + 1..b)) = b - a
<1>1. IsFiniteSet({r}) /\ Cardinality({r}) = 1
  BY FS_Singleton
<1>2. IsFiniteSet(a + 1..b) /\ Cardinality(a + 1..b) = b - a
  <2> DEFINE first == a + 1
  <2>1. first \in Int /\ b \in Int /\ b - first + 1 = b - a /\ (first > b => b - a = 0)
    OBVIOUS
  <2> HIDE DEF first
  <2>2. IsFiniteSet(first..b) /\ Cardinality(first..b) = IF first > b THEN 0 ELSE b - first + 1
    BY <2>1, FS_Interval
  <2>3. IsFiniteSet(first..b) /\ Cardinality(first..b) = b - a
    BY <2>1, <2>2
  <2>4. QED
    BY <2>3 DEF first
<1> DEFINE I == a + 1..b
<1> HIDE DEF I
<1>3. IsFiniteSet({r} \X I) /\ Cardinality({r} \X I) = Cardinality({r}) * Cardinality(I)
  BY <1>1, <1>2, FS_Product DEF I
<1>4. Cardinality(I) = b - a
  BY <1>2 DEF I
<1>5. Cardinality({r}) * Cardinality(I) = b - a
  BY <1>1, <1>4
<1>6. QED
  BY <1>3, <1>5 DEF I

\* The same from the first number on.
LEMMA SlotsFromOne ==
  ASSUME NEW r, NEW b \in Nat
  PROVE  IsFiniteSet({r} \X (1..b)) /\ Cardinality({r} \X (1..b)) = b
<1>1. 0 \in Nat /\ 0 <= b /\ b - 0 = b /\ 0 + 1..b = 1..b
  OBVIOUS
<1>2. IsFiniteSet({r} \X (0 + 1..b)) /\ Cardinality({r} \X (0 + 1..b)) = b - 0
  BY <1>1, SlotCount
<1>3. QED
  BY <1>1, <1>2

\* A finite set from which a part is taken, and to which something new is added.
LEMMA Replacement ==
  ASSUME NEW S, IsFiniteSet(S), NEW A, A \subseteq S, NEW B, IsFiniteSet(B), B \cap (S \ A) = {}
  PROVE  /\ IsFiniteSet((S \ A) \cup B)
         /\ Cardinality((S \ A) \cup B) = Cardinality(S) - Cardinality(A) + Cardinality(B)
         /\ Cardinality(S) \in Nat /\ Cardinality(A) \in Nat /\ Cardinality(B) \in Nat
         /\ Cardinality(A) <= Cardinality(S)
<1>1. S \cap A = A /\ (S \ A) \cap B = {}
  OBVIOUS
<1>2. IsFiniteSet(A) /\ Cardinality(A) <= Cardinality(S)
  BY FS_Subset
<1>3. IsFiniteSet(S \ A) /\ Cardinality(S \ A) = Cardinality(S) - Cardinality(A)
  BY <1>1, FS_Difference
<1>4. /\ IsFiniteSet((S \ A) \cup B)
      /\ Cardinality((S \ A) \cup B) = Cardinality(S \ A) + Cardinality(B) - Cardinality({})
  BY <1>1, <1>3, FS_Union
<1>5. /\ Cardinality(S) \in Nat /\ Cardinality(A) \in Nat /\ Cardinality(B) \in Nat
      /\ Cardinality({}) = 0
  BY <1>2, FS_CardinalityType, FS_EmptySet
<1>6. QED
  BY <1>2, <1>3, <1>4, <1>5

\* Sets of pairs f[q] that are tagged with the requests q, and their union F.
Tagged(f) == \A q \in Requests : \A x \in f[q] : x[1] = q
Collects(F, f) == \A x : x \in F <=> \E q \in Requests : x \in f[q]
SameBut(r, f, g) == \A q \in Requests : q # r => g[q] = f[q]

\* How many there are when one of the sets is replaced.
LEMMA FamilyStep ==
  ASSUME NEW f, NEW g, NEW F, NEW G, NEW r \in Requests, IsFiniteSet(F), IsFiniteSet(g[r]),
         Tagged(f), Tagged(g), Collects(F, f), Collects(G, g), SameBut(r, f, g)
  PROVE  /\ IsFiniteSet(G)
         /\ Cardinality(G) = Cardinality(F) - Cardinality(f[r]) + Cardinality(g[r])
         /\ Cardinality(F) \in Nat /\ Cardinality(f[r]) \in Nat /\ Cardinality(g[r]) \in Nat
         /\ Cardinality(f[r]) <= Cardinality(F)
<1>1. G = (F \ f[r]) \cup g[r]
  BY DEF Tagged, Collects, SameBut
<1>2. f[r] \subseteq F /\ g[r] \cap (F \ f[r]) = {}
  BY DEF Tagged, Collects
<1>3. QED
  BY <1>1, <1>2, Replacement

\* What one request holds and keeps.
LEMMA CountsOf ==
  ASSUME NEW r, NEW v \in RequestState, Payable(v)
  PROVE  /\ IsFiniteSet(HeldBy(r, v)) /\ Cardinality(HeldBy(r, v)) = HeldCount(v)
         /\ IsFiniteSet(KeptBy(r, v)) /\ Cardinality(KeptBy(r, v)) = KeptCount(v)
         /\ HeldCount(v) \in Nat /\ KeptCount(v) \in Nat /\ KeptBy(r, v) \subseteq HeldBy(r, v)
<1>1. {r} \X {} = {} /\ IsFiniteSet({}) /\ Cardinality({}) = 0
  BY FS_EmptySet
<1>2. CASE ~Holds(v)
  BY <1>1, <1>2 DEF HeldBy, KeptBy, HeldCount, KeptCount
<1>3. CASE Holds(v)
  <2>1. v.points \in Nat /\ v.required \in Nat
    BY <1>3, RequestFields, TakingFields DEF Holds
  <2>2. /\ IsFiniteSet(HeldBy(r, v)) /\ Cardinality(HeldBy(r, v)) = HeldCount(v)
        /\ HeldCount(v) \in Nat
    <3>1. HeldBy(r, v) = {r} \X (1..v.points)
      BY <1>3 DEF HeldBy
    <3>2. IsFiniteSet({r} \X (1..v.points)) /\ Cardinality({r} \X (1..v.points)) = v.points
      BY <2>1, SlotsFromOne
    <3>3. QED
      BY <1>3, <2>1, <3>1, <3>2 DEF HeldCount
  <2>3. CASE v.state = "returning"
    BY <1>1, <2>2, <2>3 DEF KeptBy, KeptCount
  <2>4. CASE v.state # "returning"
    <3>1. v.required <= v.points
      BY <1>3, <2>1, <2>4 DEF Holds, Payable
    <3>2. KeptBy(r, v) = {r} \X (v.required + 1..v.points) /\ HeldBy(r, v) = {r} \X (1..v.points)
      BY <1>3, <2>4 DEF KeptBy, HeldBy
    <3>3. (v.required + 1..v.points) \subseteq 1..v.points
      BY <2>1
    <3>4. KeptBy(r, v) \subseteq HeldBy(r, v)
      BY <3>2, <3>3
    <3>5. /\ IsFiniteSet({r} \X (v.required + 1..v.points))
          /\ Cardinality({r} \X (v.required + 1..v.points)) = v.points - v.required
      BY <2>1, <3>1, SlotCount
    <3>6. KeptCount(v) = v.points - v.required /\ KeptCount(v) \in Nat
      BY <1>3, <2>1, <2>4, <3>1 DEF KeptCount
    <3>7. QED
      BY <2>2, <3>2, <3>4, <3>5, <3>6
  <2>5. QED
    BY <2>3, <2>4
<1>4. QED
  BY <1>2, <1>3

\* When a request takes another control state, the counts change by what it holds and keeps.
LEMMA HeldStep ==
  ASSUME request \in [Requests -> RequestState], PayInv, IsFiniteSet(Held),
         NEW r \in Requests, NEW v \in RequestState, Payable(v), Become(r, v)
  PROVE  /\ IsFiniteSet(Held')
         /\ Cardinality(Held') = Cardinality(Held) - HeldCount(request[r]) + HeldCount(v)
         /\ Cardinality(Held) \in Nat /\ HeldCount(request[r]) \in Nat /\ HeldCount(v) \in Nat
         /\ HeldCount(request[r]) <= Cardinality(Held)
<1> DEFINE f == [q \in Requests |-> HeldBy(q, request[q])]
           g == [q \in Requests |-> HeldBy(q, request'[q])]
<1>1. request[r] \in RequestState /\ Payable(request[r])
  BY DEF PayInv
<1>2. \A q \in Requests : request'[q] = IF q = r THEN v ELSE request[q]
  BY DEF Become
<1>3. Collects(Held, f) /\ Collects(Held', g)
  BY DEF Held, HeldBy, Holds, Collects
<1>4. Tagged(f) /\ Tagged(g)
  BY DEF HeldBy, Tagged
<1>5. SameBut(r, f, g)
  BY <1>2 DEF SameBut
<1>6. f[r] = HeldBy(r, request[r]) /\ g[r] = HeldBy(r, v)
  BY <1>2
<1>7. IsFiniteSet(g[r])
  BY <1>6, CountsOf
<1>8. Cardinality(f[r]) = HeldCount(request[r]) /\ Cardinality(g[r]) = HeldCount(v)
  BY <1>1, <1>6, CountsOf
<1> HIDE DEF f, g
<1>9. /\ IsFiniteSet(Held')
      /\ Cardinality(Held') = Cardinality(Held) - Cardinality(f[r]) + Cardinality(g[r])
      /\ Cardinality(Held) \in Nat /\ Cardinality(f[r]) \in Nat /\ Cardinality(g[r]) \in Nat
      /\ Cardinality(f[r]) <= Cardinality(Held)
  BY <1>3, <1>4, <1>5, <1>7, FamilyStep
<1>10. QED
  BY <1>8, <1>9

\* The same of what they may use for nothing.
LEMMA KeptStep ==
  ASSUME request \in [Requests -> RequestState], PayInv, IsFiniteSet(Kept),
         NEW r \in Requests, NEW v \in RequestState, Payable(v), Become(r, v)
  PROVE  /\ IsFiniteSet(Kept')
         /\ Cardinality(Kept') = Cardinality(Kept) - KeptCount(request[r]) + KeptCount(v)
         /\ Cardinality(Kept) \in Nat /\ KeptCount(request[r]) \in Nat /\ KeptCount(v) \in Nat
         /\ KeptCount(request[r]) <= Cardinality(Kept)
<1> DEFINE f == [q \in Requests |-> KeptBy(q, request[q])]
           g == [q \in Requests |-> KeptBy(q, request'[q])]
<1>1. request[r] \in RequestState /\ Payable(request[r])
  BY DEF PayInv
<1>2. \A q \in Requests : request'[q] = IF q = r THEN v ELSE request[q]
  BY DEF Become
<1>3. Collects(Kept, f) /\ Collects(Kept', g)
  BY DEF Kept, KeptBy, Holds, Collects
<1>4. Tagged(f) /\ Tagged(g)
  BY DEF KeptBy, Tagged
<1>5. SameBut(r, f, g)
  BY <1>2 DEF SameBut
<1>6. f[r] = KeptBy(r, request[r]) /\ g[r] = KeptBy(r, v)
  BY <1>2
<1>7. IsFiniteSet(g[r])
  BY <1>6, CountsOf
<1>8. Cardinality(f[r]) = KeptCount(request[r]) /\ Cardinality(g[r]) = KeptCount(v)
  BY <1>1, <1>6, CountsOf
<1> HIDE DEF f, g
<1>9. /\ IsFiniteSet(Kept')
      /\ Cardinality(Kept') = Cardinality(Kept) - Cardinality(f[r]) + Cardinality(g[r])
      /\ Cardinality(Kept) \in Nat /\ Cardinality(f[r]) \in Nat /\ Cardinality(g[r]) \in Nat
      /\ Cardinality(f[r]) <= Cardinality(Kept)
  BY <1>3, <1>4, <1>5, <1>7, FamilyStep
<1>10. QED
  BY <1>8, <1>9

\* When a request and its call change, the credits in flight change by what was taken for it.
LEMMA DueStep ==
  ASSUME TypeOK, PayInv, IsFiniteSet(Due), NEW r \in Requests,
         request'[r] \in RequestState, call'[r] \in CallState, Payable(request'[r]),
         \A q \in Requests : q # r => request'[q] = request[q] /\ call'[q] = call[q]
  PROVE  /\ IsFiniteSet(Due')
         /\ Cardinality(Due') = Cardinality(Due) - DueCount(request[r], call[r]) + DueCount(request'[r], call'[r])
         /\ Cardinality(Due) \in Nat
         /\ DueCount(request[r], call[r]) \in Nat /\ DueCount(request'[r], call'[r]) \in Nat
<1> DEFINE f == [q \in Requests |-> DueBy(q, request[q], call[q])]
           g == [q \in Requests |-> DueBy(q, request'[q], call'[q])]
<1>1. request[r] \in RequestState /\ call[r] \in CallState /\ Payable(request[r])
  BY DEF PayInv, TypeOK
<1>2. ASSUME NEW v \in RequestState, NEW c \in CallState, Payable(v)
      PROVE  /\ IsFiniteSet(DueBy(r, v, c)) /\ Cardinality(DueBy(r, v, c)) = DueCount(v, c)
             /\ DueCount(v, c) \in Nat
  <2>1. CASE v.state = "paying"
    <3>1. v.required \in Nat
      BY <2>1, RequestFields, TakingFields
    <3>2. DueBy(r, v, c) = {r} \X (1..v.required) /\ DueCount(v, c) = v.required
      BY <2>1 DEF DueBy, DueCount
    <3>3. IsFiniteSet({r} \X (1..v.required)) /\ Cardinality({r} \X (1..v.required)) = v.required
      BY <3>1, SlotsFromOne
    <3>4. QED
      BY <3>1, <3>2, <3>3
  <2>2. CASE v.state = "asking" /\ c.state = "granted"
    <3>1. c.required \in Nat
      BY <2>2, CallFields DEF Answers
    <3>2. DueBy(r, v, c) = {r} \X (1..c.required) /\ DueCount(v, c) = c.required
      BY <2>2 DEF DueBy, DueCount
    <3>3. IsFiniteSet({r} \X (1..c.required)) /\ Cardinality({r} \X (1..c.required)) = c.required
      BY <3>1, SlotsFromOne
    <3>4. QED
      BY <3>1, <3>2, <3>3
  <2>3. CASE v.state # "paying" /\ ~(v.state = "asking" /\ c.state = "granted")
    <3>1. DueBy(r, v, c) = {r} \X {}
      BY <2>3 DEF DueBy
    <3>2. {r} \X {} = {} /\ DueCount(v, c) = 0
      BY <2>3 DEF DueCount
    <3>3. QED
      BY <3>1, <3>2, FS_EmptySet
  <2>4. QED
    BY <2>1, <2>2, <2>3
<1>3. Collects(Due, f) /\ Collects(Due', g)
  BY DEF Due, DueBy, Collects
<1>4. Tagged(f) /\ Tagged(g)
  BY DEF DueBy, Tagged
<1>0. SameBut(r, f, g)
  BY DEF SameBut
<1>5. f[r] = DueBy(r, request[r], call[r]) /\ g[r] = DueBy(r, request'[r], call'[r])
  OBVIOUS
<1>6. /\ Cardinality(f[r]) = DueCount(request[r], call[r])
      /\ IsFiniteSet(g[r]) /\ Cardinality(g[r]) = DueCount(request'[r], call'[r])
  BY <1>1, <1>2, <1>5
<1> HIDE DEF f, g
<1>7. /\ IsFiniteSet(Due')
      /\ Cardinality(Due') = Cardinality(Due) - Cardinality(f[r]) + Cardinality(g[r])
      /\ Cardinality(Due) \in Nat /\ Cardinality(f[r]) \in Nat /\ Cardinality(g[r]) \in Nat
      /\ Cardinality(f[r]) <= Cardinality(Due)
  BY <1>0, <1>3, <1>4, <1>6, FamilyStep
<1>8. QED
  BY <1>6, <1>7

-------------------------------------------------------------------------------
(* The free tests of a window *)

\* Requests that are not in flight count nothing.
LEMMA NoCount ==
  ASSUME NEW v, v.state \notin {"asking", "paying", "returning"}
  PROVE  HeldCount(v) = 0 /\ KeptCount(v) = 0
BY DEF HeldCount, KeptCount, Holds

\* A step in which one request lets points go, or keeps them, and the counter is not lowered.
LEMMA LetGo ==
  ASSUME TypeOK, PayInv, FreeInv, NEW r \in Requests, NEW v \in RequestState, Payable(v), Become(r, v),
         HeldCount(v) <= HeldCount(request[r]), KeptCount(v) <= KeptCount(request[r]),
         Taken' \in Int, Taken' >= Taken, UNCHANGED <<free, late>>
  PROVE  FreeInv' /\ (HeldCount(v) = HeldCount(request[r]) => Cardinality(Held') = Cardinality(Held))
<1>1. /\ free + Cardinality(Held) <= Taken + late /\ free + Cardinality(Kept) <= Limit + late
      /\ Taken \in Int /\ free \in Nat /\ late \in Nat /\ Limit \in Nat
      /\ IsFiniteSet(Held) /\ IsFiniteSet(Kept) /\ request \in [Requests -> RequestState]
  BY Numbers DEF FreeInv, TypeOK
<1>2. /\ IsFiniteSet(Held') /\ Cardinality(Held) \in Nat
      /\ Cardinality(Held') = Cardinality(Held) - HeldCount(request[r]) + HeldCount(v)
      /\ HeldCount(request[r]) \in Nat /\ HeldCount(v) \in Nat
  BY <1>1, HeldStep
<1>3. /\ IsFiniteSet(Kept') /\ Cardinality(Kept) \in Nat
      /\ Cardinality(Kept') = Cardinality(Kept) - KeptCount(request[r]) + KeptCount(v)
      /\ KeptCount(request[r]) \in Nat /\ KeptCount(v) \in Nat
  BY <1>1, KeptStep
<1>4. free' + Cardinality(Held') <= Taken' + late'
  BY <1>1, <1>2
<1>5. free' + Cardinality(Kept') <= Limit + late'
  BY <1>1, <1>3
<1>6. HeldCount(v) = HeldCount(request[r]) => Cardinality(Held') = Cardinality(Held)
  BY <1>2
<1>7. QED
  BY <1>2, <1>3, <1>4, <1>5, <1>6 DEF FreeInv

\* Every step keeps the count of the points, and what they say of the free tests.
LEMMA PointsStep ==
  TypeOK /\ PayInv /\ CallInv /\ FreeInv /\ RefusalsTakeNoPoints /\ [Next]_vars
    => FreeInv' /\ RefusalsTakeNoPoints'
<1> SUFFICES ASSUME TypeOK, PayInv, CallInv, FreeInv, RefusalsTakeNoPoints, [Next]_vars
             PROVE  FreeInv' /\ RefusalsTakeNoPoints'
  OBVIOUS
<1>a. /\ Taken \in Int /\ free \in Nat /\ late \in Nat /\ Limit \in Nat
      /\ free + Cardinality(Held) <= Taken + late /\ free + Cardinality(Kept) <= Limit + late
      /\ IsFiniteSet(Held) /\ IsFiniteSet(Kept) /\ request \in [Requests -> RequestState]
      /\ Cardinality(Held) \in Nat /\ Cardinality(Kept) \in Nat
      /\ faults \in Nat
  BY Numbers, FS_CardinalityType DEF FreeInv, TypeOK
<1>b. ASSUME ~gaveUp, faults = 0 PROVE Taken = free - late + Cardinality(Held)
  BY <1>b DEF RefusalsTakeNoPoints
<1>c. ASSUME counter' \in Int PROVE Taken' = counter' /\ Taken' \in Int
  BY <1>c, NothingAssumption DEF Taken
<1>d. ASSUME NEW r \in Requests
      PROVE  /\ request[r] \in RequestState /\ Payable(request[r])
             /\ request[r].state \in {"asking", "paying", "returning"} =>
                  /\ request[r] \in Taking /\ request[r].points \in Nat /\ request[r].required \in Nat
                  /\ request[r].state # "returning" => request[r].required <= request[r].points
                  /\ request[r].stale \in BOOLEAN
  <2>1. request[r] \in RequestState /\ Payable(request[r])
    BY <1>a DEF PayInv
  <2>2. request[r].state \in {"asking", "paying", "returning"} <=> request[r] \in Taking
    BY <2>1, RequestFields
  <2>3. CASE request[r] \in Taking
    <3>1. request[r].points \in Nat /\ request[r].required \in Nat /\ request[r].stale \in BOOLEAN
      BY <2>3, TakingFields
    <3>2. request[r].state # "returning" => request[r].required <= request[r].points
      BY <2>1, <2>2, <2>3, <3>1 DEF Payable
    <3>3. QED
      BY <2>1, <2>3, <3>1, <3>2
  <2>4. QED
    BY <2>1, <2>2, <2>3
\* A request that was not in flight and is not, or that ends.
<1>e. ASSUME NEW r \in Requests, NEW v \in RequestState, Payable(v), Become(r, v),
             v.state \notin {"asking", "paying", "returning"},
             Taken' \in Int, Taken' >= Taken, UNCHANGED <<free, late>>
      PROVE  /\ FreeInv'
             /\ request[r].state \notin {"asking", "paying", "returning"} =>
                  Cardinality(Held') = Cardinality(Held)
  <2>1. HeldCount(v) = 0 /\ KeptCount(v) = 0
    BY <1>e, NoCount
  <2>2. HeldCount(request[r]) \in Nat /\ KeptCount(request[r]) \in Nat
    BY <1>d, CountsOf
  <2>3. request[r].state \notin {"asking", "paying", "returning"} => HeldCount(request[r]) = 0
    BY NoCount
  <2>4. QED
    BY <1>e, <2>1, <2>2, <2>3, LetGo
\* Points are given back, in time or late.
<1>f. ASSUME NEW r \in Requests, request[r].state \in {"asking", "paying", "returning"},
             NEW points \in Nat, points <= request[r].points, NEW v \in RequestState, Payable(v),
             v.state \notin {"asking", "paying", "returning"}, Become(r, v), Reward(r, points)
      PROVE  /\ Taken' = Taken - points /\ IsFiniteSet(Held') /\ IsFiniteSet(Kept')
             /\ Cardinality(Held') \in Nat /\ Cardinality(Kept') \in Nat
             /\ request[r].stale => /\ late' = late + points /\ Cardinality(Held') = Cardinality(Held)
                                    /\ Cardinality(Kept') = Cardinality(Kept)
             /\ ~request[r].stale =>
                  /\ late' = late /\ Cardinality(Held') = Cardinality(Held) - request[r].points
                  /\ Cardinality(Kept') = Cardinality(Kept) - KeptCount(request[r])
             /\ KeptCount(request[r]) \in Nat /\ KeptCount(request[r]) <= Cardinality(Kept)
  <2>1. counter' = Taken - points /\ counter' \in Int
    BY <1>a, <1>f DEF Reward, GivenBack
  <2>2. HeldCount(v) = 0 /\ KeptCount(v) = 0
    BY <1>f, NoCount
  <2>3. /\ IsFiniteSet(Held') /\ Cardinality(Held') \in Nat
        /\ Cardinality(Held') = Cardinality(Held) - HeldCount(request[r])
    <3>1. /\ IsFiniteSet(Held') /\ HeldCount(request[r]) \in Nat
          /\ Cardinality(Held') = Cardinality(Held) - HeldCount(request[r]) + HeldCount(v)
      BY <1>a, <1>f, HeldStep
    <3>2. QED
      BY <1>a, <2>2, <3>1, FS_CardinalityType
  <2>4. /\ IsFiniteSet(Kept') /\ Cardinality(Kept') \in Nat
        /\ Cardinality(Kept') = Cardinality(Kept) - KeptCount(request[r])
        /\ KeptCount(request[r]) \in Nat /\ KeptCount(request[r]) <= Cardinality(Kept)
    <3>1. /\ IsFiniteSet(Kept') /\ KeptCount(request[r]) \in Nat
          /\ Cardinality(Kept') = Cardinality(Kept) - KeptCount(request[r]) + KeptCount(v)
          /\ KeptCount(request[r]) <= Cardinality(Kept)
      BY <1>a, <1>f, KeptStep
    <3>2. QED
      BY <1>a, <2>2, <3>1, FS_CardinalityType
  <2>5. request[r].stale => late' = late + points /\ HeldCount(request[r]) = 0 /\ KeptCount(request[r]) = 0
    BY <1>f DEF Reward, HeldCount, KeptCount, Holds
  <2>6. ~request[r].stale => late' = late /\ HeldCount(request[r]) = request[r].points
    BY <1>f DEF Reward, HeldCount, Holds
  <2>7. Taken' = Taken - points
    BY <1>c, <2>1
  <2>8. request[r].stale => Cardinality(Held') = Cardinality(Held) /\ Cardinality(Kept') = Cardinality(Kept)
    BY <1>a, <2>3, <2>4, <2>5
  <2>9. ~request[r].stale => Cardinality(Held') = Cardinality(Held) - request[r].points
    BY <2>3, <2>6
  <2>10. QED
    BY <2>3, <2>4, <2>5, <2>6, <2>7, <2>8, <2>9
\* A step that leaves the counter and the requests alone.
<1>g. ASSUME UNCHANGED <<counter, request, free, late>>, ~gaveUp' /\ faults' = 0 => ~gaveUp /\ faults = 0
      PROVE  FreeInv' /\ RefusalsTakeNoPoints'
  <2>1. Held' = Held /\ Kept' = Kept /\ Taken' = Taken
    BY <1>g DEF Held, Kept, HeldBy, KeptBy, Holds, Taken
  <2>2. FreeInv'
    BY <1>g, <2>1 DEF FreeInv
  <2>3. RefusalsTakeNoPoints'
    BY <1>g, <2>1 DEF RefusalsTakeNoPoints
  <2>4. QED
    BY <2>2, <2>3
<1>h. ASSUME Fault PROVE faults' # 0
  BY <1>h, <1>a DEF Fault
\* The equation is about behaviours without faults only.
<1>i. ASSUME gaveUp' = TRUE \/ faults' # 0 PROVE RefusalsTakeNoPoints'
  BY <1>i DEF RefusalsTakeNoPoints
<1>j. ASSUME UNCHANGED <<gaveUp, faults>>,
             Taken = free - late + Cardinality(Held) => Taken' = free' - late' + Cardinality(Held')
      PROVE  RefusalsTakeNoPoints'
  BY <1>j, <1>b DEF RefusalsTakeNoPoints
<1>1. ASSUME NEW r \in Requests, NEW w \in Workers, NEW max \in Sizes \cup {Nothing}, Precheck(r, w, max)
      PROVE  FreeInv' /\ RefusalsTakeNoPoints'
  <2>1. PICK v \in RequestState : /\ Payable(v) /\ Become(r, v)
                                  /\ v.state \notin {"asking", "paying", "returning"}
    BY <1>1, PlainStates DEF Precheck, Final
  <2>2. /\ UNCHANGED <<free, late, gaveUp, faults>> /\ Taken' = Taken
        /\ request[r].state \notin {"asking", "paying", "returning"}
    BY <1>1 DEF Precheck, books, bounds, Taken, New
  <2>3. FreeInv' /\ Cardinality(Held') = Cardinality(Held)
    BY <1>a, <1>e, <2>1, <2>2
  <2>4. QED
    BY <1>j, <2>2, <2>3
\* The end of a request that held nothing, or that something made fail.
<1>2. ASSUME NEW r \in Requests, NEW s \in Final, Become(r, Done(s)), Taken' = Taken, UNCHANGED <<free, late>>,
             \/ request[r].state = "finding" /\ UNCHANGED <<gaveUp, faults>>
             \/ gaveUp' = TRUE \/ faults' # 0
      PROVE  FreeInv' /\ RefusalsTakeNoPoints'
  <2>1. /\ Done(s) \in RequestState /\ Payable(Done(s))
        /\ Done(s).state \notin {"asking", "paying", "returning"}
    BY PlainStates DEF Final
  <2>2. FreeInv' /\ (request[r].state = "finding" => Cardinality(Held') = Cardinality(Held))
    BY <1>2, <1>a, <1>e, <2>1
  <2>3. RefusalsTakeNoPoints'
    BY <1>2, <1>i, <1>j, <2>2
  <2>4. QED
    BY <2>2, <2>3
<1>3. ASSUME NEW r \in Requests, FindNoProbes(r) PROVE FreeInv' /\ RefusalsTakeNoPoints'
  BY <1>2, <1>3 DEF FindNoProbes, books, bounds, Taken, Final
<1>4. ASSUME NEW r \in Requests, NEW n \in Sizes, Within(r, n) PROVE FreeInv' /\ RefusalsTakeNoPoints'
  <2>1. n \in Nat /\ counter' = Taken + n /\ Taken + n <= Limit /\ free' = free + n
        /\ late' = late /\ UNCHANGED <<gaveUp, faults>> /\ request[r].state = "finding"
        /\ Become(r, Done("accepted"))
    BY <1>4, SizesAssumption DEF Within, bounds
  <2>2. Taken' = Taken + n
    BY <1>a, <1>c, <2>1
  <2>3. /\ Done("accepted") \in RequestState /\ Payable(Done("accepted"))
        /\ HeldCount(Done("accepted")) = 0 /\ KeptCount(Done("accepted")) = 0
        /\ HeldCount(request[r]) = 0 /\ KeptCount(request[r]) = 0
    BY <2>1, PlainStates, NoCount DEF Final
  <2>4. IsFiniteSet(Held') /\ Cardinality(Held') = Cardinality(Held)
    BY <1>a, <2>1, <2>3, HeldStep
  <2>5. IsFiniteSet(Kept') /\ Cardinality(Kept') = Cardinality(Kept)
    BY <1>a, <2>1, <2>3, KeptStep
  <2>6. Cardinality(Kept) <= Cardinality(Held)
    <3>1. Kept \subseteq Held
      <4>1. \A q \in Requests : KeptBy(q, request[q]) \subseteq HeldBy(q, request[q])
        BY <1>d, CountsOf
      <4>2. QED
        BY <4>1 DEF Kept, Held
    <3>2. QED
      BY <1>a, <3>1, FS_Subset
  <2>7. free' + Cardinality(Held') <= Taken' + late'
    BY <1>a, <2>1, <2>2, <2>4
  <2>8. free' + Cardinality(Kept') <= Limit + late'
    BY <1>a, <2>1, <2>2, <2>5, <2>6
  <2>9. Taken = free - late + Cardinality(Held) => Taken' = free' - late' + Cardinality(Held')
    BY <1>a, <2>1, <2>2, <2>4
  <2>10. QED
    BY <1>j, <2>1, <2>4, <2>5, <2>7, <2>8, <2>9 DEF FreeInv
<1>5. ASSUME NEW r \in Requests, NEW n \in Sizes, Exceed(r, n) PROVE FreeInv' /\ RefusalsTakeNoPoints'
  <2> DEFINE required == Required(Taken + n, n)
             taking(state, m) == [state |-> state, worker |-> request[r].worker, points |-> n,
                                  required |-> m, stale |-> FALSE]
  <2>1. /\ n \in 1..MaxSize /\ n \in Nat /\ Taken + n > Limit
        /\ required = IF Taken < Limit THEN Taken + n - Limit ELSE n
        /\ required \in 1..n /\ required \in 1..MaxSize /\ required \in Nat /\ 0 \in 0..MaxSize
    BY <1>5, <1>a, RequiredBounds, MaxSizeBounds DEF Exceed
  <2>2. request[r].worker \in Workers /\ request[r].state = "finding"
    BY <1>5, <1>d, RequestFields DEF Exceed
  <2>3. /\ counter' = Taken + n /\ UNCHANGED <<free, late, gaveUp, faults>>
        /\ Become(r, taking("returning", 0)) \/ Become(r, taking("asking", required))
    BY <1>5 DEF Exceed, books, bounds
  <2>4. PICK v \in {taking("returning", 0), taking("asking", required)} : Become(r, v)
    BY <2>3
  <2>5. /\ v \in RequestState /\ Payable(v) /\ HeldCount(v) = n
        /\ KeptCount(v) \in Nat /\ (KeptCount(v) = 0 \/ KeptCount(v) = n - required)
    <3>1. CASE v = taking("returning", 0)
      BY <2>1, <2>2, <3>1 DEF RequestState, Taking, Payable, HeldCount, KeptCount, Holds
    <3>2. CASE v = taking("asking", required)
      <4>1. v \in Taking /\ v.points = n /\ v.required = required /\ v.state = "asking" /\ v.stale = FALSE
        BY <2>1, <2>2, <3>2 DEF Taking
      <4>2. QED
        BY <2>1, <4>1 DEF RequestState, Payable, HeldCount, KeptCount, Holds
    <3>3. QED
      BY <3>1, <3>2
  <2> HIDE DEF required, taking
  <2>6. HeldCount(request[r]) = 0 /\ KeptCount(request[r]) = 0
    BY <2>2, NoCount
  <2>7. Taken' = Taken + n
    BY <1>a, <1>c, <2>1, <2>3
  <2>8. IsFiniteSet(Held') /\ Cardinality(Held') = Cardinality(Held) + n
    BY <1>a, <2>1, <2>4, <2>5, <2>6, HeldStep
  <2>9. IsFiniteSet(Kept') /\ Cardinality(Kept') = Cardinality(Kept) + KeptCount(v)
    BY <1>a, <2>4, <2>5, <2>6, KeptStep
  <2>10. Cardinality(Kept) <= Cardinality(Held)
    <3>1. \A q \in Requests : KeptBy(q, request[q]) \subseteq HeldBy(q, request[q])
      BY <1>d, CountsOf
    <3>2. Kept \subseteq Held
      BY <3>1 DEF Kept, Held
    <3>3. QED
      BY <1>a, <3>2, FS_Subset
  <2>11. free' + Cardinality(Held') <= Taken' + late'
    BY <1>a, <2>1, <2>3, <2>7, <2>8
  \* If the limit was exceeded before, all has to be paid; otherwise what was left of it is free.
  <2>12. free' + Cardinality(Kept') <= Limit + late'
    <3>1. CASE KeptCount(v) = 0
      BY <1>a, <2>3, <2>9, <3>1
    <3>2. CASE KeptCount(v) = n - required /\ Taken < Limit
      BY <1>a, <2>1, <2>3, <2>9, <2>10, <3>2
    <3>3. CASE KeptCount(v) = n - required /\ ~(Taken < Limit)
      BY <1>a, <2>1, <2>3, <2>9, <3>3
    <3>4. QED
      BY <2>5, <3>1, <3>2, <3>3
  <2>13. Taken = free - late + Cardinality(Held) => Taken' = free' - late' + Cardinality(Held')
    BY <1>a, <2>1, <2>3, <2>7, <2>8
  <2>14. QED
    BY <1>j, <2>3, <2>8, <2>9, <2>11, <2>12, <2>13 DEF FreeInv
<1>6. ASSUME NEW r \in Requests, ConsumeFails(r) PROVE FreeInv' /\ RefusalsTakeNoPoints'
  <2>1. PICK n \in Sizes \cup {0} : counter' = IF n = 0 THEN counter ELSE Taken + n
    BY <1>6 DEF ConsumeFails
  <2>2. n \in Nat
    BY SizesAssumption
  <2>3. Taken' \in Int /\ Taken' >= Taken
    <3>1. CASE n = 0
      BY <1>a, <2>1, <3>1 DEF Taken
    <3>2. CASE n # 0
      <4>1. counter' = Taken + n /\ counter' \in Int
        BY <1>a, <2>1, <2>2, <3>2
      <4>2. QED
        BY <1>a, <1>c, <2>2, <4>1
    <3>3. QED
      BY <3>1, <3>2
  <2>4. /\ Done("failed") \in RequestState /\ Payable(Done("failed"))
        /\ Done("failed").state \notin {"asking", "paying", "returning"}
    BY PlainStates DEF Final
  <2>5. FreeInv'
    BY <1>6, <1>e, <2>3, <2>4 DEF ConsumeFails, books
  <2>6. RefusalsTakeNoPoints'
    BY <1>6, <1>h, <1>i DEF ConsumeFails
  <2>7. QED
    BY <2>5, <2>6
\* An answer that lets the request go on: what it holds is the same.
<1>7. ASSUME NEW r \in Requests, request[r].state = "asking", NEW s \in {"paying", "returning"},
             Become(r, [request[r] EXCEPT !.state = s]), UNCHANGED <<counter, free, late, gaveUp, faults>>
      PROVE  FreeInv' /\ RefusalsTakeNoPoints'
  <2> DEFINE v == [request[r] EXCEPT !.state = s]
  <2>1. /\ request[r] \in Taking /\ request[r].points \in Nat /\ request[r].required \in Nat
        /\ request[r].required <= request[r].points
    BY <1>7, <1>d
  <2>2. /\ v \in Taking /\ v.state = s /\ v.points = request[r].points
        /\ v.required = request[r].required /\ v.stale = request[r].stale
    <3>1. s \in {"asking", "paying", "returning"}
      OBVIOUS
    <3>2. QED
      BY <2>1, <3>1, TakingBecomes
  <2>3. v \in RequestState /\ Payable(v) /\ Become(r, v)
    BY <1>7, <1>d, <2>2 DEF RequestState, Payable
  <2> HIDE DEF v
  <2>4. HeldCount(v) = HeldCount(request[r])
    BY <1>7, <2>2 DEF HeldCount, Holds
  <2>5. KeptCount(v) <= KeptCount(request[r])
    BY <1>7, <2>1, <2>2 DEF KeptCount, Holds
  <2>6. HeldCount(request[r]) \in Nat /\ HeldCount(v) <= HeldCount(request[r])
    BY <1>d, <2>4, CountsOf
  <2>7. Taken' = Taken /\ Taken' >= Taken /\ Taken' \in Int
    BY <1>7, <1>a DEF Taken
  <2>8. FreeInv' /\ Cardinality(Held') = Cardinality(Held)
    BY <1>7, <2>3, <2>4, <2>5, <2>6, <2>7, LetGo
  <2>9. QED
    BY <1>7, <1>j, <2>7, <2>8
<1>8. ASSUME NEW r \in Requests, Refused(r) \/ Granted(r) PROVE FreeInv' /\ RefusalsTakeNoPoints'
  BY <1>7, <1>8 DEF Refused, Granted, books, bounds
<1>9. ASSUME NEW r \in Requests, CallFailed(r) PROVE FreeInv' /\ RefusalsTakeNoPoints'
  <2>1. gaveUp # FALSE \/ faults # 0
    BY <1>9 DEF CallFailed, CallInv
  <2>2. gaveUp \in BOOLEAN
    BY DEF TypeOK
  <2>3. gaveUp' = TRUE \/ faults' # 0
    BY <1>9, <2>1, <2>2 DEF CallFailed, bounds
  <2>4. QED
    BY <1>2, <1>9, <2>3 DEF CallFailed, books, Taken, Final
<1>10. ASSUME NEW r \in Requests, TimeOut(r) PROVE FreeInv' /\ RefusalsTakeNoPoints'
  BY <1>2, <1>10 DEF TimeOut, books, Taken, Final
<1>11. ASSUME NEW r \in Requests, RewardPaid(r) PROVE FreeInv' /\ RefusalsTakeNoPoints'
  <2> DEFINE m == request[r].required
             n == request[r].points
  <2>1. /\ request[r].state = "paying" /\ Reward(r, m) /\ Become(r, Done("accepted"))
        /\ free' = IF request[r].stale THEN free ELSE free + (n - m)
        /\ UNCHANGED <<gaveUp, faults>>
    BY <1>11 DEF RewardPaid, bounds
  <2>2. m \in Nat /\ n \in Nat /\ m <= n /\ request[r].stale \in BOOLEAN
    BY <1>d, <2>1
  <2>3. /\ Done("accepted") \in RequestState /\ Payable(Done("accepted"))
        /\ Done("accepted").state \notin {"asking", "paying", "returning"}
    BY PlainStates DEF Final
  <2>4. /\ Taken' = Taken - m /\ IsFiniteSet(Held') /\ IsFiniteSet(Kept')
        /\ Cardinality(Held') \in Nat /\ Cardinality(Kept') \in Nat
        /\ request[r].stale => /\ late' = late + m /\ Cardinality(Held') = Cardinality(Held)
                               /\ Cardinality(Kept') = Cardinality(Kept)
        /\ ~request[r].stale =>
             /\ late' = late /\ Cardinality(Held') = Cardinality(Held) - n
             /\ Cardinality(Kept') = Cardinality(Kept) - KeptCount(request[r])
    BY <1>f, <2>1, <2>2, <2>3
  <2>5. CASE request[r].stale
    <3>1. /\ free' = free /\ late' = late + m /\ Cardinality(Held') = Cardinality(Held)
          /\ Cardinality(Kept') = Cardinality(Kept)
      BY <2>1, <2>4, <2>5
    <3> HIDE DEF m, n
    <3>2. free' + Cardinality(Held') <= Taken' + late' /\ free' + Cardinality(Kept') <= Limit + late'
      BY <1>a, <2>2, <2>4, <3>1
    <3>3. Taken = free - late + Cardinality(Held) => Taken' = free' - late' + Cardinality(Held')
      BY <1>a, <2>2, <2>4, <3>1
    <3>4. QED
      BY <1>j, <2>1, <2>4, <3>2, <3>3 DEF FreeInv
  \* What was not paid for turns from points that are kept into free tests.
  <2>6. CASE ~request[r].stale
    <3>1. /\ free' = free + (n - m) /\ late' = late /\ Cardinality(Held') = Cardinality(Held) - n
          /\ Cardinality(Kept') = Cardinality(Kept) - KeptCount(request[r])
      BY <2>1, <2>4, <2>6
    <3>2. KeptCount(request[r]) = n - m
      BY <2>1, <2>6 DEF KeptCount, Holds
    <3> HIDE DEF m, n
    <3>3. Cardinality(Kept') = Cardinality(Kept) - (n - m)
      BY <3>1, <3>2
    <3>4. free' + Cardinality(Held') <= Taken' + late' /\ free' + Cardinality(Kept') <= Limit + late'
      BY <1>a, <2>2, <2>4, <3>1, <3>3
    <3>5. Taken = free - late + Cardinality(Held) => Taken' = free' - late' + Cardinality(Held')
      BY <1>a, <2>2, <2>4, <3>1
    <3>6. QED
      BY <1>j, <2>1, <2>4, <3>4, <3>5 DEF FreeInv
  <2>7. QED
    BY <2>2, <2>5, <2>6, Zenon
\* Points come back and nothing is created.
<1>12. ASSUME NEW r \in Requests, request[r].state \in {"asking", "paying", "returning"},
              NEW points \in Nat, points <= request[r].points, Reward(r, points),
              NEW s \in Final, Become(r, Done(s)), UNCHANGED free,
              \/ points = request[r].points /\ UNCHANGED <<gaveUp, faults>>
              \/ faults' # 0
       PROVE  FreeInv' /\ RefusalsTakeNoPoints'
  <2> DEFINE n == request[r].points
  <2>1. n \in Nat /\ request[r].stale \in BOOLEAN
    BY <1>12, <1>d
  <2>2. /\ Done(s) \in RequestState /\ Payable(Done(s))
        /\ Done(s).state \notin {"asking", "paying", "returning"}
    BY PlainStates DEF Final
  <2>3. /\ Taken' = Taken - points /\ IsFiniteSet(Held') /\ IsFiniteSet(Kept')
        /\ Cardinality(Held') \in Nat /\ Cardinality(Kept') \in Nat
        /\ request[r].stale => /\ late' = late + points /\ Cardinality(Held') = Cardinality(Held)
                               /\ Cardinality(Kept') = Cardinality(Kept)
        /\ ~request[r].stale =>
             /\ late' = late /\ Cardinality(Held') = Cardinality(Held) - n
             /\ Cardinality(Kept') = Cardinality(Kept) - KeptCount(request[r])
        /\ KeptCount(request[r]) \in Nat
    BY <1>f, <1>12, <2>2
  <2>4. points \in Nat /\ points <= n /\ free' = free
    BY <1>12
  <2>5. CASE request[r].stale
    <3>1. /\ late' = late + points /\ Cardinality(Held') = Cardinality(Held)
          /\ Cardinality(Kept') = Cardinality(Kept)
      BY <2>3, <2>5
    <3> HIDE DEF n
    <3>2. free' + Cardinality(Held') <= Taken' + late' /\ free' + Cardinality(Kept') <= Limit + late'
      BY <1>a, <2>3, <2>4, <3>1
    <3>3. Taken = free - late + Cardinality(Held) => Taken' = free' - late' + Cardinality(Held')
      BY <1>a, <2>3, <2>4, <3>1
    <3>4. QED
      BY <1>12, <1>i, <1>j, <2>3, <3>2, <3>3 DEF FreeInv
  <2>6. CASE ~request[r].stale
    <3>1. /\ late' = late /\ Cardinality(Held') = Cardinality(Held) - n
          /\ Cardinality(Kept') = Cardinality(Kept) - KeptCount(request[r])
      BY <2>3, <2>6
    <3> HIDE DEF n
    <3>2. free' + Cardinality(Held') <= Taken' + late' /\ free' + Cardinality(Kept') <= Limit + late'
      BY <1>a, <2>1, <2>3, <2>4, <3>1
    <3>3. points = n => (Taken = free - late + Cardinality(Held) => Taken' = free' - late' + Cardinality(Held'))
      BY <1>a, <2>1, <2>3, <2>4, <3>1
    <3>4. QED
      BY <1>12, <1>i, <1>j, <2>3, <3>2, <3>3 DEF FreeInv, n
  <2>7. QED
    BY <2>1, <2>5, <2>6, Zenon
<1>13. ASSUME NEW r \in Requests, RewardRefused(r) PROVE FreeInv' /\ RefusalsTakeNoPoints'
  <2>1. /\ request[r].state \in {"asking", "paying", "returning"} /\ Reward(r, request[r].points)
        /\ Become(r, Done("refused")) /\ UNCHANGED <<free, gaveUp, faults>>
    BY <1>13 DEF RewardRefused, bounds
  <2>2. request[r].points \in Nat /\ request[r].points <= request[r].points
    BY <1>d, <2>1
  <2>3. QED
    BY <1>12, <2>1, <2>2 DEF Final
<1>14. ASSUME NEW r \in Requests, RewardFails(r) PROVE FreeInv' /\ RefusalsTakeNoPoints'
  <2>1. /\ request[r].state \in {"asking", "paying", "returning"} /\ Become(r, Done("failed"))
        /\ UNCHANGED free /\ faults' # 0
    BY <1>14, <1>h DEF RewardFails
  <2>2. CASE UNCHANGED <<counter, late>>
    BY <1>2, <2>1, <2>2 DEF Taken, Final
  <2>3. CASE ~UNCHANGED <<counter, late>>
    <3>1. PICK points \in {request[r].required, request[r].points} :
            Reward(r, points) /\ (points = request[r].required => request[r].state = "paying" \/ points = request[r].points)
      BY <1>14, <2>3 DEF RewardFails
    <3>2. points \in Nat /\ points <= request[r].points
      BY <1>d, <2>1, <3>1
    <3>3. QED
      BY <1>12, <2>1, <3>1, <3>2 DEF Final
  <2>4. QED
    BY <2>2, <2>3
<1>15. ASSUME NEW r \in Requests, Handle(r) \/ IgnoreAnswer(r) PROVE FreeInv' /\ RefusalsTakeNoPoints'
  BY <1>15, <1>g DEF Handle, IgnoreAnswer, books, bounds
<1>16. ASSUME NEW r \in Requests, HandleFails(r) PROVE FreeInv' /\ RefusalsTakeNoPoints'
  BY <1>16, <1>g, <1>h DEF HandleFails, books
<1>17. ASSUME NEW w \in Workers, ForgetAttempt(w) PROVE FreeInv' /\ RefusalsTakeNoPoints'
  BY <1>17, <1>g DEF ForgetAttempt, books, bounds
<1>18. ASSUME Deposit \/ UNCHANGED vars PROVE FreeInv' /\ RefusalsTakeNoPoints'
  BY <1>18, <1>g DEF Deposit, vars, books, bounds
\* The requests of a worker let go of their points, which stay in the counter.
<1>19. ASSUME NEW w \in Workers, Restart(w) PROVE FreeInv' /\ RefusalsTakeNoPoints'
  <2>1. /\ UNCHANGED <<counter, free, late>> /\ faults' # 0
        /\ \A r \in Requests : request'[r] = request[r] \/ request'[r] = Done("failed")
    BY <1>19, <1>h DEF Restart, books
  <2>2. \A r \in Requests : HeldBy(r, Done("failed")) = {} /\ KeptBy(r, Done("failed")) = {}
    BY DEF HeldBy, KeptBy, Holds, Done
  <2>3. Held' \subseteq Held
    <3>1. Held' = UNION {HeldBy(r, request'[r]) : r \in Requests}
      BY DEF Held, HeldBy, Holds
    <3>2. QED
      BY <2>1, <2>2, <3>1 DEF Held
  <2>4. Kept' \subseteq Kept
    <3>1. Kept' = UNION {KeptBy(r, request'[r]) : r \in Requests}
      BY DEF Kept, KeptBy, Holds
    <3>2. QED
      BY <2>1, <2>2, <3>1 DEF Kept
  <2>5. /\ IsFiniteSet(Held') /\ Cardinality(Held') <= Cardinality(Held) /\ Cardinality(Held') \in Nat
        /\ IsFiniteSet(Kept') /\ Cardinality(Kept') <= Cardinality(Kept) /\ Cardinality(Kept') \in Nat
    BY <1>a, <2>3, <2>4, FS_Subset, FS_CardinalityType
  <2>6. Taken' = Taken
    BY <2>1 DEF Taken
  <2>7. free' + Cardinality(Held') <= Taken' + late' /\ free' + Cardinality(Kept') <= Limit + late'
    BY <1>a, <2>1, <2>5, <2>6
  <2>8. QED
    BY <1>i, <2>1, <2>5, <2>7 DEF FreeInv
\* The points of all requests are of an earlier window now.
<1>20. ASSUME EndWindow PROVE FreeInv' /\ RefusalsTakeNoPoints'
  <2>1. /\ counter' = Nothing /\ free' = 0 /\ late' = 0 /\ UNCHANGED <<gaveUp, faults>>
        /\ \A r \in Requests : request'[r] =
             IF request[r].state \in {"asking", "paying", "returning"}
             THEN [request[r] EXCEPT !.stale = TRUE] ELSE request[r]
    BY <1>20 DEF EndWindow
  <2>2. ASSUME NEW r \in Requests PROVE ~Holds(request'[r])
    <3>1. CASE request[r].state \in {"asking", "paying", "returning"}
      <4>1. request[r] \in Taking /\ request'[r] = [request[r] EXCEPT !.stale = TRUE]
        BY <1>d, <2>1, <3>1
      <4>2. request'[r].stale = TRUE
        BY <4>1, TakingStale
      <4>3. QED
        BY <4>2 DEF Holds
    <3>2. CASE request[r].state \notin {"asking", "paying", "returning"}
      BY <2>1, <3>2 DEF Holds
    <3>3. QED
      BY <3>1, <3>2
  <2>3. Held' = {}
    <3>1. Held' = UNION {HeldBy(r, request'[r]) : r \in Requests}
      BY DEF Held, HeldBy, Holds
    <3>2. \A r \in Requests : HeldBy(r, request'[r]) = {}
      BY <2>2 DEF HeldBy
    <3>3. QED
      BY <3>1, <3>2
  <2>4. Kept' = {}
    <3>1. Kept' = UNION {KeptBy(r, request'[r]) : r \in Requests}
      BY DEF Kept, KeptBy, Holds
    <3>2. \A r \in Requests : KeptBy(r, request'[r]) = {}
      BY <2>2 DEF KeptBy
    <3>3. QED
      BY <3>1, <3>2
  <2>5. Taken' = 0
    BY <2>1 DEF Taken
  <2>6. FreeInv'
    BY <1>a, <2>1, <2>3, <2>4, <2>5, FS_EmptySet DEF FreeInv
  <2>7. Taken' = free' - late' + Cardinality(Held')
    BY <2>1, <2>3, <2>5, FS_EmptySet
  <2>8. QED
    BY <1>j, <2>1, <2>6, <2>7
<1>21. QED
  BY <1>1, <1>3, <1>4, <1>5, <1>6, <1>8, <1>9, <1>10, <1>11, <1>13, <1>14, <1>15, <1>16, <1>17,
     <1>18, <1>19, <1>20 DEF Next, RequestStep, CallStep

-------------------------------------------------------------------------------
(* The credits that were taken *)

\* A payment that is matched by what is held of the credits.
LEMMA PaymentMatched ==
  ASSUME NEW x \in Int, NEW x2 \in Int, NEW y \in Int, NEW c \in Int, NEW d \in Int, NEW e \in Int,
         x + c = y, x2 + e = x + d
  PROVE  x2 + (c - d + e) = y
OBVIOUS

\* A deposit.
LEMMA DepositMatched ==
  ASSUME NEW b \in Int, NEW b2 \in Int, NEW p \in Int, NEW c \in Int, NEW i \in Int, NEW k \in Int,
         NEW k2 \in Int, b + p + c = i + k, b2 + k = b + k2
  PROVE  b2 + p + c = i + k2
OBVIOUS

\* Every step keeps the books of the credits.
LEMMA CreditsStep ==
  TypeOK /\ PayInv /\ TypeOK' /\ PayInv' /\ PaidInv /\ [Next]_vars => PaidInv'
<1> SUFFICES ASSUME TypeOK, PayInv, TypeOK', PayInv', PaidInv, [Next]_vars PROVE PaidInv'
  OBVIOUS
<1>a. /\ request \in [Requests -> RequestState] /\ call \in [Requests -> CallState]
      /\ request' \in [Requests -> RequestState] /\ call' \in [Requests -> CallState]
      /\ balance \in Nat /\ paid \in Nat /\ initially \in Nat /\ deposits \in Nat /\ faults \in Nat
      /\ balance' \in Nat /\ paid' \in Nat /\ gaveUp \in BOOLEAN
      /\ IsFiniteSet(Due) /\ Cardinality(Due) \in Nat
  <2>1. /\ balance \in 0..MaxCredits + MaxDeposits /\ balance' \in 0..MaxCredits + MaxDeposits
        /\ initially \in 0..MaxCredits /\ deposits \in 0..MaxDeposits /\ faults \in 0..MaxFaults
        /\ paid \in Nat /\ paid' \in Nat
    BY DEF TypeOK
  <2>2. /\ balance \in Nat /\ balance' \in Nat /\ initially \in Nat /\ deposits \in Nat
        /\ faults \in Nat
    BY <2>1
  <2>3. /\ request \in [Requests -> RequestState] /\ call \in [Requests -> CallState]
        /\ request' \in [Requests -> RequestState] /\ call' \in [Requests -> CallState]
        /\ gaveUp \in BOOLEAN
    BY DEF TypeOK
  <2>4. IsFiniteSet(Due) /\ Cardinality(Due) \in Nat
    BY FS_CardinalityType DEF PaidInv
  <2>5. QED
    BY <2>1, <2>2, <2>3, <2>4
<1>b. ASSUME NEW r \in Requests
      PROVE  /\ request[r] \in RequestState /\ call[r] \in CallState /\ Payable(request[r])
             /\ request'[r] \in RequestState /\ call'[r] \in CallState /\ Payable(request'[r])
  BY <1>a DEF PayInv
<1>c. ASSUME ~gaveUp, faults = 0
      PROVE  /\ balance + paid + Cardinality(Due) = initially + deposits
             /\ \A r \in Requests :
                  /\ call[r].state # "failed"
                  /\ request[r].state = "asking" <=> call[r].state # "none"
                  /\ request[r].state = "asking" => request[r].required = call[r].required
  BY <1>c DEF PaidInv, CallInv, CreditsBuyTests
<1>d. ASSUME Fault PROVE faults' # 0
  BY <1>d, <1>a DEF Fault
<1>e. /\ \A s \in Final : Done(s).state \notin {"asking", "paying"}
      /\ New.state \notin {"asking", "paying"} /\ NoCall.state = "none"
  BY DEF Done, New, NoCall, Final
\* A step of one request and its call, in a behaviour with faults.
<1>f. ASSUME NEW r \in Requests, gaveUp' = TRUE \/ faults' # 0,
             \A q \in Requests : q # r => request'[q] = request[q] /\ call'[q] = call[q]
      PROVE  PaidInv'
  <2>1. IsFiniteSet(Due')
    BY <1>a, <1>b, <1>f, DueStep
  <2>2. QED
    BY <1>f, <2>1 DEF PaidInv, CallInv, CreditsBuyTests
\* A step of one request and its call, in one without.
<1>g. ASSUME NEW r \in Requests, UNCHANGED <<gaveUp, faults, initially, deposits>>,
             \A q \in Requests : q # r => request'[q] = request[q] /\ call'[q] = call[q],
             ~gaveUp /\ faults = 0 =>
               /\ call'[r].state # "failed"
               /\ request'[r].state = "asking" <=> call'[r].state # "none"
               /\ request'[r].state = "asking" => request'[r].required = call'[r].required
               /\ balance' + paid' + DueCount(request'[r], call'[r]) =
                    balance + paid + DueCount(request[r], call[r])
      PROVE  PaidInv'
  <2>1. /\ IsFiniteSet(Due')
        /\ Cardinality(Due') = Cardinality(Due) - DueCount(request[r], call[r]) + DueCount(request'[r], call'[r])
        /\ DueCount(request[r], call[r]) \in Nat /\ DueCount(request'[r], call'[r]) \in Nat
    BY <1>a, <1>b, <1>g, DueStep
  <2>2. CallInv'
    BY <1>c, <1>g DEF CallInv
  <2>3. ASSUME ~gaveUp, faults = 0
        PROVE  balance' + paid' + Cardinality(Due') = initially' + deposits'
    <3>1. /\ balance + paid + Cardinality(Due) = initially + deposits
          /\ balance' + paid' + DueCount(request'[r], call'[r]) =
                balance + paid + DueCount(request[r], call[r])
          /\ initially' = initially /\ deposits' = deposits
      BY <1>c, <1>g, <2>3
    <3> DEFINE d == DueCount(request[r], call[r])
               e == DueCount(request'[r], call'[r])
               c == Cardinality(Due)
    <3>2. d \in Nat /\ e \in Nat /\ c \in Nat /\ Cardinality(Due') = c - d + e
      BY <1>a, <2>1
    <3>3. balance + paid + c = initially + deposits /\ balance' + paid' + e = balance + paid + d
      BY <3>1
    <3> HIDE DEF d, e, c
    <3>4. balance' + paid' + (c - d + e) = initially + deposits
      <4> DEFINE x == balance + paid
                 x2 == balance' + paid'
                 y == initially + deposits
      <4>1. x \in Int /\ x2 \in Int /\ y \in Int
        BY <1>a
      <4>2. x + c = y /\ x2 + e = x + d
        BY <3>3
      <4> HIDE DEF x, x2, y
      <4>3. x2 + (c - d + e) = y
        BY <3>2, <4>1, <4>2, PaymentMatched
      <4>4. QED
        BY <4>3 DEF x2, y
    <3>5. QED
      BY <3>1, <3>2, <3>4
  <2>4. CreditsBuyTests'
    BY <1>g, <2>3 DEF CreditsBuyTests
  <2>5. QED
    BY <2>1, <2>2, <2>4 DEF PaidInv
\* A step of a request that waits for no answer, before and after.
<1>h. ASSUME NEW r \in Requests, UNCHANGED <<balance, call, paid, initially, deposits, gaveUp, faults>>,
             \A q \in Requests : q # r => request'[q] = request[q],
             request[r].state \notin {"asking", "paying"}, request'[r].state \notin {"asking", "paying"}
      PROVE  PaidInv'
  <2>1. DueCount(request[r], call[r]) = 0 /\ DueCount(request'[r], call'[r]) = 0
    BY <1>h DEF DueCount
  <2>2. QED
    BY <1>c, <1>g, <1>h, <2>1
<1>i. ASSUME NEW r \in Requests, NEW v, Become(r, v)
      PROVE  request'[r] = v /\ \A q \in Requests : q # r => request'[q] = request[q]
  BY <1>a, <1>i DEF Become
<1>1. ASSUME NEW r \in Requests, NEW w \in Workers, NEW max \in Sizes \cup {Nothing}, Precheck(r, w, max)
      PROVE  PaidInv'
  BY <1>1, <1>e, <1>h, <1>i DEF Precheck, books, bounds, Final
<1>2. ASSUME NEW r \in Requests, FindNoProbes(r) PROVE PaidInv'
  BY <1>2, <1>e, <1>h, <1>i DEF FindNoProbes, books, bounds, Final
<1>3. ASSUME NEW r \in Requests, NEW n \in Sizes, Within(r, n) PROVE PaidInv'
  BY <1>3, <1>e, <1>h, <1>i DEF Within, bounds, Final
<1>4. ASSUME NEW r \in Requests, NEW n \in Sizes, Exceed(r, n) PROVE PaidInv'
  <2> DEFINE required == Required(Taken + n, n)
             taking(state, m) == [state |-> state, worker |-> request[r].worker, points |-> n,
                                  required |-> m, stale |-> FALSE]
  <2>1. request[r].state = "finding" /\ UNCHANGED <<balance, books, bounds>>
    BY <1>4 DEF Exceed
  <2>2. CASE Become(r, taking("returning", 0)) /\ UNCHANGED call
    BY <1>h, <1>i, <2>1, <2>2 DEF books, bounds
  <2>3. CASE /\ Become(r, taking("asking", required))
             /\ call' = [call EXCEPT ![r] = [state |-> "sent", required |-> required]]
    <3>1. /\ request'[r].state = "asking" /\ request'[r].required = required
          /\ call'[r].state = "sent" /\ call'[r].required = required
      BY <1>a, <1>i, <2>3
    <3>2. \A q \in Requests : q # r => request'[q] = request[q] /\ call'[q] = call[q]
      BY <1>a, <1>i, <2>3
    <3>3. DueCount(request[r], call[r]) = 0 /\ DueCount(request'[r], call'[r]) = 0
      BY <2>1, <3>1 DEF DueCount
    <3>4. QED
      BY <1>g, <2>1, <3>1, <3>2, <3>3 DEF books, bounds
  <2>4. QED
    BY <1>4, <2>2, <2>3 DEF Exceed
<1>5. ASSUME NEW r \in Requests, ConsumeFails(r) PROVE PaidInv'
  BY <1>5, <1>d, <1>f, <1>i DEF ConsumeFails
<1>6. ASSUME NEW r \in Requests, Refused(r) PROVE PaidInv'
  <2>1. /\ request[r].state = "asking" /\ call[r].state = "refused" /\ UNCHANGED <<balance, books, bounds>>
        /\ Become(r, [request[r] EXCEPT !.state = "returning"]) /\ call' = [call EXCEPT ![r] = NoCall]
    BY <1>6 DEF Refused
  <2>2. request[r] \in Taking
    BY <1>b, <2>1, RequestFields
  <2>3. request'[r].state = "returning" /\ call'[r] = NoCall
    <3>1. request'[r] = [request[r] EXCEPT !.state = "returning"] /\ call'[r] = NoCall
      BY <1>a, <1>i, <2>1
    <3>2. "returning" \in {"asking", "paying", "returning"}
      OBVIOUS
    <3>3. LET u == [request[r] EXCEPT !.state = "returning"]
          IN  u.state = "returning" /\ u.required = request[r].required
      BY <2>2, <3>2, TakingBecomes
    <3>4. QED
      BY <3>1, <3>3
  <2>4. \A q \in Requests : q # r => request'[q] = request[q] /\ call'[q] = call[q]
    BY <1>a, <1>i, <2>1
  <2>5. DueCount(request[r], call[r]) = 0 /\ DueCount(request'[r], call'[r]) = 0
    BY <2>1, <2>3 DEF DueCount
  <2>6. QED
    BY <1>e, <1>g, <2>1, <2>3, <2>4, <2>5 DEF books, bounds
\* The credits the call took are those the request will not get back.
<1>7. ASSUME NEW r \in Requests, Granted(r) PROVE PaidInv'
  <2>1. /\ request[r].state = "asking" /\ call[r].state = "granted" /\ UNCHANGED <<balance, books, bounds>>
        /\ Become(r, [request[r] EXCEPT !.state = "paying"]) /\ call' = [call EXCEPT ![r] = NoCall]
    BY <1>7 DEF Granted
  <2>2. request[r] \in Taking
    BY <1>b, <2>1, RequestFields
  <2>3. /\ request'[r].state = "paying" /\ request'[r].required = request[r].required /\ call'[r] = NoCall
    <3>1. request'[r] = [request[r] EXCEPT !.state = "paying"] /\ call'[r] = NoCall
      BY <1>a, <1>i, <2>1
    <3>2. "paying" \in {"asking", "paying", "returning"}
      OBVIOUS
    <3>3. LET u == [request[r] EXCEPT !.state = "paying"]
          IN  u.state = "paying" /\ u.required = request[r].required
      BY <2>2, <3>2, TakingBecomes
    <3>4. QED
      BY <3>1, <3>3
  <2>4. \A q \in Requests : q # r => request'[q] = request[q] /\ call'[q] = call[q]
    BY <1>a, <1>i, <2>1
  <2>5. DueCount(request[r], call[r]) = call[r].required /\ DueCount(request'[r], call'[r]) = request[r].required
    BY <2>1, <2>3 DEF DueCount
  <2>6. QED
    BY <1>c, <1>e, <1>g, <2>1, <2>3, <2>4, <2>5 DEF books, bounds
<1>8. ASSUME NEW r \in Requests, CallFailed(r) PROVE PaidInv'
  <2>1. ~(~gaveUp /\ faults = 0)
    BY <1>8, <1>c DEF CallFailed
  <2>2. \A q \in Requests : q # r => request'[q] = request[q] /\ call'[q] = call[q]
    BY <1>8, <1>a, <1>i DEF CallFailed
  <2>3. QED
    BY <1>8, <1>g, <2>1, <2>2 DEF CallFailed, books, bounds
<1>9. ASSUME NEW r \in Requests, TimeOut(r) PROVE PaidInv'
  BY <1>9, <1>f, <1>i DEF TimeOut
<1>10. ASSUME NEW r \in Requests, RewardPaid(r) PROVE PaidInv'
  <2>1. /\ request[r].state = "paying" /\ paid' = paid + request[r].required
        /\ Become(r, Done("accepted")) /\ UNCHANGED <<balance, call, initially, bounds>>
    BY <1>10 DEF RewardPaid
  <2>2. request[r].required \in Nat
    BY <1>b, <2>1, RequestFields, TakingFields
  <2>3. request'[r] = Done("accepted") /\ \A q \in Requests : q # r => request'[q] = request[q]
    BY <1>i, <2>1
  <2>4. DueCount(request[r], call[r]) = request[r].required /\ DueCount(request'[r], call'[r]) = 0
    BY <1>e, <2>1, <2>3 DEF DueCount, Final
  <2>5. balance' + paid' + 0 = balance + paid + request[r].required
    BY <1>a, <2>1, <2>2
  <2>6. QED
    BY <1>c, <1>e, <1>g, <2>1, <2>3, <2>4, <2>5 DEF bounds, Final
<1>11. ASSUME NEW r \in Requests, RewardRefused(r) PROVE PaidInv'
  BY <1>11, <1>e, <1>h, <1>i DEF RewardRefused, bounds, Final
<1>12. ASSUME NEW r \in Requests, RewardFails(r) PROVE PaidInv'
  BY <1>12, <1>d, <1>f, <1>i DEF RewardFails
\* The credits leave the balance for a request that waits for them.
<1>13. ASSUME NEW r \in Requests, Handle(r) PROVE PaidInv'
  <2>1. /\ call[r].state = "sent" /\ UNCHANGED <<request, books, bounds>>
        /\ balance' = IF balance >= call[r].required THEN balance - call[r].required ELSE balance
        /\ call' = [call EXCEPT ![r] =
              [state |-> IF balance >= call[r].required THEN "granted" ELSE "refused",
               required |-> call[r].required, deposits |-> deposits]]
    BY <1>13 DEF Handle
  <2>2. call[r].required \in Nat
    <3>1. call[r].required \in 1..MaxSize
      BY <1>b, <2>1, CallFields
    <3>2. QED
      BY <3>1
  <2>3. /\ call'[r].state = IF balance >= call[r].required THEN "granted" ELSE "refused"
        /\ call'[r].required = call[r].required /\ request'[r] = request[r]
        /\ \A q \in Requests : q # r => request'[q] = request[q] /\ call'[q] = call[q]
    BY <1>a, <2>1
  <2>4. ASSUME ~gaveUp, faults = 0
        PROVE  balance' + paid' + DueCount(request'[r], call'[r]) =
                 balance + paid + DueCount(request[r], call[r])
    <3>1. request[r].state = "asking"
      BY <1>c, <2>1, <2>4
    <3>2. DueCount(request[r], call[r]) = 0
      BY <2>1, <3>1 DEF DueCount
    <3>3. CASE balance >= call[r].required
      <4>1. DueCount(request'[r], call'[r]) = call[r].required
        BY <2>3, <3>1, <3>3 DEF DueCount
      <4>2. balance' = balance - call[r].required /\ paid' = paid
        BY <2>1, <3>3 DEF books
      <4>3. QED
        BY <1>a, <2>2, <3>2, <4>1, <4>2
    <3>4. CASE ~(balance >= call[r].required)
      <4>1. DueCount(request'[r], call'[r]) = 0
        BY <2>3, <3>1, <3>4 DEF DueCount
      <4>2. balance' = balance /\ paid' = paid
        BY <2>1, <3>4 DEF books
      <4>3. QED
        BY <1>a, <3>2, <4>1, <4>2
    <3>5. QED
      BY <3>3, <3>4
  <2>5. QED
    BY <1>c, <1>g, <2>1, <2>3, <2>4 DEF books, bounds
<1>14. ASSUME NEW r \in Requests, HandleFails(r) PROVE PaidInv'
  <2>1. \A q \in Requests : q # r => request'[q] = request[q] /\ call'[q] = call[q]
    BY <1>14, <1>a DEF HandleFails
  <2>2. QED
    BY <1>14, <1>d, <1>f, <2>1 DEF HandleFails
<1>15. ASSUME NEW r \in Requests, IgnoreAnswer(r) PROVE PaidInv'
  <2>1. ~(~gaveUp /\ faults = 0)
    BY <1>15, <1>c DEF IgnoreAnswer, Answers
  <2>2. \A q \in Requests : q # r => request'[q] = request[q] /\ call'[q] = call[q]
    BY <1>15, <1>a DEF IgnoreAnswer
  <2>3. QED
    BY <1>15, <1>g, <2>1, <2>2 DEF IgnoreAnswer, books, bounds
<1>16. ASSUME NEW w \in Workers, Restart(w) PROVE PaidInv'
  <2>1. /\ UNCHANGED call /\ faults' # 0
        /\ \A r \in Requests : request'[r] = request[r] \/ request'[r] = Done("failed")
    BY <1>16, <1>d DEF Restart
  <2>2. Due' \subseteq Due
    <3>1. Due' = UNION {DueBy(r, request'[r], call'[r]) : r \in Requests}
      BY DEF Due, DueBy
    <3>2. \A r \in Requests : \A c : DueBy(r, Done("failed"), c) = {}
      BY DEF DueBy, Done
    <3>3. QED
      BY <2>1, <3>1, <3>2 DEF Due
  <2>3. IsFiniteSet(Due')
    BY <1>a, <2>2, FS_Subset
  <2>4. QED
    BY <2>1, <2>3 DEF PaidInv, CallInv, CreditsBuyTests
\* A step that changes no control state and no call.
<1>17. ASSUME UNCHANGED <<call, paid, initially, gaveUp, faults>>,
              \A r \in Requests : request'[r].state = request[r].state /\
                (request[r].state \in {"asking", "paying"} => request'[r].required = request[r].required),
              balance' + deposits = balance + deposits'
       PROVE  PaidInv'
  <2>1. Due' = Due
    <3>1. Due' = UNION {DueBy(r, request'[r], call'[r]) : r \in Requests}
      BY DEF Due, DueBy
    <3>2. \A r \in Requests : DueBy(r, request'[r], call'[r]) = DueBy(r, request[r], call[r])
      BY <1>17 DEF DueBy
    <3>3. QED
      BY <3>1, <3>2 DEF Due
  <2>2. CallInv'
    BY <1>c, <1>17 DEF CallInv
  <2>3. ASSUME ~gaveUp, faults = 0
        PROVE  balance' + paid' + Cardinality(Due') = initially' + deposits'
    <3>1. balance + paid + Cardinality(Due) = initially + deposits
      BY <1>c, <2>3
    <3>2. deposits' \in Nat
      BY DEF TypeOK
    <3>3. paid' = paid /\ initially' = initially /\ balance' + deposits = balance + deposits'
      BY <1>17
    <3>4. QED
      <5>1. /\ balance \in Int /\ paid \in Int /\ balance' \in Int /\ initially \in Int
            /\ deposits \in Int /\ deposits' \in Int /\ Cardinality(Due) \in Int
        BY <1>a, <3>2
      <5>2. balance' + paid + Cardinality(Due) = initially + deposits'
        BY <3>1, <3>3, <5>1, DepositMatched
      <5>3. QED
        BY <2>1, <3>3, <5>2
  <2>4. CreditsBuyTests'
    BY <1>17, <2>3 DEF CreditsBuyTests
  <2>5. QED
    BY <1>a, <2>1, <2>2, <2>4 DEF PaidInv
<1>18. ASSUME EndWindow PROVE PaidInv'
  <2>1. ASSUME NEW r \in Requests
        PROVE  request'[r].state = request[r].state /\
                (request[r].state \in {"asking", "paying"} => request'[r].required = request[r].required)
    <3>1. CASE request[r].state \in {"asking", "paying", "returning"}
      <4>1. request[r] \in Taking /\ request'[r] = [request[r] EXCEPT !.stale = TRUE]
        BY <1>18, <1>b, <3>1, RequestFields DEF EndWindow
      <4>2. QED
        BY <4>1, TakingStale
    <3>2. CASE request[r].state \notin {"asking", "paying", "returning"}
      BY <1>18, <3>2 DEF EndWindow
    <3>3. QED
      BY <3>1, <3>2
  <2>2. /\ UNCHANGED <<call, paid, initially, gaveUp, faults>>
        /\ balance' + deposits = balance + deposits'
    BY <1>18 DEF EndWindow
  <2>3. QED
    BY <1>17, <2>1, <2>2
<1>19. ASSUME NEW w \in Workers, ForgetAttempt(w) PROVE PaidInv'
  BY <1>19, <1>17 DEF ForgetAttempt, books, bounds
<1>20. ASSUME Deposit PROVE PaidInv'
  <2>1. balance' + deposits = balance + deposits'
    BY <1>20, <1>a DEF Deposit
  <2>2. QED
    BY <1>20, <1>17, <2>1 DEF Deposit, books
<1>21. ASSUME UNCHANGED vars PROVE PaidInv'
  BY <1>21, <1>17 DEF vars, books, bounds
<1>22. QED
  BY <1>1, <1>2, <1>3, <1>4, <1>5, <1>6, <1>7, <1>8, <1>9, <1>10, <1>11, <1>12, <1>13, <1>14,
     <1>15, <1>16, <1>18, <1>19, <1>20, <1>21 DEF Next, RequestStep, CallStep

-------------------------------------------------------------------------------
(* The theorems *)

CountsInv == CallInv /\ FreeInv /\ RefusalsTakeNoPoints /\ PaidInv

\* The counter, what is in flight and the credits fit together, whatever overlaps and fails.
THEOREM PointsAreCounted == Spec => []CountsInv
<1>1. TypeOK /\ Init => CountsInv
  <2> SUFFICES ASSUME TypeOK, Init PROVE CountsInv
    OBVIOUS
  <2>1. /\ request = [r \in Requests |-> New] /\ call = [r \in Requests |-> NoCall]
        /\ counter = Nothing /\ free = 0 /\ late = 0 /\ paid = 0 /\ deposits = 0 /\ initially = balance
        /\ balance \in Nat /\ Limit \in Nat
    BY Numbers DEF Init
  <2>2. Held = {} /\ Kept = {} /\ Due = {}
    BY <2>1 DEF Held, Kept, Due, HeldBy, KeptBy, DueBy, Holds, New, NoCall
  <2>3. CallInv
    BY <2>1 DEF CallInv, New, NoCall
  <2>4. Taken = 0
    BY <2>1 DEF Taken
  <2>5. FreeInv /\ RefusalsTakeNoPoints
    BY <2>1, <2>2, <2>4, FS_EmptySet DEF FreeInv, RefusalsTakeNoPoints
  <2>6. PaidInv
    BY <2>1, <2>2, <2>3, FS_EmptySet DEF PaidInv, CreditsBuyTests
  <2>7. QED
    BY <2>3, <2>5, <2>6 DEF CountsInv
<1>2. TypeOK /\ PayInv /\ TypeOK' /\ PayInv' /\ CountsInv /\ [Next]_vars => CountsInv'
  BY PointsStep, CreditsStep DEF CountsInv, PaidInv
<1>3. QED
  BY <1>1, <1>2, RefusalsStand, PTL DEF Spec

\* Unless a worker gave up on a call or something failed, the points of refused requests come
\* back, in their window or in a later one: for any number of requests in flight.
THEOREM RefusalsNeverTakePoints == Spec => []RefusalsTakeNoPoints
BY PointsAreCounted, PTL DEF CountsInv

\* Unless a worker gave up on a call or something failed, credits are only taken for
\* measurements that are created or about to be.
THEOREM CreditsAlwaysBuyTests == Spec => []CreditsBuyTests
BY PointsAreCounted, PTL DEF CountsInv, PaidInv

\* A part of a sum is at most what the sum is at most.
LEMMA PartAtMost ==
  ASSUME NEW f \in Nat, NEW k \in Nat, NEW m \in Int, f + k <= m
  PROVE  f <= m
OBVIOUS

\* What is left of a number after a smaller one is within the same bound.
LEMMA PartWithin ==
  ASSUME NEW M \in Nat, NEW n \in Nat, NEW m \in Nat, n \in 1..M, m # 0, m <= n, n # m
  PROVE  n - m \in 1..M
OBVIOUS

\* A step of the limiter is one that the promise allows.
LEMMA PromiseStep ==
  TypeOK /\ PayInv /\ FreeInv' /\ TypeOK' /\ [Next]_vars => [Promise!Next]_<<free, Limit + late>>
<1> SUFFICES ASSUME TypeOK, PayInv, FreeInv', TypeOK', [Next]_vars
             PROVE  Promise!Next \/ UNCHANGED <<free, Limit + late>>
  BY DEF Promise!vars
<1>a. /\ free \in Nat /\ late \in Nat /\ Limit \in Nat /\ free' \in Nat /\ late' \in Nat
  BY Numbers DEF TypeOK
<1>s. MaxSize \in Nat
  BY MaxSizeBounds, SizesAssumption
\* More free tests are within what the window allows.
<1>b. ASSUME late' = late, NEW n \in 1..MaxSize, free' = free + n PROVE Promise!Accept
  <2>1. free' <= Limit + late'
    <3>1. free' + Cardinality(Kept') <= Limit + late' /\ Cardinality(Kept') \in Nat
      BY FS_CardinalityType DEF FreeInv
    <3>2. Limit + late' \in Int
      BY <1>a
    <3>3. QED
      BY <1>a, <3>1, <3>2, PartAtMost
  <2>2. QED
    BY <1>b, <2>1 DEF Promise!Accept
<1>c. ASSUME free' = free, NEW n \in 1..MaxSize, late' = late + n PROVE Promise!GiveBackLate
  <2>1. n \in Nat
    OBVIOUS
  <2>2. Limit + late' = Limit + late + n
    BY <1>a, <1>c, <2>1
  <2>3. QED
    BY <1>c, <2>2 DEF Promise!GiveBackLate
<1>d. ASSUME NEW r \in Requests, request[r].state \in {"asking", "paying", "returning"}
      PROVE  /\ request[r].points \in 1..MaxSize /\ request[r].points \in Nat
             /\ request[r].required \in 0..MaxSize /\ request[r].required \in Nat
             /\ request[r].state # "returning" =>
                  request[r].required <= request[r].points /\ request[r].required # 0
  <2>1. request[r] \in RequestState /\ Payable(request[r])
    BY DEF TypeOK, PayInv
  <2>2. request[r] \in Taking
    BY <1>d, <2>1, RequestFields
  <2>3. /\ request[r].points \in 1..MaxSize /\ request[r].points \in Nat
        /\ request[r].required \in 0..MaxSize /\ request[r].required \in Nat
    BY <2>2, TakingFields
  <2>4. QED
    BY <1>d, <2>1, <2>3 DEF Payable
<1>e. ASSUME NEW r \in Requests, request[r].state \in {"asking", "paying", "returning"}, free' = free,
             NEW points \in 1..MaxSize, UNCHANGED late \/ Reward(r, points)
      PROVE  Promise!Next \/ UNCHANGED <<free, Limit + late>>
  BY <1>c, <1>e DEF Reward, Promise!Next
<1>1. ASSUME NEW r \in Requests, NEW n \in Sizes, Within(r, n) PROVE Promise!Next
  BY <1>1, <1>b, MaxSizeBounds DEF Within, Promise!Next
<1>2. ASSUME NEW r \in Requests, RewardPaid(r) PROVE Promise!Next \/ UNCHANGED <<free, Limit + late>>
  <2> DEFINE m == request[r].required
             n == request[r].points
  <2>1. /\ request[r].state = "paying" /\ Reward(r, m)
        /\ free' = IF request[r].stale THEN free ELSE free + (n - m)
    BY <1>2 DEF RewardPaid
  <2>2. /\ m \in 0..MaxSize /\ m \in Nat /\ n \in 1..MaxSize /\ n \in Nat /\ m <= n /\ m # 0
    BY <1>d, <2>1
  <2>3. CASE request[r].stale
    <3>1. m \in 1..MaxSize
      BY <2>2
    <3>2. QED
      BY <1>e, <2>1, <2>3, <3>1
  <2>4. CASE ~request[r].stale
    <3>1. late' = late /\ free' = free + (n - m)
      BY <2>1, <2>4 DEF Reward
    <3>2. CASE n = m
      BY <1>a, <2>2, <3>1, <3>2
    <3>3. CASE n # m
      <4>1. n - m \in 1..MaxSize
        BY <1>s, <2>2, <3>3, PartWithin
      <4>2. QED
        BY <1>b, <3>1, <4>1 DEF Promise!Next
    <3>4. QED
      BY <3>2, <3>3
  <2>5. QED
    BY <2>3, <2>4
<1>3. ASSUME NEW r \in Requests, RewardRefused(r) PROVE Promise!Next \/ UNCHANGED <<free, Limit + late>>
  BY <1>3, <1>d, <1>e DEF RewardRefused
<1>4. ASSUME NEW r \in Requests, RewardFails(r) PROVE Promise!Next \/ UNCHANGED <<free, Limit + late>>
  <2>1. request[r].state \in {"paying", "returning"} /\ free' = free
    BY <1>4 DEF RewardFails
  <2>2. \/ UNCHANGED late
        \/ request[r].state = "paying" /\ Reward(r, request[r].required)
        \/ request[r].state = "returning" /\ Reward(r, request[r].points)
    BY <1>4 DEF RewardFails
  <2>3. request[r].state = "paying" => request[r].required \in 1..MaxSize
    BY <1>d, <2>1
  <2>4. QED
    BY <1>d, <1>e, <2>1, <2>2, <2>3
<1>5. ASSUME EndWindow PROVE Promise!Next
  <2>1. free' = 0 /\ Limit + late' = Limit
    BY <1>5, <1>a DEF EndWindow
  <2>2. QED
    BY <2>1 DEF Promise!Next, Promise!NewWindow
<1>6. ASSUME UNCHANGED <<free, late>> PROVE UNCHANGED <<free, Limit + late>>
  BY <1>6
<1>7. ASSUME NEW r \in Requests, NEW w \in Workers, NEW max \in Sizes \cup {Nothing}, Precheck(r, w, max)
      PROVE  UNCHANGED <<free, late>>
  BY <1>7 DEF Precheck, books
<1>8. ASSUME NEW r \in Requests, NEW n \in Sizes, Exceed(r, n) PROVE UNCHANGED <<free, late>>
  BY <1>8 DEF Exceed, books
<1>9. ASSUME NEW r \in Requests, \/ FindNoProbes(r) \/ ConsumeFails(r) \/ Refused(r) \/ Granted(r)
                                 \/ CallFailed(r) \/ TimeOut(r) \/ CallStep(r)
      PROVE  UNCHANGED <<free, late>>
  BY <1>9 DEF FindNoProbes, ConsumeFails, Refused, Granted, CallFailed, TimeOut, CallStep, Handle,
              HandleFails, IgnoreAnswer, books
<1>10. ASSUME NEW w \in Workers, Restart(w) \/ ForgetAttempt(w) PROVE UNCHANGED <<free, late>>
  BY <1>10 DEF Restart, ForgetAttempt, books
<1>11. ASSUME Deposit \/ UNCHANGED vars PROVE UNCHANGED <<free, late>>
  BY <1>11 DEF Deposit, vars, books
<1>12. QED
  BY <1>1, <1>2, <1>3, <1>4, <1>5, <1>6, <1>7, <1>8, <1>9, <1>10, <1>11 DEF Next, RequestStep

\* In every window the client gets at most Limit tests for nothing, and those that points given
\* back too late add: for any number of requests in flight, of any sizes, with answers and
\* windows that overlap, calls that time out, commands that fail and workers that are replaced.
THEOREM FreeLimitAlwaysKept == Spec => FreeLimitIsKept
<1>1. TypeOK /\ Init => Promise!Init
  <2>1. Init => free = 0 /\ late = 0
    BY DEF Init
  <2>2. Limit \in Nat
    BY BoundsAssumption
  <2>3. QED
    BY <2>1, <2>2 DEF Promise!Init
<1>2. TypeOK /\ PayInv /\ TypeOK' /\ CountsInv' /\ [Next]_vars => [Promise!Next]_(Promise!vars)
  BY PromiseStep DEF CountsInv, Promise!vars
<1>3. QED
  BY <1>1, <1>2, RefusalsStand, PointsAreCounted, PTL DEF Spec, FreeLimitIsKept, Promise!Spec
===============================================================================
