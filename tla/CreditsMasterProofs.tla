-------------------------- MODULE CreditsMasterProofs --------------------------
(***************************************************************************)
(* Proofs about CreditsMaster, for any calls, costs and threshold, any     *)
(* number of credits and deposits, and any number of faults.               *)
(***************************************************************************)
EXTENDS CreditsMaster, TLAPS

\* Only deposits add to the row.
RowInv == Balance <= MaxCredits + deposits

\* A flush that holds the entry of the buffer has one to hold.
EntryInv == flush.state # "idle" /\ flush.object = Nothing => entry # Nothing

\* What is granted and not deducted is in the entry or in the flush.
BooksInv == /\ ~overwritten /\ ~expired => due <= Owed
            /\ ~doubled => Owed <= due + uncertain

\* What a failing flush puts back was granted and not deducted, too.
HeldInv ==
  flush.state = "updating" /\ ~doubled => Held.pending + flush.flushed <= due + uncertain

CInv == RowInv /\ EntryInv /\ BooksInv /\ HeldInv

-------------------------------------------------------------------------------
(* The records of the model *)

\* An entry is not Nothing, and its fields are numbers.
LEMMA EntryFields ==
  ASSUME NEW e \in Entry
  PROVE  e # Nothing /\ e.remaining \in Amounts /\ e.pending \in Nat
BY NothingAssumption DEF Entry

\* What an entry becomes when one of its fields is set.
LEMMA EntrySet ==
  ASSUME NEW e \in Entry, NEW r \in Amounts, NEW p \in Nat
  PROVE  /\ [remaining |-> r, pending |-> p] \in Entry
         /\ [e EXCEPT !.remaining = r] \in Entry /\ [e EXCEPT !.pending = p] \in Entry
         /\ [e EXCEPT !.remaining = r].pending = e.pending
         /\ [e EXCEPT !.pending = p].pending = p
BY DEF Entry

\* The pending credits of the buffer are a number.
LEMMA PendingType ==
  ASSUME entry \in Entry \cup {Nothing}
  PROVE  Pending \in Nat /\ (Pending > 0 => entry # Nothing)
BY EntryFields DEF Pending

\* What each control state of a call carries.
LEMMA CallFields ==
  ASSUME NEW v \in CallState
  PROVE  /\ v.state = "charging" => v.credits \in Costs
         /\ v.state \in {"checking", "asking"} => v.credits \in Costs \cup {0}
         /\ v.state \in {"seeding", "answering"} => v.value \in Amounts
BY DEF CallState, IdleCall

\* What each control state of the flush carries.
LEMMA FlushFields ==
  ASSUME NEW f \in FlushState
  PROVE  /\ f.state \in {"idle", "waiting", "updating", "reading", "refreshing"}
         /\ f = IdleFlush <=> f.state = "idle"
         /\ f.state # "idle" => f.object \in Entry \cup {Nothing}
         /\ f.state \in {"updating", "reading"} => f.flushed \in Nat
         /\ f.state = "refreshing" => f.value \in Amounts
BY DEF FlushState, IdleFlush

\* Letting the buffer go changes nothing of the flush but the entry it holds.
LEMMA DetachedFields ==
  ASSUME flush \in FlushState, entry \in Entry \cup {Nothing}
  PROVE  /\ Detached \in FlushState
         /\ Detached.state = flush.state
         /\ flush.state = "updating" => Detached.flushed = flush.flushed
         /\ flush.state # "idle" =>
              Detached.object = IF flush.object = Nothing THEN entry ELSE flush.object
<1>1. CASE flush # IdleFlush /\ flush.object = Nothing
  <2>1. Detached = [flush EXCEPT !.object = entry]
    BY <1>1 DEF Detached
  <2>0. CASE flush \in [state : {"waiting"}, object : Entry \cup {Nothing}]
    BY <1>1, <2>0, <2>1 DEF FlushState
  <2>2. CASE flush \in [state : {"updating", "reading"}, flushed : Nat, object : Entry \cup {Nothing}]
    BY <1>1, <2>1, <2>2 DEF FlushState
  <2>3. CASE flush \in [state : {"refreshing"}, value : Amounts, object : Entry \cup {Nothing}]
    BY <1>1, <2>1, <2>3 DEF FlushState
  <2>4. QED
    BY <1>1, <2>0, <2>2, <2>3 DEF FlushState
<1>2. CASE ~(flush # IdleFlush /\ flush.object = Nothing)
  <2>1. Detached = flush
    BY <1>2 DEF Detached
  <2>2. QED
    BY <1>2, <2>1, FlushFields
<1>3. QED
  BY <1>1, <1>2


-------------------------------------------------------------------------------
(* The books balance *)

\* A call that takes another control state leaves the others in theirs.
LEMMA BecomeType ==
  ASSUME call \in [Calls -> CallState], NEW c \in Calls, NEW v \in CallState, Become(c, v)
  PROVE  call' \in [Calls -> CallState]
BY DEF Become

\* A row has a balance in the bounds, and no row has none.
LEMMA BalanceType ==
  ASSUME TypeOK
  PROVE  /\ Balance \in Amounts /\ deposits \in Nat
         /\ amount # Nothing => amount = Balance
         /\ Amounts = 0..MaxCredits + MaxDeposits
         /\ MaxCredits \in Nat /\ MaxDeposits \in Nat
BY BoundsAssumption DEF TypeOK, Balance, Amounts

\* The rows of every command stay within what was there and what was deposited.
LEMMA RowStep ==
  ASSUME TypeOK, RowInv, deposits' = deposits, NEW m \in 0..Balance,
         amount' = m \/ amount' = Nothing \/ amount' = amount
  PROVE  amount' \in Amounts \cup {Nothing} /\ RowInv'
<1>1. m \in Amounts /\ m <= Balance
  BY BalanceType
<1>2. amount' \in Amounts \cup {Nothing}
  BY <1>1 DEF TypeOK
<1>3. Balance' <= Balance
  <2>1. CASE amount' = m
    <3>1. Balance' \in {0, m}
      BY <2>1 DEF Balance
    <3>2. Balance \in Nat /\ m <= Balance
      BY <1>1, BalanceType
    <3>3. QED
      BY <3>1, <3>2
  <2>2. CASE amount' = Nothing
    BY <2>2, BalanceType DEF Balance
  <2>3. CASE amount' = amount
    BY <2>3, BalanceType DEF Balance
  <2>4. QED
    BY <2>1, <2>2, <2>3
<1>4. RowInv'
  BY <1>1, <1>2, <1>3, BalanceType DEF RowInv, Balance
<1>5. QED
  BY <1>2, <1>4

\* Every step keeps the types, the bounds and the books.
LEMMA CreditsStep == TypeOK /\ CInv /\ [Next]_vars => (TypeOK /\ CInv)'
<1> SUFFICES ASSUME TypeOK, CInv, [Next]_vars PROVE TypeOK' /\ CInv'
  OBVIOUS
<1>a. /\ amount \in Amounts \cup {Nothing} /\ entry \in Entry \cup {Nothing}
      /\ flush \in FlushState /\ call \in [Calls -> CallState] /\ deposits \in 0..MaxDeposits
      /\ due \in Int /\ uncertain \in Nat /\ faults \in 0..MaxFaults
      /\ overwritten \in BOOLEAN /\ expired \in BOOLEAN /\ doubled \in BOOLEAN
  BY DEF TypeOK
<1>b. RowInv /\ EntryInv /\ BooksInv /\ HeldInv
  BY DEF CInv
<1>c. /\ Pending \in Nat /\ (Pending > 0 => entry # Nothing)
      /\ entry # Nothing => entry \in Entry /\ Pending = entry.pending
  BY <1>a, PendingType DEF Pending
<1>d. /\ Balance \in Amounts /\ Amounts = 0..MaxCredits + MaxDeposits
      /\ MaxCredits \in Nat /\ MaxDeposits \in Nat /\ MaxFaults \in Nat /\ Threshold \in Nat
      /\ amount # Nothing => amount = Balance
  BY BalanceType, BoundsAssumption
<1>e. /\ flush.state \in {"idle", "waiting", "updating", "reading", "refreshing"}
      /\ flush = IdleFlush <=> flush.state = "idle"
      /\ flush.state # "idle" => flush.object \in Entry \cup {Nothing}
      /\ flush.state \in {"updating", "reading"} => flush.flushed \in Nat
      /\ flush.state = "refreshing" => flush.value \in Amounts
  BY <1>a, FlushFields
<1>w. /\ flush.object \in Entry => flush.object # Nothing /\ flush.object.pending \in Nat
      /\ Owed \in Nat
  <2>1. flush.object \in Entry => flush.object # Nothing /\ flush.object.pending \in Nat
    BY EntryFields
  <2>2. QED
    BY <2>1, <1>c, <1>e DEF Owed
\* The entry that a flush holds.
<1>h. flush.state # "idle" =>
        /\ Held \in Entry /\ Held # Nothing /\ Held.pending \in Nat
        /\ flush.object = Nothing => Held.pending = Pending /\ Held = entry
  <2> SUFFICES ASSUME flush.state # "idle"
               PROVE  /\ Held \in Entry
                      /\ flush.object = Nothing => Held.pending = Pending /\ Held = entry
    BY EntryFields
  <2>1. CASE flush.object = Nothing
    BY <1>b, <1>c, <2>1 DEF Held, EntryInv
  <2>2. CASE flush.object # Nothing
    BY <1>e, <2>2 DEF Held
  <2>3. QED
    BY <2>1, <2>2
<1>f. IdleCall \in CallState /\ IdleFlush \in FlushState /\ IdleFlush.state = "idle"
  BY DEF CallState, FlushState, IdleFlush
<1>1. ASSUME NEW c \in Calls, NEW n \in Costs, ConsumeFromBuffer(c, n) PROVE TypeOK' /\ CInv'
  <2>1. /\ entry # Nothing /\ entry.remaining >= n + Threshold /\ due' = due + n
        /\ entry' = [remaining |-> entry.remaining - n, pending |-> entry.pending + n]
        /\ UNCHANGED <<amount, flush, call, deposits, uncertain, marks, faults>>
    BY <1>1 DEF ConsumeFromBuffer, Buffered
  <2>2. n \in Nat /\ entry.remaining \in Amounts /\ entry.pending \in Nat
    BY <1>c, <2>1, CostsAssumption, EntryFields
  <2>3. entry.remaining - n \in Amounts /\ entry.pending + n \in Nat
    BY <1>d, <2>1, <2>2
  <2>4. entry' \in Entry /\ Pending' = Pending + n /\ entry' # Nothing
    BY <1>c, <2>1, <2>3, EntrySet, EntryFields DEF Pending
  <2>5. TypeOK' /\ RowInv'
    BY <1>a, <1>b, <2>1, <2>2, <2>4 DEF TypeOK, RowInv, Balance, marks
  <2>6. EntryInv'
    BY <2>4 DEF EntryInv
  <2>7. Owed' = Owed + n
    BY <1>c, <1>e, <1>w, <2>1, <2>2, <2>4 DEF Owed
  <2>8. BooksInv'
    BY <1>a, <1>b, <1>w, <2>1, <2>2, <2>7 DEF BooksInv, marks
  <2>9. HeldInv'
    <3>1. flush.state # "idle" => Held'.pending \in {Held.pending, Held.pending + n}
      <4>1. entry'.pending = Pending + n
        BY <2>4, <1>c DEF Pending
      <4>2. QED
        BY <1>h, <2>1, <4>1 DEF Held
    <3>2. QED
      BY <1>a, <1>b, <1>e, <1>h, <2>1, <2>2, <3>1 DEF HeldInv, marks
  <2>10. QED
    BY <2>5, <2>6, <2>8, <2>9 DEF CInv
\* A step that leaves the entry, the flush and the books alone.
<1>2. ASSUME UNCHANGED <<entry, flush, books>>,
             amount' \in Amounts \cup {Nothing}, RowInv', call' \in [Calls -> CallState],
             faults' \in 0..MaxFaults
      PROVE  TypeOK' /\ CInv'
  BY <1>2, <1>a, <1>b DEF books, marks, TypeOK, CInv, EntryInv, BooksInv, HeldInv, Held, Owed, Pending
<1>3. ASSUME NEW c \in Calls, NEW n \in Costs, ConsumeFromDb(c, n) PROVE TypeOK' /\ CInv'
  <2>1. [state |-> "charging", credits |-> n] \in CallState
    BY DEF CallState
  <2>2. QED
    BY <1>2, <1>3, <2>1, <1>a, <1>b, BecomeType DEF ConsumeFromDb, RowInv, Balance, books
<1>4. ASSUME NEW c \in Calls, Charge(c) PROVE TypeOK' /\ CInv'
  <2>1. /\ call[c].state = "charging" /\ amount # Nothing /\ amount >= call[c].credits
        /\ amount' = amount - call[c].credits
        /\ UNCHANGED <<entry, flush, books, faults>>
    BY <1>4 DEF Charge, Affords
  <2>2. call[c].credits \in Costs /\ call[c].credits \in Nat
    BY <1>a, <2>1, CallFields, CostsAssumption
  <2>3. amount' \in 0..Balance
    BY <1>d, <2>1, <2>2
  <2>4. [state |-> "checking", credits |-> call[c].credits] \in CallState
    BY <2>2 DEF CallState
  <2>5. call' \in [Calls -> CallState]
    BY <1>4, <1>a, <2>4, BecomeType DEF Charge
  <2>6. amount' \in Amounts \cup {Nothing} /\ RowInv'
    BY <1>b, <2>1, <2>3, RowStep DEF books
  <2>7. QED
    BY <1>2, <1>a, <2>1, <2>5, <2>6
<1>5. ASSUME NEW c \in Calls, Refuse(c) PROVE TypeOK' /\ CInv'
  <2>1. /\ [state |-> "seeding", value |-> 0] \in CallState
        /\ [state |-> "checking", credits |-> 0] \in CallState
    BY <1>d DEF CallState
  <2>2. call' \in [Calls -> CallState]
    BY <1>5, <1>a, <2>1, BecomeType DEF Refuse
  <2>3. QED
    BY <1>2, <1>5, <1>a, <1>b, <2>2 DEF Refuse, RowInv, Balance, books
<1>6. ASSUME NEW c \in Calls, ChargeFails(c) PROVE TypeOK' /\ CInv'
  <2>1. call' \in [Calls -> CallState] /\ faults' \in 0..MaxFaults
    BY <1>6, <1>a, <1>d, <1>f, BecomeType DEF ChargeFails, Fault
  <2>2. CASE UNCHANGED <<amount, books>>
    BY <1>2, <1>6, <1>a, <1>b, <2>1, <2>2 DEF ChargeFails, RowInv, Balance, books
  <2>3. CASE ~UNCHANGED <<amount, books>>
    <3>1. /\ call[c].state = "charging" /\ amount # Nothing /\ amount >= call[c].credits
          /\ amount' = amount - call[c].credits /\ due' = due - call[c].credits
          /\ uncertain' = uncertain + call[c].credits
          /\ UNCHANGED <<entry, flush, deposits, marks>>
      BY <1>6, <2>3 DEF ChargeFails, Affords
    <3>2. call[c].credits \in Nat
      BY <1>a, <3>1, CallFields, CostsAssumption
    <3>3. amount' \in 0..Balance
      BY <1>d, <3>1, <3>2
    <3>4. amount' \in Amounts \cup {Nothing} /\ RowInv'
      BY <1>b, <3>1, <3>3, RowStep
    <3>5. TypeOK'
      BY <1>a, <2>1, <3>1, <3>2, <3>4 DEF TypeOK, marks
    <3>6. EntryInv' /\ Owed' = Owed /\ Held' = Held
      BY <1>b, <3>1 DEF EntryInv, Owed, Pending, Held
    <3>7. BooksInv'
      BY <1>a, <1>b, <1>w, <3>1, <3>2, <3>6 DEF BooksInv, marks
    <3>8. HeldInv'
      BY <1>a, <1>b, <1>e, <1>h, <3>1, <3>2, <3>6 DEF HeldInv, marks
    <3>9. QED
      BY <3>4, <3>5, <3>6, <3>7, <3>8 DEF CInv
  <2>4. QED
    BY <2>2, <2>3
<1>7. ASSUME NEW c \in Calls, ReadBalance(c) PROVE TypeOK' /\ CInv'
  <2>1. \A s \in {"seeding", "answering"} : [state |-> s, value |-> Balance] \in CallState
    BY <1>d DEF CallState
  <2>2. call' \in [Calls -> CallState]
    BY <1>7, <1>a, <2>1, BecomeType DEF ReadBalance
  <2>3. QED
    BY <1>2, <1>7, <1>a, <1>b, <2>2 DEF ReadBalance, RowInv, Balance, books
<1>8. ASSUME NEW c \in Calls, ReadFails(c) PROVE TypeOK' /\ CInv'
  <2>1. call' \in [Calls -> CallState] /\ faults' \in 0..MaxFaults
    BY <1>8, <1>a, <1>d, <1>f, BecomeType DEF ReadFails, Fault
  <2>2. call[c].credits \in Nat
    <3>1. call[c].state \in {"checking", "asking"} /\ call[c] \in CallState
      BY <1>8, <1>a DEF ReadFails
    <3>2. call[c].credits \in Costs \cup {0}
      BY <3>1, CallFields
    <3>3. QED
      <4>1. \A n \in Costs : n \in Nat
        BY CostsAssumption
      <4>2. 0 \in Nat
        OBVIOUS
      <4>3. QED
        BY <3>2, <4>1, <4>2, Zenon
  <2>3. /\ due' = due - call[c].credits /\ uncertain' = uncertain + call[c].credits
        /\ UNCHANGED <<amount, entry, flush, deposits, marks>>
    BY <1>8 DEF ReadFails
  <2>4. TypeOK' /\ RowInv'
    BY <1>a, <1>b, <2>1, <2>2, <2>3 DEF TypeOK, RowInv, Balance, marks
  <2>5. EntryInv' /\ Owed' = Owed /\ Held' = Held
    BY <1>b, <2>3 DEF EntryInv, Owed, Pending, Held
  <2>6. BooksInv'
    BY <1>a, <1>b, <1>w, <2>2, <2>3, <2>5 DEF BooksInv, marks
  <2>7. HeldInv'
    BY <1>a, <1>b, <1>e, <1>h, <2>2, <2>3, <2>5 DEF HeldInv, marks
  <2>8. QED
    BY <2>4, <2>5, <2>6, <2>7 DEF CInv
\* The entry is replaced or removed: the flush keeps the one it holds.
<1>9. ASSUME entry' \in Entry \cup {Nothing}, flush' = Detached
      PROVE  /\ flush' \in FlushState /\ flush'.state = flush.state /\ EntryInv'
             /\ flush.state # "idle" => Held' = Held
             /\ flush.state = "updating" => flush'.flushed = flush.flushed
             /\ Pending' \in Nat /\ Owed' \in Nat
             /\ Listed => Owed' = Pending' + Pending /\ Owed = Pending
             /\ ~Listed => Owed' - Pending' = Owed - Pending
  <2>1. /\ flush' \in FlushState /\ flush'.state = flush.state
        /\ flush.state = "updating" => flush'.flushed = flush.flushed
        /\ flush.state # "idle" =>
             flush'.object = IF flush.object = Nothing THEN entry ELSE flush.object
    BY <1>9, <1>a, DetachedFields
  <2>2. flush.state # "idle" => flush'.object = Held /\ Held' = Held /\ flush'.object # Nothing
    BY <1>h, <2>1 DEF Held
  <2>3. EntryInv'
    BY <2>1, <2>2 DEF EntryInv
  <2>4. Pending' \in Nat
    BY <1>9, PendingType, EntryFields DEF Pending
  <2>5. Listed => Owed' = Pending' + Pending /\ Owed = Pending
    BY <1>c, <1>h, <2>1, <2>2, <2>4 DEF Owed, Listed
  <2>6. ~Listed => Owed' - Pending' = Owed - Pending
    <3>1. CASE flush.state = "waiting" /\ flush.object # Nothing
      BY <1>c, <1>h, <2>1, <2>2, <2>4, <3>1 DEF Owed, Held
    <3>2. CASE flush.state # "waiting"
      BY <1>c, <1>e, <2>1, <2>2, <2>4, <3>2 DEF Owed
    <3>3. QED
      BY <3>1, <3>2 DEF Listed
  <2>7. Owed' \in Nat
    <3>1. CASE flush.state = "waiting"
      <4>1. Owed' = Pending' + Held.pending
        BY <2>1, <2>2, <3>1 DEF Owed
      <4>2. QED
        BY <1>h, <2>4, <3>1, <4>1
    <3>2. CASE flush.state = "updating"
      <4>1. Owed' = Pending' + flush.flushed
        BY <2>1, <3>2 DEF Owed
      <4>2. QED
        BY <1>e, <2>4, <3>2, <4>1
    <3>3. CASE flush.state \notin {"waiting", "updating"}
      <4>1. \A n \in Nat : n + 0 = n
        OBVIOUS
      <4>2. Owed' = Pending'
        BY <2>1, <2>4, <3>3, <4>1 DEF Owed
      <4>3. QED
        BY <2>4, <4>2
    <3>4. QED
      BY <3>1, <3>2, <3>3
  <2>8. QED
    BY <2>1, <2>2, <2>3, <2>4, <2>5, <2>6, <2>7
\* Then the books stand as long as the marks tell what was lost or is held twice.
<1>z. ASSUME entry' \in Entry \cup {Nothing}, flush' = Detached, call' \in [Calls -> CallState],
             UNCHANGED <<amount, deposits, due, uncertain, overwritten>>,
             faults' \in 0..MaxFaults, expired' \in BOOLEAN, doubled' \in BOOLEAN,
             expired => expired', doubled => doubled',
             ~expired' => Owed' >= Owed, ~doubled' => Owed' <= Owed
      PROVE  TypeOK' /\ CInv'
  <2>1. TypeOK' /\ RowInv'
    BY <1>z, <1>9, <1>a, <1>b DEF TypeOK, RowInv, Balance
  <2>2. EntryInv' /\ Owed' \in Nat
    BY <1>z, <1>9
  <2>3. BooksInv'
    <3>1. ASSUME ~overwritten', ~expired' PROVE due' <= Owed'
      <4>1. due <= Owed
        BY <1>z, <1>b, <3>1 DEF BooksInv
      <4>2. Owed' >= Owed
        BY <1>z, <3>1
      <4>3. QED
        BY <1>z, <1>a, <1>w, <2>2, <4>1, <4>2
    <3>2. ASSUME ~doubled' PROVE Owed' <= due' + uncertain'
      <4>1. Owed <= due + uncertain
        BY <1>z, <1>b, <3>2 DEF BooksInv
      <4>2. Owed' <= Owed
        BY <1>z, <3>2
      <4>3. QED
        BY <1>z, <1>a, <1>w, <2>2, <4>1, <4>2
    <3>3. QED
      BY <3>1, <3>2 DEF BooksInv
  <2>4. HeldInv'
    BY <1>z, <1>9, <1>b DEF HeldInv
  <2>5. QED
    BY <2>1, <2>2, <2>3, <2>4 DEF CInv
\* The balance the entry remembers is refreshed.
<1>10. ASSUME UNCHANGED <<amount, books, faults>>, call' \in [Calls -> CallState],
              entry # Nothing, NEW r \in Amounts, entry' = [entry EXCEPT !.remaining = r],
              flush' = flush \/ (flush' = IdleFlush /\ flush.state = "refreshing")
       PROVE  TypeOK' /\ CInv'
  <2>1. /\ entry' \in Entry /\ entry' # Nothing
        /\ Pending' = Pending /\ entry'.pending = entry.pending
    BY <1>10, <1>c, EntrySet, EntryFields DEF Pending
  <2>2. TypeOK' /\ RowInv'
    BY <1>10, <1>a, <1>b, <1>f, <2>1 DEF TypeOK, RowInv, Balance, books, marks
  <2>3. EntryInv' /\ Owed' = Owed
    BY <1>10, <1>b, <1>f, <2>1 DEF EntryInv, Owed
  <2>4. HeldInv'
    BY <1>10, <1>b, <1>f, <2>1 DEF HeldInv, Held, books, marks
  <2>5. QED
    BY <1>10, <1>b, <2>2, <2>3, <2>4 DEF CInv, BooksInv, books, marks
<1>11. ASSUME NEW v \in Amounts PROVE Minus(v, Pending) \in Amounts
  BY <1>c, <1>d DEF Minus
<1>12. ASSUME NEW c \in Calls, UpdateBuffer(c) PROVE TypeOK' /\ CInv'
  <2> DEFINE r == Minus(call[c].value, Pending)
  <2>1. r \in Amounts
    BY <1>11, <1>12, <1>a, CallFields DEF UpdateBuffer
  <2>2. /\ call' \in [Calls -> CallState]
        /\ UNCHANGED <<amount, deposits, due, uncertain, overwritten, expired, faults>>
    BY <1>12, <1>a, <1>f, BecomeType DEF UpdateBuffer
  <2>3. CASE r >= Threshold
    <3>1. /\ entry' = [remaining |-> r, pending |-> Pending] /\ flush' = Detached
          /\ doubled' = (doubled \/ Listed)
      BY <1>12, <2>3 DEF UpdateBuffer
    <3>2. entry' \in Entry /\ Pending' = Pending
      <4>1. entry' \in Entry /\ entry'.pending = Pending
        BY <1>c, <2>1, <3>1 DEF Entry
      <4>2. QED
        BY <4>1, EntryFields DEF Pending
    <3>3. Owed' >= Owed /\ (~Listed => Owed' <= Owed)
      BY <1>9, <1>c, <1>w, <3>1, <3>2
    <3>4. doubled' \in BOOLEAN /\ (doubled => doubled') /\ (~doubled' => ~Listed)
      BY <3>1, Zenon
    <3>5. QED
      BY <1>z, <1>a, <2>2, <3>1, <3>2, <3>3, <3>4
  <2>4. CASE ~(r >= Threshold) /\ Pending > 0
    <3>1. entry' = [entry EXCEPT !.remaining = r] /\ UNCHANGED <<flush, doubled>>
      BY <1>12, <2>4 DEF UpdateBuffer
    <3>2. UNCHANGED <<amount, books, faults>>
      BY <2>2, <3>1 DEF books, marks
    <3>3. QED
      BY <1>10, <1>c, <2>1, <2>2, <2>4, <3>1, <3>2
  <2>5. CASE ~(r >= Threshold) /\ ~(Pending > 0)
    <3>1. entry' = Nothing /\ flush' = Detached /\ UNCHANGED doubled
      BY <1>12, <2>5 DEF UpdateBuffer
    <3>2. Pending' = 0 /\ Pending = 0
      BY <1>c, <2>5, <3>1 DEF Pending
    <3>3. Owed' = Owed
      BY <1>9, <1>w, <3>1, <3>2
    <3>4. QED
      BY <1>z, <1>a, <1>w, <2>2, <3>1, <3>3
  <2>6. QED
    BY <2>3, <2>4, <2>5
<1>13. ASSUME NEW c \in Calls, GetRemainingCredits(c) PROVE TypeOK' /\ CInv'
  <2>1. [state |-> "asking", credits |-> 0] \in CallState
    BY DEF CallState
  <2>2. QED
    BY <1>2, <1>13, <2>1, <1>a, <1>b, BecomeType DEF GetRemainingCredits, RowInv, Balance, books
<1>14. ASSUME NEW c \in Calls, Answer(c) PROVE TypeOK' /\ CInv'
  <2>1. call' \in [Calls -> CallState] /\ UNCHANGED <<amount, flush, books, faults>>
    BY <1>14, <1>a, <1>f, BecomeType DEF Answer
  <2>2. CASE entry = Nothing
    BY <1>2, <1>14, <1>a, <1>b, <2>1, <2>2 DEF Answer, RowInv, Balance, books
  <2>3. CASE entry # Nothing
    <3>1. entry' = [entry EXCEPT !.remaining = Minus(call[c].value, Pending)]
      BY <1>14, <1>c, <2>3 DEF Answer
    <3>2. Minus(call[c].value, Pending) \in Amounts
      BY <1>11, <1>14, <1>a, CallFields DEF Answer
    <3>3. QED
      BY <1>10, <2>1, <2>3, <3>1, <3>2
  <2>4. QED
    BY <2>2, <2>3
<1>15. CASE StartFlush
  <2>1. /\ flush = IdleFlush /\ Pending > 0
        /\ flush' = [state |-> "waiting", object |-> Nothing]
        /\ UNCHANGED <<amount, entry, call, books, faults>>
    BY <1>15 DEF StartFlush
  <2>2. flush' \in FlushState /\ flush'.state = "waiting" /\ flush'.object = Nothing
    BY <2>1 DEF FlushState
  <2>3. TypeOK' /\ RowInv'
    BY <1>a, <1>b, <2>1, <2>2 DEF TypeOK, RowInv, Balance, books, marks
  <2>4. EntryInv' /\ Owed' = Owed
    BY <1>c, <1>f, <2>1, <2>2 DEF EntryInv, Owed, Pending
  <2>5. BooksInv' /\ HeldInv'
    BY <1>b, <2>1, <2>2, <2>4 DEF BooksInv, HeldInv, books, marks
  <2>6. QED
    BY <2>3, <2>4, <2>5 DEF CInv
<1>t. CASE TakePending
  <2> DEFINE kept == IF flush.object = Nothing THEN Nothing
                     ELSE [flush.object EXCEPT !.pending = 0]
  <2>1. /\ flush.state = "waiting"
        /\ flush' = [state |-> "updating", flushed |-> Held.pending, object |-> kept]
        /\ entry' = IF flush.object = Nothing THEN [entry EXCEPT !.pending = 0] ELSE entry
        /\ UNCHANGED <<amount, call, books, faults>>
    BY <1>t DEF TakePending
  <2>2. Held \in Entry /\ Held.pending \in Nat /\ [Held EXCEPT !.pending = 0] \in Entry
    BY <1>h, <2>1, EntrySet, EntryFields
  <2>3. /\ kept \in Entry \cup {Nothing} /\ entry' \in Entry \cup {Nothing}
        /\ flush.object = Nothing => kept = Nothing /\ entry' = [Held EXCEPT !.pending = 0]
        /\ flush.object # Nothing => kept = [Held EXCEPT !.pending = 0] /\ entry' = entry
    BY <1>a, <1>h, <2>1, <2>2 DEF Held
  <2> HIDE DEF kept
  <2>4. /\ flush' \in FlushState /\ flush'.state = "updating"
        /\ flush'.flushed = Held.pending /\ flush'.object = kept
    BY <2>1, <2>2, <2>3 DEF FlushState
  <2>5. TypeOK' /\ RowInv'
    BY <1>a, <1>b, <2>1, <2>3, <2>4 DEF TypeOK, RowInv, Balance, books, marks
  <2>6. [Held EXCEPT !.pending = 0].pending = 0 /\ [Held EXCEPT !.pending = 0] # Nothing
    BY <2>2, EntrySet, EntryFields
  <2>7. EntryInv' /\ Held'.pending = 0
    BY <2>3, <2>4, <2>6 DEF EntryInv, Held
  <2>8. Owed' = Owed
    <3>1. CASE flush.object = Nothing
      <4>1. Pending' = 0
        BY <2>3, <2>6, <3>1 DEF Pending
      <4>2. QED
        BY <1>c, <1>h, <2>1, <2>2, <2>4, <3>1, <4>1 DEF Owed
    <3>2. CASE flush.object # Nothing
      <4>1. Pending' = Pending /\ Held = flush.object
        BY <2>3, <3>2 DEF Pending, Held
      <4>2. QED
        BY <1>c, <2>1, <2>2, <2>4, <3>2, <4>1 DEF Owed
    <3>3. QED
      BY <3>1, <3>2
  <2>9. BooksInv'
    BY <1>b, <2>1, <2>8 DEF BooksInv, books, marks
  <2>10. Held.pending <= Owed
    <3>1. CASE flush.object = Nothing
      BY <1>c, <1>h, <2>1, <3>1 DEF Owed
    <3>2. CASE flush.object # Nothing
      BY <1>c, <2>1, <2>2, <3>2 DEF Owed, Held
    <3>3. QED
      BY <3>1, <3>2
  <2>11. HeldInv'
    BY <1>a, <1>b, <1>w, <2>1, <2>2, <2>4, <2>7, <2>10 DEF HeldInv, BooksInv, books, marks
  <2>12. QED
    BY <2>5, <2>7, <2>9, <2>11 DEF CInv
<1>16. ASSUME flush.state = "updating", Deduct, UNCHANGED deposits
       PROVE  /\ amount' \in Amounts \cup {Nothing} /\ RowInv'
              /\ Deducted \in Nat /\ Deducted <= flush.flushed /\ Deducted <= Balance
  <2>1. Deducted \in Nat /\ Deducted <= flush.flushed /\ Deducted <= Balance
    BY <1>16, <1>d, <1>e DEF Deducted, Least
  <2>2. Balance - Deducted \in 0..Balance
    BY <1>d, <2>1
  <2>3. amount' = Nothing \/ amount' = Balance - Deducted
    BY <1>16, <1>d DEF Deduct
  <2>4. QED
    BY <1>16, <1>b, <2>1, <2>2, <2>3, RowStep
<1>17. CASE UpdateRow
  <2>1. /\ flush.state = "updating" /\ Deduct /\ due' = due - flush.flushed
        /\ flush' = [flush EXCEPT !.state = "reading"]
        /\ UNCHANGED <<entry, call, deposits, uncertain, marks, faults>>
    BY <1>17 DEF UpdateRow
  <2>2. flush' \in FlushState /\ flush'.state = "reading" /\ flush'.object = flush.object
    BY <1>a, <2>1 DEF FlushState, IdleFlush
  <2>3. TypeOK' /\ RowInv'
    BY <1>16, <1>a, <1>e, <2>1, <2>2 DEF TypeOK, marks
  <2>4. EntryInv' /\ HeldInv' /\ Owed' = Owed - flush.flushed
    BY <1>b, <1>c, <1>e, <2>1, <2>2 DEF EntryInv, HeldInv, Owed, Pending
  <2>5. BooksInv'
    BY <1>a, <1>b, <1>e, <1>w, <2>1, <2>4 DEF BooksInv, marks
  <2>6. QED
    BY <2>3, <2>4, <2>5 DEF CInv
<1>18. CASE UpdateRowFails
  <2>1. /\ flush.state = "updating" /\ flush' = IdleFlush
        /\ entry' = [Held EXCEPT !.pending = Held.pending + flush.flushed]
        /\ overwritten' = (overwritten \/ Pending > Held.pending)
        /\ faults' \in 0..MaxFaults
        /\ UNCHANGED <<call, deposits, expired, doubled>>
    BY <1>18, <1>a, <1>d DEF UpdateRowFails, Fault
  <2>2. Held \in Entry /\ Held.pending \in Nat
    BY <1>h, <2>1
  <2>3. entry' \in Entry /\ Pending' = Held.pending + flush.flushed
    <3>1. Held.pending + flush.flushed \in Nat
      BY <1>e, <2>1, <2>2
    <3>2. entry' \in Entry /\ entry'.pending = Held.pending + flush.flushed
      BY <2>1, <2>2, <3>1, EntrySet, BoundsAssumption, EntryFields
    <3>3. QED
      BY <3>2, EntryFields DEF Pending
  <2>4. /\ amount' \in Amounts \cup {Nothing} /\ RowInv'
        /\ \E k \in Nat : due' = due - k /\ uncertain' = uncertain + k
    <3>1. CASE UNCHANGED <<amount, due, uncertain>>
      <4>1. due' = due - 0 /\ uncertain' = uncertain + 0
        BY <1>a, <3>1
      <4>2. QED
        BY <1>a, <1>b, <2>1, <3>1, <4>1 DEF RowInv, Balance
    <3>2. CASE Deduct /\ due' = due - Deducted /\ uncertain' = uncertain + Deducted
      BY <1>16, <1>a, <2>1, <3>2
    <3>3. QED
      BY <1>18, <3>1, <3>2 DEF UpdateRowFails
  <2> PICK k \in Nat : due' = due - k /\ uncertain' = uncertain + k
    BY <2>4
  <2>5. TypeOK'
    BY <1>a, <1>f, <2>1, <2>3, <2>4 DEF TypeOK
  <2>6. Owed = Pending + flush.flushed /\ Owed' = Held.pending + flush.flushed
    BY <1>c, <1>e, <1>f, <2>1, <2>2, <2>3 DEF Owed
  <2>7. BooksInv'
    <3>1. ASSUME ~overwritten', ~expired' PROVE due' <= Owed'
      <4>1. ~overwritten /\ ~expired /\ ~(Pending > Held.pending)
        BY <2>1, <3>1, Zenon
      <4>2. due <= Owed
        BY <1>b, <4>1 DEF BooksInv
      <4>3. QED
        BY <1>a, <1>c, <1>e, <2>1, <2>2, <2>6, <4>1, <4>2
    <3>2. ASSUME ~doubled' PROVE Owed' <= due' + uncertain'
      <4>1. Held.pending + flush.flushed <= due + uncertain
        BY <1>b, <2>1, <3>2 DEF HeldInv
      <4>2. QED
        BY <1>a, <1>e, <2>1, <2>2, <2>6, <4>1
    <3>3. QED
      BY <3>1, <3>2 DEF BooksInv
  <2>8. EntryInv' /\ HeldInv'
    BY <1>f, <2>1 DEF EntryInv, HeldInv
  <2>9. QED
    BY <2>4, <2>5, <2>7, <2>8 DEF CInv
<1>19. CASE ReadRow
  <2>1. /\ flush.state = "reading"
        /\ flush' = [state |-> "refreshing", value |-> Balance, object |-> flush.object]
        /\ UNCHANGED <<amount, entry, call, books, faults>>
    BY <1>19 DEF ReadRow
  <2>2. flush' \in FlushState
    BY <1>d, <1>e, <2>1 DEF FlushState
  <2>3. TypeOK' /\ RowInv'
    BY <1>a, <1>b, <2>1, <2>2 DEF TypeOK, RowInv, Balance, books, marks
  <2>4. EntryInv' /\ HeldInv' /\ Owed' = Owed
    BY <1>b, <2>1 DEF EntryInv, HeldInv, Owed, Pending
  <2>5. QED
    BY <1>b, <2>1, <2>3, <2>4 DEF CInv, BooksInv, books, marks
<1>20. CASE ReadRowFails
  <2>1. /\ flush.state = "reading" /\ flush' = IdleFlush /\ faults' \in 0..MaxFaults
        /\ UNCHANGED <<amount, entry, call, books>>
    BY <1>20, <1>a, <1>d DEF ReadRowFails, Fault
  <2>2. TypeOK' /\ RowInv'
    BY <1>a, <1>b, <1>f, <2>1 DEF TypeOK, RowInv, Balance, books, marks
  <2>3. EntryInv' /\ HeldInv' /\ Owed' = Owed
    BY <1>f, <2>1 DEF EntryInv, HeldInv, Owed, Pending
  <2>4. QED
    BY <1>b, <2>1, <2>2, <2>3 DEF CInv, BooksInv, books, marks
<1>21. CASE Refresh
  <2>1. /\ flush.state = "refreshing" /\ flush' = IdleFlush
        /\ UNCHANGED <<amount, call, books, faults>>
    BY <1>21 DEF Refresh
  <2>2. CASE flush.object = Nothing
    <3>1. entry # Nothing
      BY <1>b, <2>1, <2>2 DEF EntryInv
    <3>2. entry' = [entry EXCEPT !.remaining = Minus(flush.value, Pending)]
      BY <1>21, <1>c, <2>2, <3>1 DEF Refresh
    <3>3. Minus(flush.value, Pending) \in Amounts
      BY <1>11, <1>e, <2>1
    <3>4. QED
      BY <1>10, <1>a, <2>1, <3>1, <3>2, <3>3
  <2>3. CASE flush.object # Nothing
    <3>1. UNCHANGED entry
      BY <1>21, <2>3 DEF Refresh
    <3>2. TypeOK' /\ RowInv'
      BY <1>a, <1>b, <1>f, <2>1, <3>1 DEF TypeOK, RowInv, Balance, books, marks
    <3>3. EntryInv' /\ HeldInv' /\ Owed' = Owed
      BY <1>f, <2>1, <3>1 DEF EntryInv, HeldInv, Owed, Pending
    <3>4. QED
      BY <1>b, <2>1, <3>2, <3>3 DEF CInv, BooksInv, books, marks
  <2>4. QED
    BY <2>2, <2>3
<1>22. CASE Expire
  <2>1. /\ entry' = Nothing /\ flush' = Detached
        /\ expired' = (expired \/ (Pending > 0 /\ ~Listed))
        /\ UNCHANGED <<amount, call, deposits, due, uncertain, overwritten, doubled>>
        /\ faults' \in 0..MaxFaults
    BY <1>22, <1>a, <1>d DEF Expire, Fault
  <2>2. Pending' = 0
    BY <2>1 DEF Pending
  <2>3. Owed' <= Owed /\ (Pending = 0 \/ Listed => Owed' >= Owed)
    BY <1>9, <1>c, <1>w, <2>1, <2>2
  <2>4. expired' \in BOOLEAN /\ (expired => expired') /\ (~expired' => ~(Pending > 0) \/ Listed)
    BY <2>1, Zenon
  <2>5. ~expired' => Owed' >= Owed
    BY <1>c, <2>3, <2>4
  <2>6. QED
    BY <1>z, <1>a, <2>1, <2>3, <2>4, <2>5
<1>23. CASE RemoveRow
  <2>1. amount' = Nothing /\ faults' \in 0..MaxFaults /\ UNCHANGED <<entry, flush, call, books>>
    BY <1>23, <1>a, <1>d DEF RemoveRow, Fault
  <2>2. RowInv'
    BY <1>a, <1>d, <2>1 DEF RowInv, Balance, books
  <2>3. QED
    BY <1>2, <1>a, <2>1, <2>2
<1>24. CASE Deposit
  <2>1. /\ deposits < MaxDeposits /\ deposits' = deposits + 1 /\ amount' = Balance + 1
        /\ UNCHANGED <<entry, flush, call, due, uncertain, marks, faults>>
    BY <1>24 DEF Deposit
  <2>2. amount' \in Amounts /\ amount' # Nothing /\ amount' <= MaxCredits + deposits'
    BY <1>a, <1>b, <1>d, <2>1, NothingAssumption DEF RowInv
  <2>3. TypeOK' /\ RowInv'
    BY <1>a, <1>d, <2>1, <2>2 DEF TypeOK, RowInv, Balance, marks
  <2>4. EntryInv' /\ HeldInv' /\ Owed' = Owed
    BY <1>b, <2>1 DEF EntryInv, HeldInv, Held, Owed, Pending, marks
  <2>5. QED
    BY <1>b, <2>1, <2>3, <2>4 DEF CInv, BooksInv, marks
<1>25. CASE UNCHANGED vars
  BY <1>2, <1>a, <1>b, <1>25 DEF vars, books, RowInv, Balance
<1>26. QED
  BY <1>1, <1>3, <1>4, <1>5, <1>6, <1>7, <1>8, <1>12, <1>13, <1>14, <1>15, <1>t, <1>17, <1>18,
     <1>19, <1>20, <1>21, <1>22, <1>23, <1>24, <1>25
     DEF Next, CallStep, FlushStep

\* The types and the invariant of the credits hold in every reachable state.
THEOREM CreditsInvariant == Spec => [](TypeOK /\ CInv)
<1>1. Init => TypeOK /\ CInv
  <2> SUFFICES ASSUME Init PROVE TypeOK /\ CInv
    OBVIOUS
  <2>1. IdleFlush.state = "idle" /\ IdleFlush \in FlushState /\ IdleCall \in CallState
    BY DEF IdleFlush, FlushState, CallState
  <2>2. TypeOK
    <3>1. amount \in Amounts \cup {Nothing}
      BY BoundsAssumption DEF Init, Amounts
    <3>2. QED
      <4>1. flush \in FlushState /\ call \in [Calls -> CallState] /\ entry \in Entry \cup {Nothing}
        BY <2>1 DEF Init
      <4>2. deposits \in 0..MaxDeposits /\ faults \in 0..MaxFaults
        BY BoundsAssumption DEF Init
      <4>3. due \in Int /\ uncertain \in Nat
        BY DEF Init
      <4>4. overwritten \in BOOLEAN /\ expired \in BOOLEAN /\ doubled \in BOOLEAN
        BY Zenon DEF Init
      <4>5. QED
        BY <3>1, <4>1, <4>2, <4>3, <4>4 DEF TypeOK
  <2>3. RowInv
    BY BoundsAssumption, NothingAssumption DEF Init, RowInv, Balance
  <2>4. EntryInv /\ BooksInv /\ HeldInv
    BY <2>1, NothingAssumption DEF Init, EntryInv, BooksInv, HeldInv, Owed, Pending
  <2>5. QED
    BY <2>2, <2>3, <2>4 DEF CInv
<1>2. QED
  BY <1>1, CreditsStep, PTL DEF Spec

\* However calls, flushes, expirations and deposits overlap, and whatever fails, what
\* the buffer owes the row is what was granted, up to the commands whose outcome
\* nobody knows, the entry that a failed flush puts back, and the entries that expire
\* or are replaced before a slow flush comes to them.
THEOREM BooksAlwaysBalance == Spec => []BooksBalance
<1>1. TypeOK /\ CInv => BooksBalance
  BY DEF CInv, BooksInv, BooksBalance, GrantsArePaid
<1>2. QED
  BY <1>1, CreditsInvariant, PTL

===============================================================================
