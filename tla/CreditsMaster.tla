----------------------------- MODULE CreditsMaster -----------------------------
(***************************************************************************)
(* The credits of one user: src/src/lib/credits-master.ts.  Users do not   *)
(* share anything.                                                         *)
(*                                                                         *)
(* The primary process answers the calls of all workers.  The balance is a *)
(* row of gp_credits.  While it is large, credits are granted from a       *)
(* buffer entry and deducted from the row later, once a second; otherwise  *)
(* each call deducts them itself.  Every command to the database is        *)
(* awaited, and the calls and the flush go on in between.                  *)
(*                                                                         *)
(* An entry is a JavaScript object.  A flush keeps the one it started with,*)
(* even when the buffer has replaced or removed it since; nobody else      *)
(* holds an entry across an await.  The flush lists the entries of all     *)
(* users at once, but comes to an entry later, after the first of the      *)
(* others: Bluebird.map defers the first eight, and the rest wait for them.*)
(***************************************************************************)
EXTENDS Integers

CONSTANTS Calls,      \* calls of consume and getRemainingCredits in progress
          Costs,      \* credits a call may consume
          Threshold,  \* MIN_CREDITS_FOR_BUFFER (10 000)
          MaxCredits, \* bound on the credits the user has at first
          MaxDeposits, \* bound on the credits he receives
          MaxFaults,  \* bound on the faults of a behaviour
          Nothing     \* no row, no entry, or the entry of the buffer itself

Amounts == 0..MaxCredits + MaxDeposits
Entry == [remaining : Amounts, pending : Nat]

ASSUME CostsAssumption == Costs \subseteq Nat \ {0}
ASSUME BoundsAssumption ==
  /\ Threshold \in Nat /\ MaxFaults \in Nat
  /\ MaxCredits \in Nat /\ MaxDeposits \in Nat
ASSUME NothingAssumption == Nothing \notin Entry \cup Nat

VARIABLES
  amount,      \* the row, or Nothing
  entry,       \* the entry of the buffer, or Nothing
  flush,       \* control state and local variables of flush
  call,        \* control state and local variables of the calls
  \* bookkeeping
  deposits,    \* credits received so far
  due,         \* credits granted (isConsumed), less those deducted, less those that
               \* GREATEST or a missing row kept from being deducted
  uncertain,   \* credits deducted for calls and flushes that were reported as failed
  overwritten, \* has a flush put back an entry the buffer had replaced?
  expired,     \* has an entry that no flush waits for expired before its credits were flushed?
  doubled,     \* has the buffer replaced an entry that a flush had listed, credits and all?
  faults       \* faults so far

marks == <<overwritten, expired, doubled>>
books == <<deposits, due, uncertain, marks>>
vars == <<amount, entry, flush, call, books, faults>>

IdleFlush == [state |-> "idle"]
IdleCall == [state |-> "idle"]

FlushState ==
  {IdleFlush}
  \cup [state : {"waiting"}, object : Entry \cup {Nothing}]
  \cup [state : {"updating", "reading"}, flushed : Nat, object : Entry \cup {Nothing}]
  \cup [state : {"refreshing"}, value : Amounts, object : Entry \cup {Nothing}]

CallState ==
  {IdleCall}
  \cup [state : {"charging"}, credits : Costs]
  \cup [state : {"checking", "asking"}, credits : Costs \cup {0}]
  \cup [state : {"seeding", "answering"}, value : Amounts]

TypeOK ==
  /\ amount \in Amounts \cup {Nothing}
  /\ entry \in Entry \cup {Nothing}
  /\ flush \in FlushState
  /\ call \in [Calls -> CallState]
  /\ deposits \in 0..MaxDeposits
  /\ due \in Int
  /\ uncertain \in Nat
  /\ overwritten \in BOOLEAN /\ expired \in BOOLEAN /\ doubled \in BOOLEAN
  /\ faults \in 0..MaxFaults

Init ==
  /\ amount \in 0..MaxCredits \cup {Nothing}
  /\ entry = Nothing
  /\ flush = IdleFlush
  /\ call = [c \in Calls |-> IdleCall]
  /\ deposits = 0
  /\ due = 0
  /\ uncertain = 0
  /\ overwritten = FALSE /\ expired = FALSE /\ doubled = FALSE
  /\ faults = 0

Fault == faults < MaxFaults /\ faults' = faults + 1

Least(m, n) == IF m < n THEN m ELSE n

Minus(m, n) == IF m < n THEN 0 ELSE m - n  \* Math.max(m - n, 0)

\* What getRemainingCreditsFromDb returns.
Balance == IF amount = Nothing THEN 0 ELSE amount

Become(c, state) == call' = [call EXCEPT ![c] = state]

\* The credits the entry of the buffer has to flush.
Pending == IF entry = Nothing THEN 0 ELSE entry.pending

\* The entry a flush holds.
Held == IF flush.object = Nothing THEN entry ELSE flush.object

\* The flush has listed the entry of the buffer, and will take its credits later.
Listed == flush.state = "waiting" /\ flush.object = Nothing

\* A flush that holds the entry of the buffer keeps it when the buffer does not.
Detached == IF flush # IdleFlush /\ flush.object = Nothing
            THEN [flush EXCEPT !.object = entry] ELSE flush

-------------------------------------------------------------------------------
(* consume *)

Buffered(n) == IF entry = Nothing THEN FALSE ELSE entry.remaining >= n + Threshold

ConsumeFromBuffer(c, n) ==
  /\ call[c] = IdleCall
  /\ Buffered(n)
  /\ due' = due + n
  /\ entry' = [remaining |-> entry.remaining - n, pending |-> entry.pending + n]
  /\ UNCHANGED <<amount, flush, call, deposits, uncertain, marks, faults>>

ConsumeFromDb(c, n) ==
  /\ call[c] = IdleCall
  /\ ~Buffered(n)
  /\ Become(c, [state |-> "charging", credits |-> n])
  /\ UNCHANGED <<amount, entry, flush, books, faults>>

Affords(n) == IF amount = Nothing THEN FALSE ELSE amount >= n

\* The UPDATE of a call is executed; amount >= 0 is a constraint of the table.
Charge(c) ==
  /\ call[c].state = "charging"
  /\ Affords(call[c].credits)
  /\ amount' = amount - call[c].credits
  /\ Become(c, [state |-> "checking", credits |-> call[c].credits])
  /\ UNCHANGED <<entry, flush, books, faults>>

\* There are not enough credits; without a row there is nothing to read either.
Refuse(c) ==
  /\ call[c].state = "charging"
  /\ ~Affords(call[c].credits)
  /\ Become(c, IF amount = Nothing THEN [state |-> "seeding", value |-> 0]
               ELSE [state |-> "checking", credits |-> 0])
  /\ UNCHANGED <<amount, entry, flush, books, faults>>

\* The UPDATE fails; it may have been executed all the same.
ChargeFails(c) ==
  /\ Fault
  /\ call[c].state = "charging"
  /\ \/ UNCHANGED <<amount, books>>
     \/ /\ Affords(call[c].credits)
        /\ amount' = amount - call[c].credits
        /\ due' = due - call[c].credits
        /\ uncertain' = uncertain + call[c].credits
        /\ UNCHANGED <<deposits, marks>>
  /\ Become(c, IdleCall)
  /\ UNCHANGED <<entry, flush>>

\* The SELECT after it, and the one of getRemainingCredits.
ReadBalance(c) ==
  /\ call[c].state \in {"checking", "asking"}
  /\ Become(c, [state |-> IF call[c].state = "checking" THEN "seeding" ELSE "answering",
                value |-> Balance])
  /\ UNCHANGED <<amount, entry, flush, books, faults>>

\* Then the call fails, and its credits are not given back.
ReadFails(c) ==
  /\ Fault
  /\ call[c].state \in {"checking", "asking"}
  /\ due' = due - call[c].credits
  /\ uncertain' = uncertain + call[c].credits
  /\ Become(c, IdleCall)
  /\ UNCHANGED <<amount, entry, flush, deposits, marks>>

\* updateBuffer: a large balance makes a new entry, which takes the credits to flush
\* over (but a flush that has listed the old one will flush them as well); a small one
\* stays in the old entry as long as that has credits to flush.
UpdateBuffer(c) ==
  LET remaining == Minus(call[c].value, Pending) IN
  /\ call[c].state = "seeding"
  /\ IF remaining >= Threshold
     THEN /\ entry' = [remaining |-> remaining, pending |-> Pending]
          /\ flush' = Detached
          /\ doubled' = (doubled \/ Listed)
     ELSE IF Pending > 0
     THEN entry' = [entry EXCEPT !.remaining = remaining] /\ UNCHANGED <<flush, doubled>>
     ELSE entry' = Nothing /\ flush' = Detached /\ UNCHANGED doubled
  /\ Become(c, IdleCall)
  /\ UNCHANGED <<amount, deposits, due, uncertain, overwritten, expired, faults>>

-------------------------------------------------------------------------------
(* getRemainingCredits *)

GetRemainingCredits(c) ==
  /\ call[c] = IdleCall
  /\ Become(c, [state |-> "asking", credits |-> 0])
  /\ UNCHANGED <<amount, entry, flush, books, faults>>

Answer(c) ==
  /\ call[c].state = "answering"
  /\ entry' = IF entry = Nothing THEN Nothing
              ELSE [entry EXCEPT !.remaining = Minus(call[c].value, entry.pending)]
  /\ Become(c, IdleCall)
  /\ UNCHANGED <<amount, flush, books, faults>>

-------------------------------------------------------------------------------
(* flush *)

\* The entries with credits to flush are listed.
StartFlush ==
  /\ flush = IdleFlush
  /\ Pending > 0
  /\ flush' = [state |-> "waiting", object |-> Nothing]
  /\ UNCHANGED <<amount, entry, call, books, faults>>

\* The flush comes to the entry it has listed, which the buffer may have replaced.
TakePending ==
  /\ flush.state = "waiting"
  /\ flush' = [state |-> "updating", flushed |-> Held.pending,
               object |-> IF flush.object = Nothing THEN Nothing
                          ELSE [flush.object EXCEPT !.pending = 0]]
  /\ entry' = IF flush.object = Nothing THEN [entry EXCEPT !.pending = 0] ELSE entry
  /\ UNCHANGED <<amount, call, books, faults>>

\* The credits that UPDATE ... GREATEST(amount - flushed, 0) deducts.
Deducted == Least(Balance, flush.flushed)

Deduct == amount' = IF amount = Nothing THEN Nothing ELSE amount - Deducted

UpdateRow ==
  /\ flush.state = "updating"
  /\ Deduct
  /\ due' = due - flush.flushed
  /\ flush' = [flush EXCEPT !.state = "reading"]
  /\ UNCHANGED <<entry, call, deposits, uncertain, marks, faults>>

FlushLost ==  \* mutant: the catch block forgets the credits
  /\ Fault
  /\ flush.state = "updating"
  /\ flush' = IdleFlush
  /\ UNCHANGED <<amount, entry, call, books>>

FlushForGood ==  \* mutant: after an error the flush is not scheduled again
  /\ Fault
  /\ flush.state = "updating"
  /\ flush' = [flush EXCEPT !.state = "stopped"]
  /\ UNCHANGED <<amount, entry, call, books>>

\* The UPDATE fails, although it may have been executed: the credits go back to
\* the entry, and the entry to the buffer.
UpdateRowFails ==
  /\ Fault
  /\ flush.state = "updating"
  /\ \/ UNCHANGED <<amount, due, uncertain>>
     \/ /\ Deduct
        /\ due' = due - Deducted
        /\ uncertain' = uncertain + Deducted
  /\ entry' = [Held EXCEPT !.pending = @ + flush.flushed]
  /\ overwritten' = (overwritten \/ Pending > Held.pending)
  /\ flush' = IdleFlush
  /\ UNCHANGED <<call, deposits, expired, doubled>>

ReadRow ==
  /\ flush.state = "reading"
  /\ flush' = [state |-> "refreshing", value |-> Balance, object |-> flush.object]
  /\ UNCHANGED <<amount, entry, call, books, faults>>

ReadRowFails ==
  /\ Fault
  /\ flush.state = "reading"
  /\ flush' = IdleFlush
  /\ UNCHANGED <<amount, entry, call, books>>

Refresh ==
  /\ flush.state = "refreshing"
  /\ entry' = IF flush.object # Nothing THEN entry
              ELSE [entry EXCEPT !.remaining = Minus(flush.value, entry.pending)]
  /\ flush' = IdleFlush
  /\ UNCHANGED <<amount, call, books, faults>>

-------------------------------------------------------------------------------
(* Time and the dashboard *)

\* An entry has been idle for a minute.  One with credits to flush is flushed before,
\* unless a command of the flush takes that minute; a flush that waits keeps it.
Expire ==
  /\ entry # Nothing
  /\ entry' = Nothing
  /\ flush' = Detached
  /\ expired' = (expired \/ (Pending > 0 /\ ~Listed))
  /\ IF Pending > 0 THEN Fault ELSE UNCHANGED faults
  /\ UNCHANGED <<amount, call, deposits, due, uncertain, overwritten, doubled>>

\* The row is deleted.
RemoveRow ==
  /\ Fault
  /\ amount # Nothing
  /\ amount' = Nothing
  /\ UNCHANGED <<entry, flush, call, books>>

\* The user receives a credit, maybe his first one.
Deposit ==
  /\ deposits < MaxDeposits
  /\ deposits' = deposits + 1
  /\ amount' = Balance + 1
  /\ UNCHANGED <<entry, flush, call, due, uncertain, marks, faults>>

-------------------------------------------------------------------------------

CallStep(c) ==
  \/ \E n \in Costs : ConsumeFromBuffer(c, n) \/ ConsumeFromDb(c, n)
  \/ Charge(c) \/ Refuse(c) \/ ChargeFails(c) \/ ReadBalance(c) \/ ReadFails(c)
  \/ UpdateBuffer(c) \/ GetRemainingCredits(c) \/ Answer(c)

FlushStep == \/ StartFlush \/ TakePending \/ UpdateRow \/ UpdateRowFails
             \/ ReadRow \/ ReadRowFails \/ Refresh

Next == \/ \E c \in Calls : CallStep(c)
        \/ FlushStep \/ Expire \/ RemoveRow \/ Deposit

Spec == Init /\ [][Next]_vars

\* The flush is scheduled again whatever happens.
FairSpec == Spec /\ WF_vars(StartFlush \/ TakePending \/ UpdateRow \/ ReadRow \/ Refresh)

-------------------------------------------------------------------------------
(* Properties *)

\* The credits that are granted but not deducted yet.
Owed == Pending + (IF flush.state = "updating" THEN flush.flushed
                   ELSE IF flush.state = "waiting" /\ flush.object # Nothing
                   THEN flush.object.pending ELSE 0)

\* Every credit granted is deducted or still waiting for it, whatever calls and
\* flushes overlap (unless a hanging command let an entry expire); a balance that does
\* not suffice is not made to go below 0.
GrantsArePaid == ~expired => due <= Owed

\* They are, unless a failed flush has put back an entry the buffer had replaced.  And
\* no credit is deducted twice, or for a call that was refused, except by a command
\* that was executed and reported as failed, or before one that failed, and unless the
\* buffer has replaced an entry between the start of a flush and its turn.
BooksBalance ==
  /\ TypeOK
  /\ ~overwritten => GrantsArePaid
  /\ ~doubled => Owed <= due + uncertain

\* When the calls and the faults have come to rest, everything is deducted: no entry
\* keeps credits to itself that the flush does not know of.
EverythingIsFlushed == <>[](Owed = 0)
===============================================================================
