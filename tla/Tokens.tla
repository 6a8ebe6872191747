-------------------------------- MODULE Tokens --------------------------------
(***************************************************************************)
(* Access tokens: each process keeps the tokens it knows to be valid, and  *)
(* those it knows not to be, for two minutes; it reads all of them again   *)
(* once a minute, and one of them when a request brings one it has not     *)
(* heard of.                                                               *)
(*   src/src/lib/http/auth.ts                                              *)
(*   src/src/lib/http/middleware/authenticate.ts                           *)
(*                                                                         *)
(* A token is valid or not: it may be created, revoked, or expire at       *)
(* midnight.  A query reads the table at one moment and its caller goes on *)
(* later.  A tick is a minute.                                             *)
(***************************************************************************)
EXTENDS Naturals, FiniteSets

CONSTANTS AccessTokens,
          AuthRequests,  \* the requests of a behaviour that carry a token
          TokenTTL,      \* life of an entry, in ticks
          MaxQuery,      \* bound on the life of a query, in ticks
          MaxTicks,      \* bound on the clock
          MaxRevisions,  \* bound on the changes of the table
          NoVerdict      \* no entry, no query, no answer

ASSUME TokensAssumption == TokenTTL \in Nat \ {0} /\ MaxQuery \in Nat /\ MaxTicks \in Nat

Verdicts == {"valid", "invalid"}

VARIABLES
  granted,   \* the verdict of the table on each token
  agoOf,     \* ticks since the table last gave each verdict
  valid,     \* validTokens: the life each entry has left
  invalid,   \* invalidTokens
  all,       \* the query of syncTokens: what it has read, and its age
  lookup,    \* the query of syncSpecificToken of each request
  stamp,     \* the query of updateLastUsedDate of each request
  answer,    \* the token of each request and the verdict on it
  ticks,
  revisions

tokensVars == <<granted, agoOf, valid, invalid, all, lookup, stamp, answer, ticks, revisions>>

ASSUME NoVerdictAssumption ==
  NoVerdict \notin Verdicts /\ \A t \in AccessTokens, v \in Verdicts : NoVerdict # <<t, v>>

\* No verdict is acted on for longer: it may be read by one query, remembered, and acted on at the
\* end of another.
Horizon == TokenTTL + 2 * MaxQuery

Ages == 0..MaxQuery
All == [read : [AccessTokens -> Verdicts], age : Ages]
Lookup == [token : AccessTokens, read : Verdicts \cup {NoVerdict}, age : Ages]
Stamp == [token : AccessTokens, age : Ages]

TokensTypeOK ==
  /\ granted \in [AccessTokens -> Verdicts]
  /\ agoOf \in [AccessTokens -> [Verdicts -> 0..(Horizon + 1)]]
  /\ valid \in [AccessTokens -> 0..TokenTTL] /\ invalid \in [AccessTokens -> 0..TokenTTL]
  /\ all \in All \cup {NoVerdict} /\ lookup \in [AuthRequests -> Lookup \cup {NoVerdict}]
  /\ stamp \in [AuthRequests -> Stamp \cup {NoVerdict}]
  /\ answer \in [AuthRequests -> {NoVerdict} \cup (AccessTokens \X (Verdicts \cup {"failed"}))]

\* (A verdict the table has never given is older than the horizon.)
TokensInit ==
  /\ granted \in [AccessTokens -> Verdicts]
  /\ agoOf = [t \in AccessTokens |-> [v \in Verdicts |-> IF v = granted[t] THEN 0 ELSE Horizon + 1]]
  /\ valid = [t \in AccessTokens |-> IF granted[t] = "valid" THEN TokenTTL ELSE 0]
  /\ invalid = [t \in AccessTokens |-> 0]
  /\ all = NoVerdict
  /\ lookup = [q \in AuthRequests |-> NoVerdict]
  /\ stamp = [q \in AuthRequests |-> NoVerdict]
  /\ answer = [q \in AuthRequests |-> NoVerdict]
  /\ ticks = 0 /\ revisions = 0

-------------------------------------------------------------------------------
(* The table and the clock *)

Revise(t) ==
  /\ revisions < MaxRevisions /\ revisions' = revisions + 1
  /\ \E v \in Verdicts \ {granted[t]} :
       /\ granted' = [granted EXCEPT ![t] = v]
       /\ agoOf' = [agoOf EXCEPT ![t][v] = 0]
  /\ UNCHANGED <<valid, invalid, all, lookup, stamp, answer, ticks>>

Older(n, bound) == IF n < bound THEN n + 1 ELSE n
Unlimited(n) == n  \* mutant: caches without a TTL
Shorter(n) == IF n > 0 THEN n - 1 ELSE 0

Queries == {all} \cup {lookup[q] : q \in AuthRequests} \cup {stamp[q] : q \in AuthRequests}
Aged(queries) ==
  [q \in AuthRequests |->
     IF queries[q] = NoVerdict THEN NoVerdict ELSE [queries[q] EXCEPT !.age = @ + 1]]

Tick ==
  /\ ticks < MaxTicks /\ ticks' = ticks + 1
  /\ \A q \in Queries \ {NoVerdict} : q.age < MaxQuery
  /\ agoOf' = [t \in AccessTokens |-> [v \in Verdicts |->
                 IF granted[t] = v THEN 0 ELSE Older(agoOf[t][v], Horizon + 1)]]
  /\ valid' = [t \in AccessTokens |-> Shorter(valid[t])]
  /\ invalid' = [t \in AccessTokens |-> Shorter(invalid[t])]
  /\ all' = IF all = NoVerdict THEN all ELSE [all EXCEPT !.age = @ + 1]
  /\ lookup' = Aged(lookup) /\ stamp' = Aged(stamp)
  /\ UNCHANGED <<granted, answer, revisions>>

-------------------------------------------------------------------------------
(* syncTokens *)

ReadAll ==
  /\ all = NoVerdict
  /\ all' = [read |-> granted, age |-> 0]
  /\ UNCHANGED <<granted, agoOf, valid, invalid, lookup, stamp, answer, ticks, revisions>>

\* Both caches are replaced.  A token without a row is in neither, one that has expired is
\* among the invalid ones.
ReplaceCaches ==
  /\ all # NoVerdict
  /\ valid' = [t \in AccessTokens |-> IF all.read[t] = "valid" THEN TokenTTL ELSE 0]
  /\ \E expired \in SUBSET {t \in AccessTokens : all.read[t] = "invalid"} :
       invalid' = [t \in AccessTokens |-> IF t \in expired THEN TokenTTL ELSE 0]
  /\ all' = NoVerdict
  /\ UNCHANGED <<granted, agoOf, lookup, stamp, answer, ticks, revisions>>

SyncTokensFails ==
  /\ all # NoVerdict
  /\ all' = NoVerdict
  /\ UNCHANGED <<granted, agoOf, valid, invalid, lookup, stamp, answer, ticks, revisions>>

-------------------------------------------------------------------------------
(* validate *)

New(q) == answer[q] = NoVerdict /\ lookup[q] = NoVerdict /\ stamp[q] = NoVerdict

Give(q, t, v) == answer' = [answer EXCEPT ![q] = <<t, v>>] /\ UNCHANGED stamp

\* A valid token with a strange origin is refused.  The first use of a day is written to the table
\* before the request goes on.
Accept(q, t) ==
  \/ Give(q, t, "valid") \/ Give(q, t, "failed")
  \/ stamp' = [stamp EXCEPT ![q] = [token |-> t, age |-> 0]] /\ UNCHANGED answer

\* The invalid tokens are asked first.
AnswerFromCache(q, t) ==
  /\ New(q)
  /\ \/ invalid[t] > 0 /\ Give(q, t, "invalid")
     \/ invalid[t] = 0 /\ valid[t] > 0 /\ Accept(q, t)
  /\ UNCHANGED <<granted, agoOf, valid, invalid, all, lookup, ticks, revisions>>

LookUp(q, t) ==
  /\ New(q) /\ invalid[t] = 0 /\ valid[t] = 0
  /\ lookup' = [lookup EXCEPT ![q] = [token |-> t, read |-> NoVerdict, age |-> 0]]
  /\ UNCHANGED <<granted, agoOf, valid, invalid, all, stamp, answer, ticks, revisions>>

ReadToken(q) ==
  /\ IF lookup[q] = NoVerdict THEN FALSE ELSE lookup[q].read = NoVerdict
  /\ lookup' = [lookup EXCEPT ![q].read = granted[lookup[q].token]]
  /\ UNCHANGED <<granted, agoOf, valid, invalid, all, stamp, answer, ticks, revisions>>

\* The entry goes into whatever caches the process has by now.
Remember(t, v) ==
  /\ valid' = [valid EXCEPT ![t] = IF v = "valid" THEN TokenTTL ELSE @]
  /\ invalid' = [invalid EXCEPT ![t] = IF v = "invalid" THEN TokenTTL ELSE @]

AnswerFromTable(q) ==
  /\ IF lookup[q] = NoVerdict THEN FALSE ELSE lookup[q].read # NoVerdict
  /\ Remember(lookup[q].token, lookup[q].read)
  /\ lookup' = [lookup EXCEPT ![q] = NoVerdict]
  /\ \/ lookup[q].read = "invalid" /\ Give(q, lookup[q].token, "invalid")
     \/ lookup[q].read = "valid" /\ Accept(q, lookup[q].token)
  /\ UNCHANGED <<granted, agoOf, all, ticks, revisions>>

LookUpFails(q) ==
  /\ lookup[q] # NoVerdict
  /\ Give(q, lookup[q].token, "failed")
  /\ lookup' = [lookup EXCEPT ![q] = NoVerdict]
  /\ UNCHANGED <<granted, agoOf, valid, invalid, all, ticks, revisions>>

\* The request goes on when the date has been written; if that fails, so does the request.
AnswerAfterUpdate(q) ==
  /\ stamp[q] # NoVerdict
  /\ \E v \in {"valid", "failed"} : answer' = [answer EXCEPT ![q] = <<stamp[q].token, v>>]
  /\ stamp' = [stamp EXCEPT ![q] = NoVerdict]
  /\ UNCHANGED <<granted, agoOf, valid, invalid, all, lookup, ticks, revisions>>

-------------------------------------------------------------------------------

TokensNext ==
  \/ \E t \in AccessTokens : Revise(t)
  \/ Tick
  \/ ReadAll \/ ReplaceCaches \/ SyncTokensFails
  \/ \E q \in AuthRequests :
       \/ \E t \in AccessTokens : AnswerFromCache(q, t) \/ LookUp(q, t)
       \/ ReadToken(q) \/ AnswerFromTable(q) \/ LookUpFails(q) \/ AnswerAfterUpdate(q)

TokensSpec == TokensInit /\ [][TokensNext]_tokensVars

-------------------------------------------------------------------------------
(* Properties *)

\* A request is not accepted, nor refused, by what has not been true for longer than an entry
\* lives after the query that read it, and the query that writes the date of use takes, however
\* lookups and syncs overtake each other.
AnswersAreRecent ==
  [][TokensTypeOK /\ \A q \in AuthRequests, t \in AccessTokens, v \in Verdicts :
       answer[q] = NoVerdict /\ answer'[q] = <<t, v>> => agoOf[t][v] <= Horizon]_tokensVars
===============================================================================
