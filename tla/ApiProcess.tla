------------------------------ MODULE ApiProcess ------------------------------
(***************************************************************************)
(* What an API process does beside running and storing measurements: its   *)
(* schedules, the access tokens, the overrides, the selection of probes,   *)
(* the places of addresses, the limits on probes, the lists of addresses,  *)
(* the answers that clients keep, and being forked and terminated.         *)
(* (src/src/lib/server.ts)                                                 *)
(*                                                                         *)
(* As modelled these components share no state, so a behaviour of the      *)
(* process is that of each of them on its own; `subject' says which one a  *)
(* behaviour is about, and the others stay in their initial states.        *)
(***************************************************************************)
EXTENDS Answers, Schedules, Tokens, Overrides, Selection, GeoIp,
        ProbeLimits, AddressLists, Cluster

VARIABLE subject

processVars == <<answersVars, schedulesVars, tokensVars, overridesVars, selectionVars,
                 geoVars, limitsVars, listsVars, clusterVars, subject>>

\* Of those that a behaviour is not about one initial state is enough.
ProcessInit ==
  /\ AnswersInit /\ SchedulesInit /\ TokensInit /\ OverridesInit
  /\ SelectionInit /\ GeoInit /\ LimitsInit /\ ListsInit /\ ClusterInit
  /\ subject \in {"answers", "schedules", "tokens", "overrides", "selection",
                  "geoip", "limits", "lists", "cluster"}
  /\ subject # "tokens" => \A t \in AccessTokens : granted[t] = "valid"
  /\ subject # "answers" => \A t \in CreationTimes : createdAt <= t

AnswersStep ==
  /\ subject = "answers" /\ AnswersNext
  /\ UNCHANGED <<subject, schedulesVars, tokensVars, overridesVars, selectionVars,
                  geoVars, limitsVars, listsVars, clusterVars>>

SchedulesStep ==
  /\ subject = "schedules" /\ SchedulesNext
  /\ UNCHANGED <<subject, answersVars, tokensVars, overridesVars, selectionVars,
                  geoVars, limitsVars, listsVars, clusterVars>>

TokensStep ==
  /\ subject = "tokens" /\ TokensNext
  /\ UNCHANGED <<subject, answersVars, schedulesVars, overridesVars, selectionVars,
                  geoVars, limitsVars, listsVars, clusterVars>>

OverridesStep ==
  /\ subject = "overrides" /\ OverridesNext
  /\ UNCHANGED <<subject, answersVars, schedulesVars, tokensVars, selectionVars,
                  geoVars, limitsVars, listsVars, clusterVars>>

SelectionStep ==
  /\ subject = "selection" /\ SelectionNext
  /\ UNCHANGED <<subject, answersVars, schedulesVars, tokensVars, overridesVars,
                  geoVars, limitsVars, listsVars, clusterVars>>

GeoStep ==
  /\ subject = "geoip" /\ GeoNext
  /\ UNCHANGED <<subject, answersVars, schedulesVars, tokensVars, overridesVars,
                  selectionVars, limitsVars, listsVars, clusterVars>>

LimitsStep ==
  /\ subject = "limits" /\ LimitsNext
  /\ UNCHANGED <<subject, answersVars, schedulesVars, tokensVars, overridesVars,
                  selectionVars, geoVars, listsVars, clusterVars>>

ListsStep ==
  /\ subject = "lists" /\ ListsNext
  /\ UNCHANGED <<subject, answersVars, schedulesVars, tokensVars, overridesVars,
                  selectionVars, geoVars, limitsVars, clusterVars>>

ClusterStep ==
  /\ subject = "cluster" /\ ClusterNext
  /\ UNCHANGED <<subject, answersVars, schedulesVars, tokensVars, overridesVars,
                  selectionVars, geoVars, limitsVars, listsVars>>

ProcessNext ==
  \/ AnswersStep \/ SchedulesStep \/ TokensStep \/ OverridesStep
  \/ SelectionStep \/ GeoStep \/ LimitsStep \/ ListsStep \/ ClusterStep

ProcessSpec == ProcessInit /\ [][ProcessNext]_processVars

\* The fairness of the schedules and of the limits.
ProcessFairSpec ==
  /\ ProcessSpec
  /\ WF_schedulesVars(subject = "schedules" /\ Sync)
  /\ \A r \in 1..MaxRunning : WF_schedulesVars(subject = "schedules" /\ SendChunk(r))
  /\ \A s \in Schedules :
       SF_schedulesVars(subject = "schedules" /\ \E n \in 1..MaxChunks : Fire(s, n))
  /\ WF_limitsVars(subject = "limits" /\ \E n, m \in Nodes : Pull(n, m))
  /\ WF_limitsVars(subject = "limits" /\ \E n \in Nodes : SyncProbeLimits(n))
  /\ WF_limitsVars(subject = "limits" /\ \E p \in closing : DisconnectSocket(p))
===============================================================================
