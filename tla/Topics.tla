------------------------------- MODULE Topics -------------------------------
(***************************************************************************)
(* orchestrator/kafka: at its start, the orchestrator creates or aligns    *)
(* the topic of the flows and the one of the enriched flows, that may be   *)
(* on another cluster.  A topic has partitions, replicas and overrides of  *)
(* the settings of the cluster.                                            *)
(*                                                                         *)
(* Every request may fail, or have done its work without an answer: the    *)
(* orchestrator ends, and is started again with the same configuration or  *)
(* another one.  A broker may also refuse what is asked for one topic, in  *)
(* the answer to a request that went well: the answers are not looked at,  *)
(* and the orchestrator goes on as if it was done.                         *)
(***************************************************************************)
EXTENDS Integers, FiniteSets, Sequences

CONSTANTS
  TopicConfigs,           \* [manage, input, output]: is the input topic managed, and the
                          \* configuration of both topics, <<>> when there is none
  ClusterTopics,          \* what the cluster may have: functions from names to topics
  ForeignOverrides,       \* overrides that other tools may set, also when they create a topic
  MaxStarts, MaxForeign   \* bounds

HasFields(t) ==
  /\ t = [partitions |-> t.partitions, replicas |-> t.replicas, overrides |-> t.overrides]
  /\ t.partitions \in Nat /\ IsFiniteSet(DOMAIN t.overrides)

IsWanted(t) == t.partitions \in Nat /\ t.strict \in BOOLEAN /\ IsFiniteSet(DOMAIN t.entries)

(* The name of one topic ends with a version and the one of the other with *)
(* a hash.                                                                 *)
ASSUME TopicsAssumption ==
  /\ \A c \in TopicConfigs :
       /\ c.manage \in BOOLEAN /\ IsWanted(c.input)
       /\ c.output # <<>> => IsWanted(c.output) /\ c.output.name # c.input.name
  /\ \A t \in ClusterTopics :
       t = [n \in DOMAIN t |-> t[n]] /\ \A n \in DOMAIN t : HasFields(t[n])
  /\ \A o \in ForeignOverrides : IsFiniteSet(DOMAIN o)

VARIABLES
  topics,                 \* name -> [partitions, replicas, overrides]
  topicConfig,
  managing,               \* what is left to do: topics, the first one at the step
  topicStep,              \* "list", "align", "describe", "alter", "done", "failed"
  listed, described,      \* the answers
  starts, foreign,        \* counters
  everAsked, since,       \* ghosts: partitions it was asked for, foreign at the last start,
  refused                 \*         what was refused since, as pairs of a topic and a request

topicVars ==
  <<topics, topicConfig, managing, topicStep, listed, described, starts, foreign, everAsked, since,
    refused>>

ToManage(c) ==
  (IF c.manage THEN <<c.input>> ELSE <<>>) \o (IF c.output = <<>> THEN <<>> ELSE <<c.output>>)

WantedTopics(c) == {ToManage(c)[i] : i \in DOMAIN ToManage(c)}

TopicsInit ==
  /\ topics \in ClusterTopics /\ topicConfig \in TopicConfigs
  /\ managing = ToManage(topicConfig) /\ topicStep = "list"
  /\ listed = <<>> /\ described = <<>> /\ starts = 1 /\ foreign = 0
  /\ everAsked = [n \in DOMAIN topics |-> topics[n].partitions]
  /\ since = 0 /\ refused = {}

Target == managing[1]

Overriding(new, old) ==
  [k \in DOMAIN new \cup DOMAIN old |-> IF k \in DOMAIN new THEN new[k] ELSE old[k]]

(* The topic is done, the next one is listed by a client of its own.       *)
NextTopic ==
  /\ managing' = Tail(managing)
  /\ topicStep' = IF Len(managing) = 1 THEN "done" ELSE "list"

(* No answer to a request that did its work.                               *)
NoAnswer == topicStep' = "failed" /\ UNCHANGED managing

ListTopics ==
  /\ topicStep = "list"
  /\ IF managing = <<>> THEN topicStep' = "done" /\ UNCHANGED listed
     ELSE topicStep' = "align" /\ listed' = topics
  /\ UNCHANGED <<topics, topicConfig, managing, described, starts, foreign, everAsked, since, refused>>

Wants(name, partitions) ==
  [n \in DOMAIN everAsked \cup {name} |->
     LET known == IF n \in DOMAIN everAsked THEN everAsked[n] ELSE 0
     IN IF n = name /\ partitions > known THEN partitions ELSE known]

CreateTopic ==
  /\ topicStep = "align" /\ Target.name \notin DOMAIN listed
  /\ Target.name \notin DOMAIN topics
  /\ LET created == [partitions |-> Target.partitions, replicas |-> Target.replicas,
                     overrides |-> Target.entries]
     IN topics' = Overriding([n \in {Target.name} |-> created], topics)
  /\ everAsked' = Wants(Target.name, Target.partitions)
  /\ NextTopic \/ NoAnswer
  /\ UNCHANGED <<topicConfig, listed, described, starts, foreign, since, refused>>

(* Mistake: they are computed from what is configured.                     *)
MissingPartitionsAll(known) == Target.partitions

(* The library adds them to those there are.                               *)
MissingPartitions(known) == Target.partitions - known.partitions

(* Their number is never decreased; a mismatch of the replicas is a        *)
(* warning.                                                                *)
AlignPartitions ==
  /\ topicStep = "align" /\ Target.name \in DOMAIN listed
  /\ LET known == listed[Target.name]
     IN topics' = IF known.partitions < Target.partitions
                  THEN [topics EXCEPT ![Target.name].partitions = @ + MissingPartitions(known)]
                  ELSE topics
  /\ everAsked' = Wants(Target.name, Target.partitions)
  /\ topicStep' = "describe"
  /\ UNCHANGED <<topicConfig, managing, listed, described, starts, foreign, since, refused>>

DescribeTopic ==
  /\ topicStep = "describe"
  /\ described' = topics[Target.name].overrides
  /\ topicStep' = "alter"
  /\ UNCHANGED <<topics, topicConfig, managing, listed, starts, foreign, everAsked, since, refused>>

ShouldAlterConfiguration(target, source, strict) ==
  \/ \E k \in DOMAIN target : ~(k \in DOMAIN source /\ source[k] = target[k])
  \/ strict /\ Cardinality(DOMAIN target) # Cardinality(DOMAIN source)

(* All that was described and is not listed is deleted, what was added     *)
(* since then is not.                                                      *)
AlterTopic ==
  /\ topicStep = "alter"
  /\ LET now == topics[Target.name].overrides
         kept == DOMAIN now \ (DOMAIN described \ DOMAIN Target.entries)
     IN topics' = IF ShouldAlterConfiguration(Target.entries, described, Target.strict)
                  THEN [topics EXCEPT ![Target.name].overrides =
                          Overriding(Target.entries, [k \in kept |-> now[k]])]
                  ELSE topics
  /\ NextTopic \/ NoAnswer
  /\ UNCHANGED <<topicConfig, listed, described, starts, foreign, everAsked, since, refused>>

(* What the next request asks for the topic.                               *)
TopicRequest ==
  IF topicStep # "align" THEN topicStep
  ELSE IF Target.name \in DOMAIN listed THEN "partitions" ELSE "create"

(* The broker refuses it, or the topic was created meanwhile.  The errors  *)
(* of the topics are in the answer, and the answer is dropped; the one of  *)
(* the description is as if the topic had no override.                     *)
TopicRefused ==
  /\ topicStep \in {"align", "describe", "alter"}
  /\ \/ TopicRequest = "create" /\ NextTopic /\ UNCHANGED described
     \/ /\ TopicRequest = "partitions" /\ listed[Target.name].partitions < Target.partitions
        /\ topicStep' = "describe" /\ UNCHANGED <<managing, described>>
     \/ /\ TopicRequest = "describe"
        /\ described' = <<>> /\ topicStep' = "alter" /\ UNCHANGED managing
     \/ /\ TopicRequest = "alter"
        /\ ShouldAlterConfiguration(Target.entries, described, Target.strict)
        /\ NextTopic /\ UNCHANGED described
  /\ refused' = refused \cup {<<Target.name, TopicRequest>>}
  /\ UNCHANGED <<topics, topicConfig, listed, starts, foreign, everAsked, since>>

(* The request fails, or the last one had no answer.                       *)
TopicRequestFails ==
  /\ topicStep \notin {"done", "failed"} /\ managing # <<>> /\ topicStep' = "failed"
  /\ UNCHANGED <<topics, topicConfig, managing, listed, described, starts, foreign, everAsked, since, refused>>

StartAgain ==
  /\ topicStep \in {"done", "failed"} /\ starts < MaxStarts /\ starts' = starts + 1
  /\ topicConfig' \in TopicConfigs
  /\ managing' = ToManage(topicConfig') /\ topicStep' = "list"
  /\ listed' = <<>> /\ described' = <<>> /\ since' = foreign /\ refused' = {}
  /\ UNCHANGED <<topics, foreign, everAsked>>

(* Another tool sets or removes an override.                               *)
ForeignOverride ==
  /\ foreign < MaxForeign /\ foreign' = foreign + 1
  /\ \E n \in DOMAIN topics, o \in ForeignOverrides :
       topics' = [topics EXCEPT ![n].overrides = Overriding(o, @)]
  /\ UNCHANGED <<topicConfig, managing, topicStep, listed, described, starts, everAsked, since, refused>>

(* Another tool creates one of the topics.                                 *)
ForeignTopic ==
  /\ foreign < MaxForeign /\ foreign' = foreign + 1
  /\ \E c \in TopicConfigs, o \in ForeignOverrides :
       \E t \in WantedTopics(c) :
         /\ t.name \notin DOMAIN topics
         /\ topics' = Overriding(
                         [n \in {t.name} |-> [partitions |-> 1, replicas |-> 1, overrides |-> o]], topics)
         /\ everAsked' = Wants(t.name, 1)
  /\ UNCHANGED <<topicConfig, managing, topicStep, listed, described, starts, since, refused>>

TopicsNext ==
  \/ ListTopics \/ CreateTopic \/ AlignPartitions \/ DescribeTopic \/ AlterTopic
  \/ TopicRefused \/ TopicRequestFails \/ StartAgain \/ ForeignOverride \/ ForeignTopic

TopicsSpec == TopicsInit /\ [][TopicsNext]_topicVars

----------------------------------------------------------------------------
(* Properties                                                              *)

(* Whatever fails and however many times the orchestrator is started, a    *)
(* topic has no more partitions than the most it was asked to have: they   *)
(* cannot be removed.                                                      *)
PartitionsAsked == \A n \in DOMAIN topics : topics[n].partitions <= everAsked[n]

(* One of these requests was refused for this topic since the start.       *)
RefusedOf(t, requests) == \E request \in requests : <<t.name, request>> \in refused

(* The topic has the partitions and the entries that are asked for, and    *)
(* nothing else if it is strict, but for what was refused.                 *)
Aligned(t) ==
  LET got == topics[t.name]
  IN /\ ~RefusedOf(t, {"create"}) => t.name \in DOMAIN topics
     /\ ~RefusedOf(t, {"create", "partitions"}) => got.partitions >= t.partitions
     /\ ~RefusedOf(t, {"create", "alter"}) =>
           /\ DOMAIN t.entries \subseteq DOMAIN got.overrides
           /\ \A k \in DOMAIN t.entries : got.overrides[k] = t.entries[k]
     /\ t.strict /\ ~RefusedOf(t, {"create", "describe", "alter"}) =>
           DOMAIN got.overrides = DOMAIN t.entries

(* When the orchestrator has started and no other tool was at work, each   *)
(* topic is as the configuration says, but for what the broker refused for *)
(* this topic in this start, that is not reported: partitions that are     *)
(* refused do not keep the entries from being set, nor what is refused for *)
(* a topic the other one from being aligned, and without the description   *)
(* only what is not listed may be left over.                               *)
TopicsAligned ==
  topicStep = "done" /\ foreign = since => \A t \in WantedTopics(topicConfig) : Aligned(t)

(* "except if you disable the config-entries-strict-sync, the existing     *)
(* non-listed overrides won't be removed".                                 *)
ForeignKept ==
  [][\A n \in DOMAIN topics :
       topicStep = "alter" /\ Target.name = n /\ ~Target.strict =>
         DOMAIN topics[n].overrides \subseteq DOMAIN topics'[n].overrides]_topicVars

(* Topics are what the configuration says, for what can be changed.        *)
TopicsRight == PartitionsAsked /\ TopicsAligned
=============================================================================
