-------------------------- MODULE ManagementProofs --------------------------
(***************************************************************************)
(* Proofs about the parts of the orchestrator and of the console that      *)
(* share something with others: the topics of Kafka, the filters that      *)
(* users save, the health checks, and the answers the console keeps.       *)
(***************************************************************************)
EXTENDS Topics, SavedFilters, Health, Completion, FiniteSetTheorems, SequenceTheorems, TLAPS

SetOf(s) == {s[i] : i \in DOMAIN s}

Managed == WantedTopics(topicConfig)

(* What is left to do is an end of what the configuration asks for.        *)
QueueInv ==
  /\ topicConfig \in TopicConfigs
  /\ \/ managing = ToManage(topicConfig)
     \/ managing = <<>>
     \/ topicConfig.manage /\ topicConfig.output # <<>> /\ managing = <<topicConfig.output>>
  /\ topicStep \in {"align", "describe", "alter"} => managing # <<>>
  /\ topicStep = "done" => managing = <<>>

(* What was listed and what was described is still so: but for the         *)
(* overrides, only the orchestrator changes topics.  What was refused is    *)
(* noted.                                                                  *)
StepInv ==
  /\ foreign \in Nat /\ since \in Nat /\ since <= foreign
  /\ topicStep = "align" =>
       \A n \in DOMAIN listed : n \in DOMAIN topics /\ listed[n].partitions = topics[n].partitions
  /\ topicStep \in {"describe", "alter"} =>
       /\ Target.name \in DOMAIN topics
       /\ topics[Target.name].partitions >= Target.partitions \/ RefusedOf(Target, {"partitions"})
  /\ topicStep = "alter" /\ foreign = since =>
       \/ described = topics[Target.name].overrides
       \/ described = <<>> /\ RefusedOf(Target, {"describe"})

(* The topics that are done stay aligned while the others are dealt with.  *)
DoneInv == foreign = since => \A t \in Managed \ SetOf(managing) : Aligned(t)

AskedInv ==
  /\ topics = [n \in DOMAIN topics |-> topics[n]]
  /\ \A n \in DOMAIN topics : HasFields(topics[n])
  /\ \A n \in DOMAIN everAsked : everAsked[n] \in Nat
  /\ DOMAIN topics \subseteq DOMAIN everAsked
  /\ PartitionsAsked

TopicsInv == QueueInv /\ StepInv /\ DoneInv /\ AskedInv

-----------------------------------------------------------------------------
(* The queue of the topics                                                 *)

LEMMA SetOfShort ==
  ASSUME NEW a, NEW b
  PROVE  /\ SetOf(<<>>) = {} /\ SetOf(<<a>>) = {a} /\ SetOf(<<a, b>>) = {a, b}
         /\ Tail(<<a>>) = <<>> /\ Tail(<<a, b>>) = <<b>>
         /\ Len(<<a>>) = 1 /\ Len(<<a, b>>) = 2 /\ <<a>> # <<>> /\ <<a, b>> # <<>>
<1>1. DOMAIN <<>> = {} /\ DOMAIN <<a>> = {1} /\ DOMAIN <<a, b>> = {1, 2}
  OBVIOUS
<1>2. SetOf(<<>>) = {}
  BY <1>1 DEF SetOf
<1>3. SetOf(<<a>>) = {a}
  BY <1>1 DEF SetOf
<1>4. SetOf(<<a, b>>) = {a, b}
  BY <1>1 DEF SetOf
<1>. QED  BY <1>2, <1>3, <1>4

LEMMA Concatenated ==
  ASSUME NEW a, NEW b
  PROVE  <<a>> \o <<b>> = <<a, b>>
<1> DEFINE S == {a, b}
           s == <<a>> \o <<b>>
           t == <<a, b>>
<1>1. <<a>> \in Seq(S) /\ <<b>> \in Seq(S) /\ t \in Seq(S)
  OBVIOUS
<1>2. s \in Seq(S) /\ Len(s) = 2 /\ s[1] = a /\ s[2] = b
  BY <1>1, ConcatProperties
<1>3. Len(t) = 2 /\ t[1] = a /\ t[2] = b
  OBVIOUS
<1> HIDE DEF s, t, S
<1>4. \A i \in 1..Len(s) : s[i] = t[i]
  BY <1>2, <1>3
<1>5. s = t
  BY <1>1, <1>2, <1>3, <1>4, SeqEqual
<1>. QED  BY <1>5 DEF s, t

LEMMA ToManageShape ==
  ASSUME NEW c
  PROVE  ToManage(c) = IF c.manage THEN IF c.output = <<>> THEN <<c.input>> ELSE <<c.input, c.output>>
                       ELSE IF c.output = <<>> THEN <<>> ELSE <<c.output>>
<1>1. <<c.input>> \o <<>> = <<c.input>> /\ <<>> \o <<c.output>> = <<c.output>> /\ <<>> \o <<>> = <<>>
  OBVIOUS
<1>2. <<c.input>> \o <<c.output>> = <<c.input, c.output>>
  BY Concatenated
<1>. QED  BY <1>1, <1>2 DEF ToManage

(* The first of the topics that are left is one that the configuration     *)
(* asks for, and no other one has its name.                                *)
LEMMA TargetOfQueue ==
  ASSUME QueueInv, managing # <<>>
  PROVE  /\ IsWanted(Target) /\ Target \in Managed
         /\ \A t \in Managed : t # Target => t.name # Target.name
         /\ SetOf(managing) = {Target} \cup SetOf(Tail(managing))
         /\ Tail(managing) = <<>> <=> Len(managing) = 1
         /\ \/ Tail(managing) = <<>>
            \/ /\ topicConfig.manage /\ topicConfig.output # <<>>
               /\ Tail(managing) = <<topicConfig.output>>
<1> DEFINE in == topicConfig.input
           out == topicConfig.output
<1>1. /\ topicConfig.manage \in BOOLEAN /\ IsWanted(in)
      /\ out # <<>> => IsWanted(out) /\ out.name # in.name
  BY TopicsAssumption DEF QueueInv
<1>2. Managed = (IF topicConfig.manage THEN {in} ELSE {}) \cup (IF out = <<>> THEN {} ELSE {out})
  <2> DEFINE all == ToManage(topicConfig)
  <2>1. all = IF topicConfig.manage THEN IF out = <<>> THEN <<in>> ELSE <<in, out>>
              ELSE IF out = <<>> THEN <<>> ELSE <<out>>
    BY ToManageShape
  <2>2. Managed = SetOf(all)
    BY DEF Managed, WantedTopics, SetOf
  <2> HIDE DEF all
  <2>3. SetOf(<<in>>) = {in} /\ SetOf(<<in, out>>) = {in, out} /\ SetOf(<<out>>) = {out}
        /\ SetOf(<<>>) = {}
    BY SetOfShort
  <2>4. Managed = IF topicConfig.manage THEN IF out = <<>> THEN {in} ELSE {in, out}
                  ELSE IF out = <<>> THEN {} ELSE {out}
    BY <2>1, <2>2, <2>3, <1>1
  <2>. QED  BY <2>4, <1>1
<1>3. \/ managing = <<in>> /\ topicConfig.manage /\ out = <<>>
      \/ managing = <<in, out>> /\ topicConfig.manage /\ out # <<>>
      \/ managing = <<out>> /\ out # <<>>
  BY <1>1, ToManageShape DEF QueueInv
<1>4. CASE managing = <<in>> /\ topicConfig.manage /\ out = <<>>
  BY <1>1, <1>2, <1>4, SetOfShort DEF Target
<1>5. CASE managing = <<in, out>> /\ topicConfig.manage /\ out # <<>>
  <2>1. Target = in /\ Tail(managing) = <<out>> /\ Len(managing) = 2 /\ SetOf(managing) = {in, out}
        /\ SetOf(<<out>>) = {out} /\ <<out>> # <<>>
    BY <1>5, SetOfShort DEF Target
  <2>. QED  BY <1>1, <1>2, <1>5, <2>1
<1>6. CASE managing = <<out>> /\ out # <<>>
  BY <1>1, <1>2, <1>6, SetOfShort DEF Target
<1>. QED  BY <1>3, <1>4, <1>5, <1>6

LEMMA QueueAdvances ==
  ASSUME QueueInv, managing # <<>>, NextTopic \/ NoAnswer, UNCHANGED topicConfig
  PROVE  /\ QueueInv' /\ topicStep' \in {"list", "done", "failed"}
         /\ Managed' = Managed
         /\ Managed' \ SetOf(managing)' \subseteq {Target} \cup (Managed \ SetOf(managing))
<1>1. Managed' = Managed
  BY DEF Managed, WantedTopics, ToManage
<1>2. CASE NextTopic
  <2>1. managing' = Tail(managing) /\ topicStep' = IF Len(managing) = 1 THEN "done" ELSE "list"
    BY <1>2 DEF NextTopic
  <2>2. SetOf(managing)' = SetOf(Tail(managing))
    BY <2>1 DEF SetOf
  <2>3. QueueInv'
    BY <2>1, TargetOfQueue DEF QueueInv
  <2>. QED  BY <1>1, <2>1, <2>2, <2>3, TargetOfQueue
<1>3. CASE NoAnswer
  <2>1. QueueInv' /\ SetOf(managing)' = SetOf(managing) /\ topicStep' = "failed"
    BY <1>3 DEF NoAnswer, QueueInv, ToManage, SetOf
  <2>. QED  BY <1>1, <2>1
<1>. QED  BY <1>2, <1>3

-----------------------------------------------------------------------------
(* Actions                                                                 *)

LEMMA TopicsStart == TopicsInit => TopicsInv
<1> SUFFICES ASSUME TopicsInit PROVE TopicsInv
  OBVIOUS
<1> USE DEF TopicsInit
<1>1. QueueInv
  BY DEF QueueInv
<1>2. StepInv
  BY DEF StepInv
<1>3. DoneInv
  BY DEF DoneInv, Managed, WantedTopics, SetOf
<1>4. AskedInv
  BY TopicsAssumption DEF AskedInv, PartitionsAsked, HasFields
<1>. QED  BY <1>1, <1>2, <1>3, <1>4 DEF TopicsInv

(* Whatever leaves the topics and the queue alone.                         *)
LEMMA QueueKept ==
  ASSUME TopicsInv, UNCHANGED <<topics, topicConfig, managing, starts, foreign, everAsked, since>>,
         refused \subseteq refused',
         topicStep' \in {"align", "describe", "alter"} => managing # <<>>,
         topicStep' = "done" => managing = <<>>
  PROVE  QueueInv' /\ DoneInv' /\ AskedInv'
<1>1. QueueInv'
  BY DEF TopicsInv, QueueInv, ToManage
<1>2. Managed' = Managed /\ SetOf(managing)' = SetOf(managing)
  BY DEF Managed, WantedTopics, SetOf, ToManage
<1>3. \A t : Aligned(t) => Aligned(t)'
  BY DEF Aligned, RefusedOf
<1>4. DoneInv'
  BY <1>2, <1>3 DEF TopicsInv, DoneInv
<1>5. AskedInv'
  BY DEF TopicsInv, AskedInv, PartitionsAsked, HasFields
<1>. QED  BY <1>1, <1>4, <1>5

LEMMA ListTopicsStep ==
  ASSUME TopicsInv, ListTopics
  PROVE  TopicsInv'
<1>1. QueueInv' /\ DoneInv' /\ AskedInv'
  BY QueueKept DEF ListTopics
<1>2. StepInv'
  BY DEF TopicsInv, StepInv, ListTopics
<1>. QED  BY <1>1, <1>2 DEF TopicsInv

LEMMA DescribeTopicStep ==
  ASSUME TopicsInv, DescribeTopic
  PROVE  TopicsInv'
<1>1. QueueInv' /\ DoneInv' /\ AskedInv'
  BY QueueKept DEF DescribeTopic, TopicsInv, QueueInv
<1>2. StepInv'
  BY DEF TopicsInv, StepInv, DescribeTopic, Target, RefusedOf
<1>. QED  BY <1>1, <1>2 DEF TopicsInv

LEMMA TopicRequestFailsStep ==
  ASSUME TopicsInv, TopicRequestFails
  PROVE  TopicsInv'
<1>1. QueueInv' /\ DoneInv' /\ AskedInv'
  BY QueueKept DEF TopicRequestFails
<1>2. StepInv'
  BY DEF TopicsInv, StepInv, TopicRequestFails
<1>. QED  BY <1>1, <1>2 DEF TopicsInv

LEMMA StartAgainStep ==
  ASSUME TopicsInv, StartAgain
  PROVE  TopicsInv'
<1> USE DEF StartAgain
<1>1. QueueInv'
  BY DEF QueueInv
<1>2. StepInv'
  BY DEF TopicsInv, StepInv
<1>3. Managed' = SetOf(managing)'
  BY DEF Managed, WantedTopics, SetOf
<1>4. DoneInv'
  BY <1>3 DEF DoneInv
<1>5. AskedInv'
  BY DEF TopicsInv, AskedInv, PartitionsAsked, HasFields
<1>. QED  BY <1>1, <1>2, <1>4, <1>5 DEF TopicsInv

(* Another tool: nothing is told any more about what the topics are.       *)
LEMMA ForeignOverrideStep ==
  ASSUME TopicsInv, ForeignOverride
  PROVE  TopicsInv'
<1>1. foreign' # since' /\ foreign' \in Nat /\ since' \in Nat /\ since' <= foreign'
  BY DEF TopicsInv, StepInv, ForeignOverride
<1>2. QueueInv'
  BY DEF TopicsInv, QueueInv, ToManage, ForeignOverride
<1>3. DoneInv'
  BY <1>1 DEF DoneInv
<1>4. AskedInv /\ StepInv
  BY DEF TopicsInv
<1>5. PICK n \in DOMAIN topics, o \in ForeignOverrides :
        topics' = [topics EXCEPT ![n].overrides = Overriding(o, @)]
  BY DEF ForeignOverride
<1> DEFINE new == Overriding(o, topics[n].overrides)
<1>6. IsFiniteSet(DOMAIN new)
  <2>1. IsFiniteSet(DOMAIN o) /\ IsFiniteSet(DOMAIN topics[n].overrides)
    BY <1>4, TopicsAssumption DEF AskedInv, HasFields
  <2>2. DOMAIN new = DOMAIN o \cup DOMAIN topics[n].overrides
    BY DEF Overriding
  <2>3. IsFiniteSet(DOMAIN o \cup DOMAIN topics[n].overrides)
    BY <2>1, FS_Union
  <2>. QED  BY <2>2, <2>3
<1> HIDE DEF new
<1>7. topics' = [topics EXCEPT ![n] =
                   [partitions |-> topics[n].partitions, replicas |-> topics[n].replicas, overrides |-> new]]
  <2>1. topics[n] = [partitions |-> topics[n].partitions, replicas |-> topics[n].replicas,
                     overrides |-> topics[n].overrides]
    BY <1>4 DEF AskedInv, HasFields
  <2> DEFINE old == topics[n]
             to == [partitions |-> old.partitions, replicas |-> old.replicas, overrides |-> new]
  <2>2. topics' = [topics EXCEPT ![n] = [old EXCEPT !.overrides = new]]
    BY <1>5 DEF new
  <2>3. [old EXCEPT !.overrides = new] = to
    <3> HIDE DEF old
    <3>1. old = [partitions |-> old.partitions, replicas |-> old.replicas, overrides |-> old.overrides]
      BY <2>1 DEF old
    <3>. QED  BY <3>1
  <2>. QED  BY <2>2, <2>3
<1>8. /\ DOMAIN topics' = DOMAIN topics /\ topics' = [m \in DOMAIN topics' |-> topics'[m]]
      /\ \A m \in DOMAIN topics : HasFields(topics'[m]) /\ topics'[m].partitions = topics[m].partitions
  <2>1. DOMAIN topics' = DOMAIN topics /\ topics' = [m \in DOMAIN topics' |-> topics'[m]]
    BY <1>7
  <2>2. ASSUME NEW m \in DOMAIN topics
        PROVE  HasFields(topics'[m]) /\ topics'[m].partitions = topics[m].partitions
    <3>1. CASE m = n
      <4>1. topics'[m] = [partitions |-> topics[n].partitions, replicas |-> topics[n].replicas,
                          overrides |-> new]
        BY <1>4, <1>7, <3>1 DEF AskedInv
      <4>. QED  BY <1>4, <1>6, <3>1, <4>1 DEF AskedInv, HasFields
    <3>2. CASE m # n
      <4>1. topics'[m] = topics[m]
        BY <1>4, <1>7, <3>2 DEF AskedInv
      <4>. QED  BY <1>4, <4>1 DEF AskedInv
    <3>. QED  BY <3>1, <3>2
  <2>. QED  BY <2>1, <2>2
<1>9. StepInv'
  BY <1>1, <1>4, <1>8 DEF StepInv, Target, ForeignOverride, RefusedOf
<1>10. AskedInv'
  BY <1>4, <1>8 DEF AskedInv, PartitionsAsked, ForeignOverride
<1>. QED  BY <1>2, <1>3, <1>9, <1>10 DEF TopicsInv

(* Orchestrator: the other topics are left as they are.                    *)
LEMMA OthersAligned ==
  ASSUME TopicsInv, managing # <<>>,
         \A n \in DOMAIN topics : n # Target.name => n \in DOMAIN topics' /\ topics'[n] = topics[n],
         refused \subseteq refused', NEW t \in Managed, t # Target, Aligned(t)
  PROVE  Aligned(t)'
<1>1. t.name # Target.name
  BY TargetOfQueue DEF TopicsInv
<1>. QED  BY <1>1 DEF Aligned, RefusedOf

LEMMA WantsGrows ==
  ASSUME AskedInv, NEW name, NEW partitions \in Nat, everAsked' = Wants(name, partitions)
  PROVE  /\ DOMAIN everAsked' = DOMAIN everAsked \cup {name}
         /\ \A n \in DOMAIN everAsked' : everAsked'[n] \in Nat
         /\ \A n \in DOMAIN everAsked : everAsked'[n] >= everAsked[n]
         /\ everAsked'[name] >= partitions
<1> DEFINE known(n) == IF n \in DOMAIN everAsked THEN everAsked[n] ELSE 0
<1>1. \A n : known(n) \in Nat
  BY DEF AskedInv
<1>2. /\ DOMAIN everAsked' = DOMAIN everAsked \cup {name}
      /\ \A n \in DOMAIN everAsked' :
           everAsked'[n] = IF n = name /\ partitions > known(n) THEN partitions ELSE known(n)
  BY DEF Wants
<1>3. \A n \in DOMAIN everAsked' : everAsked'[n] \in Nat /\ everAsked'[n] >= known(n)
  <2> HIDE DEF known
  <2>. QED  BY <1>1, <1>2
<1>4. everAsked'[name] >= partitions
  <2> HIDE DEF known
  <2>. QED  BY <1>1, <1>2
<1>. QED  BY <1>2, <1>3, <1>4

LEMMA CreateTopicStep ==
  ASSUME TopicsInv, CreateTopic
  PROVE  TopicsInv'
<1> DEFINE name == Target.name
           created == [partitions |-> Target.partitions, replicas |-> Target.replicas,
                       overrides |-> Target.entries]
<1>1. managing # <<>> /\ QueueInv /\ StepInv /\ DoneInv /\ AskedInv
  BY DEF TopicsInv, QueueInv, CreateTopic
<1>2. /\ topics' = Overriding([n \in {name} |-> created], topics) /\ name \notin DOMAIN topics
      /\ everAsked' = Wants(name, Target.partitions) /\ (NextTopic \/ NoAnswer)
      /\ UNCHANGED <<topicConfig, foreign, since, refused>>
  BY DEF CreateTopic
<1>3. /\ DOMAIN topics' = DOMAIN topics \cup {name} /\ topics' = [n \in DOMAIN topics' |-> topics'[n]]
      /\ topics'[name] = created
      /\ \A n \in DOMAIN topics : topics'[n] = topics[n]
  BY <1>2 DEF Overriding
<1>4. IsWanted(Target)
  BY <1>1, TargetOfQueue
<1>5. QueueInv' /\ topicStep' \in {"list", "done", "failed"}
  BY <1>1, <1>2, QueueAdvances
<1>6. Managed' \ SetOf(managing)' \subseteq {Target} \cup (Managed \ SetOf(managing))
  BY <1>1, <1>2, QueueAdvances
<1>7. StepInv'
  BY <1>1, <1>2, <1>5 DEF StepInv
<1>8. AskedInv'
  <2>1. HasFields(created) /\ created.partitions = Target.partitions
    BY <1>4 DEF IsWanted, HasFields
  <2>2. /\ DOMAIN everAsked' = DOMAIN everAsked \cup {name}
        /\ \A n \in DOMAIN everAsked' : everAsked'[n] \in Nat
        /\ \A n \in DOMAIN everAsked : everAsked'[n] >= everAsked[n]
        /\ everAsked'[name] >= Target.partitions
    BY <1>1, <1>2, <1>4, WantsGrows DEF IsWanted
  <2> HIDE DEF created, name
  <2>3. \A n \in DOMAIN topics' : HasFields(topics'[n])
    BY <1>1, <1>3, <2>1 DEF AskedInv
  <2>4. \A n \in DOMAIN topics' : topics'[n].partitions <= everAsked'[n]
    <3>1. ASSUME NEW n \in DOMAIN topics PROVE topics'[n].partitions <= everAsked'[n]
      <4>1. /\ topics[n].partitions \in Nat /\ everAsked[n] \in Nat /\ n \in DOMAIN everAsked
            /\ topics[n].partitions <= everAsked[n]
        BY <1>1 DEF AskedInv, PartitionsAsked, HasFields
      <4>2. topics'[n] = topics[n] /\ everAsked'[n] >= everAsked[n] /\ everAsked'[n] \in Nat
        BY <1>3, <2>2, <4>1
      <4>. QED  BY <4>1, <4>2
    <3>2. topics'[name].partitions <= everAsked'[name]
      BY <1>3, <1>4, <2>1, <2>2 DEF IsWanted
    <3>. QED  BY <1>3, <3>1, <3>2
  <2>. QED  BY <1>1, <1>3, <2>2, <2>3, <2>4 DEF AskedInv, PartitionsAsked
<1>9. DoneInv'
  <2>. SUFFICES ASSUME foreign = since, NEW t \in Managed' \ SetOf(managing)' PROVE Aligned(t)'
    BY <1>2 DEF DoneInv
  <2>1. CASE t = Target
    BY <1>3, <1>4, <2>1 DEF Aligned, IsWanted
  <2>2. CASE t # Target
    <3>1. t \in Managed /\ Aligned(t)
      BY <1>1, <1>6, <2>2 DEF DoneInv
    <3>. QED  BY <1>1, <1>2, <1>3, <2>2, <3>1, OthersAligned
  <2>. QED  BY <2>1, <2>2
<1>. QED  BY <1>5, <1>7, <1>8, <1>9 DEF TopicsInv

(* The partitions that are missing are counted from what was listed: they  *)
(* are as many as those of the configuration.                              *)
LEMMA AlignPartitionsStep ==
  ASSUME TopicsInv, AlignPartitions
  PROVE  TopicsInv'
<1> DEFINE name == Target.name
           old == topics[name]
           wanted == Target.partitions
           n2 == IF old.partitions < wanted THEN wanted ELSE old.partitions
           new == [partitions |-> n2, replicas |-> old.replicas, overrides |-> old.overrides]
<1>1. managing # <<>> /\ QueueInv /\ StepInv /\ DoneInv /\ AskedInv
  BY DEF TopicsInv, QueueInv, AlignPartitions
<1>2. name \in DOMAIN listed /\ topicStep = "align" /\ topicStep' = "describe"
      /\ everAsked' = Wants(name, wanted)
      /\ UNCHANGED <<topicConfig, managing, foreign, since, refused>>
  BY DEF AlignPartitions
<1>3. name \in DOMAIN topics /\ listed[name].partitions = old.partitions
  BY <1>1, <1>2 DEF StepInv
<1>4. IsWanted(Target) /\ wanted \in Nat
  BY <1>1, TargetOfQueue DEF IsWanted
<1>5. /\ old = [partitions |-> old.partitions, replicas |-> old.replicas, overrides |-> old.overrides]
      /\ old.partitions \in Nat /\ IsFiniteSet(DOMAIN old.overrides)
  BY <1>1, <1>3 DEF AskedInv, HasFields
<1>6. topics' = [topics EXCEPT ![name] = new]
  <2>1. CASE old.partitions < wanted
    <3>1. topics' = [topics EXCEPT ![name] = [old EXCEPT !.partitions = @ + MissingPartitions(listed[name])]]
      BY <1>3, <2>1 DEF AlignPartitions
    <3>2. old.partitions + MissingPartitions(listed[name]) = wanted
      BY <1>3, <1>4, <1>5 DEF MissingPartitions
    <3>3. [old EXCEPT !.partitions = wanted] = new
      <4> HIDE DEF old, wanted
      <4>. QED  BY <1>5, <2>1
    <3>. QED  BY <3>1, <3>2, <3>3
  <2>2. CASE ~(old.partitions < wanted)
    <3>1. topics' = topics /\ new = old
      BY <1>3, <1>5, <2>2 DEF AlignPartitions
    <3>. QED  BY <1>1, <1>3, <3>1 DEF AskedInv
  <2>. QED  BY <2>1, <2>2
<1>7. n2 \in Nat /\ n2 >= wanted /\ (n2 = wanted \/ n2 = old.partitions)
  BY <1>4, <1>5
<1>8. HasFields(new) /\ new.partitions = n2 /\ new.overrides = old.overrides
  BY <1>5, <1>7 DEF HasFields
<1> HIDE DEF n2, new
<1>9. /\ DOMAIN topics' = DOMAIN topics /\ topics' = [n \in DOMAIN topics' |-> topics'[n]]
      /\ topics'[name] = new
      /\ \A n \in DOMAIN topics : n # name => topics'[n] = topics[n]
  BY <1>3, <1>6
<1>10. QueueInv'
  BY <1>1, <1>2 DEF QueueInv, ToManage
<1>11. StepInv'
  BY <1>1, <1>2, <1>3, <1>7, <1>8, <1>9 DEF StepInv, Target
<1>12. AskedInv'
  <2>1. /\ DOMAIN everAsked' = DOMAIN everAsked \cup {name}
        /\ \A n \in DOMAIN everAsked' : everAsked'[n] \in Nat
        /\ \A n \in DOMAIN everAsked : everAsked'[n] >= everAsked[n]
        /\ everAsked'[name] >= wanted
    BY <1>1, <1>2, <1>4, WantsGrows
  <2> HIDE DEF name, wanted
  <2>2. \A n \in DOMAIN topics' : HasFields(topics'[n])
    BY <1>1, <1>8, <1>9 DEF AskedInv
  <2>3. ASSUME NEW n \in DOMAIN topics' PROVE topics'[n].partitions <= everAsked'[n]
    <3>1. /\ topics[n].partitions \in Nat /\ everAsked[n] \in Nat /\ n \in DOMAIN everAsked
          /\ topics[n].partitions <= everAsked[n]
      BY <1>1, <1>9 DEF AskedInv, PartitionsAsked, HasFields
    <3>2. everAsked'[n] >= everAsked[n] /\ everAsked'[n] \in Nat
      BY <2>1, <3>1
    <3>3. CASE n = name
      <4>1. topics'[n].partitions = n2 /\ (n2 = wanted \/ n2 = topics[n].partitions)
        BY <1>7, <1>8, <1>9, <3>3
      <4>2. wanted <= everAsked'[n] /\ wanted \in Nat
        BY <1>4, <2>1, <3>2, <3>3
      <4>. QED  BY <3>1, <3>2, <4>1, <4>2
    <3>4. CASE n # name
      BY <1>9, <3>1, <3>2, <3>4
    <3>. QED  BY <3>3, <3>4
  <2>. QED  BY <1>1, <1>9, <2>1, <2>2, <2>3 DEF AskedInv, PartitionsAsked
<1>13. DoneInv'
  <2>1. Managed' = Managed /\ SetOf(managing)' = SetOf(managing) /\ Target \in SetOf(managing)
    BY <1>1, <1>2, TargetOfQueue DEF Managed, WantedTopics, SetOf, ToManage
  <2>. SUFFICES ASSUME foreign = since, NEW t \in Managed \ SetOf(managing) PROVE Aligned(t)'
    BY <1>2, <2>1 DEF DoneInv
  <2>. QED  BY <1>1, <1>2, <1>9, <2>1, OthersAligned DEF DoneInv
<1>. QED  BY <1>10, <1>11, <1>12, <1>13 DEF TopicsInv

(* What is refused changes no topic: it is noted for the topic, whose next *)
(* requests go on, or that counts as done.                                 *)
LEMMA TopicRefusedStep ==
  ASSUME TopicsInv, TopicRefused
  PROVE  TopicsInv'
<1> DEFINE pair == <<Target.name, TopicRequest>>
<1>1. /\ managing # <<>> /\ QueueInv /\ StepInv /\ DoneInv /\ AskedInv
      /\ UNCHANGED <<topics, topicConfig, listed, starts, foreign, everAsked, since>>
      /\ refused \subseteq refused' /\ pair \in refused'
  BY DEF TopicsInv, QueueInv, TopicRefused
<1>3. AskedInv'
  BY <1>1 DEF AskedInv, PartitionsAsked, HasFields
<1>4. ASSUME NextTopic, NEW t \in Managed, t \in Managed' \ SetOf(managing)',
             foreign = since, t # Target
      PROVE  Aligned(t)'
  <2>1. Aligned(t)
    BY <1>1, <1>4, QueueAdvances DEF DoneInv
  <2>. QED  BY <1>1, <1>4, <2>1, OthersAligned
<1>5. CASE TopicRequest = "create" /\ NextTopic
  <2>1. QueueInv' /\ topicStep' \in {"list", "done", "failed"} /\ Managed' = Managed
    BY <1>1, <1>5, QueueAdvances
  <2>2. StepInv'
    BY <1>1, <2>1 DEF StepInv
  <2>4. ASSUME NEW t, t = Target PROVE Aligned(t)'
    BY <1>1, <1>5, <2>4 DEF Aligned, RefusedOf
  <2>5. DoneInv'
    BY <1>1, <1>4, <1>5, <2>1, <2>4 DEF DoneInv
  <2>. QED  BY <1>3, <2>1, <2>2, <2>5 DEF TopicsInv
<1>6. CASE TopicRequest = "partitions" /\ topicStep' = "describe" /\ UNCHANGED <<managing, described>>
  <2>1. QueueInv' /\ DoneInv'
    BY <1>1, <1>6, QueueKept
  <2>2. topicStep = "align" /\ Target.name \in DOMAIN listed
    BY <1>6 DEF TopicRequest, TopicRefused
  <2>3. StepInv'
    BY <1>1, <1>6, <2>2 DEF StepInv, Target, RefusedOf
  <2>. QED  BY <1>3, <2>1, <2>3 DEF TopicsInv
<1>7. CASE TopicRequest = "describe" /\ described' = <<>> /\ topicStep' = "alter" /\ UNCHANGED managing
  <2>1. QueueInv' /\ DoneInv'
    BY <1>1, <1>7, QueueKept
  <2>2. topicStep = "describe"
    BY <1>7 DEF TopicRequest
  <2>3. StepInv'
    BY <1>1, <1>7, <2>2 DEF StepInv, Target, RefusedOf
  <2>. QED  BY <1>3, <2>1, <2>3 DEF TopicsInv
<1>8. CASE TopicRequest = "alter" /\ NextTopic
  <2>1. QueueInv' /\ topicStep' \in {"list", "done", "failed"} /\ Managed' = Managed
    BY <1>1, <1>8, QueueAdvances
  <2>2. StepInv'
    BY <1>1, <2>1 DEF StepInv
  <2>3. topicStep = "alter"
    BY <1>8 DEF TopicRequest
  <2>4. ASSUME NEW t, t = Target PROVE Aligned(t)'
    BY <1>1, <1>8, <2>3, <2>4 DEF Aligned, RefusedOf, StepInv
  <2>5. DoneInv'
    BY <1>1, <1>4, <1>8, <2>1, <2>4 DEF DoneInv
  <2>. QED  BY <1>3, <2>1, <2>2, <2>5 DEF TopicsInv
<1>. QED  BY <1>5, <1>6, <1>7, <1>8 DEF TopicRefused

(* Another tool creates a topic: it is among those that were not there.    *)
LEMMA ForeignTopicStep ==
  ASSUME TopicsInv, ForeignTopic
  PROVE  TopicsInv'
<1>1. /\ foreign' # since' /\ foreign' \in Nat /\ since' \in Nat /\ since' <= foreign'
      /\ UNCHANGED <<topicConfig, managing, topicStep, listed, described, refused>>
  BY DEF TopicsInv, StepInv, ForeignTopic
<1>2. QueueInv'
  BY <1>1 DEF TopicsInv, QueueInv, ToManage
<1>3. DoneInv'
  BY <1>1 DEF DoneInv
<1>4. AskedInv /\ StepInv
  BY DEF TopicsInv
<1>5. PICK c \in TopicConfigs, o \in ForeignOverrides : \E t \in WantedTopics(c) :
        /\ t.name \notin DOMAIN topics /\ everAsked' = Wants(t.name, 1)
        /\ topics' = Overriding(
                        [n \in {t.name} |-> [partitions |-> 1, replicas |-> 1, overrides |-> o]], topics)
  BY DEF ForeignTopic
<1>11. PICK t \in WantedTopics(c) :
        /\ t.name \notin DOMAIN topics /\ everAsked' = Wants(t.name, 1)
        /\ topics' = Overriding(
                        [n \in {t.name} |-> [partitions |-> 1, replicas |-> 1, overrides |-> o]], topics)
  BY <1>5
<1> DEFINE name == t.name
<1> DEFINE new == [partitions |-> 1, replicas |-> 1, overrides |-> o]
<1>6. HasFields(new) /\ new.partitions = 1
  BY TopicsAssumption DEF HasFields
<1>7. /\ DOMAIN topics' = DOMAIN topics \cup {name} /\ topics' = [n \in DOMAIN topics' |-> topics'[n]]
      /\ topics'[name] = new
      /\ \A n \in DOMAIN topics : topics'[n] = topics[n]
  BY <1>11 DEF Overriding
<1>8. /\ DOMAIN everAsked' = DOMAIN everAsked \cup {name}
      /\ \A n \in DOMAIN everAsked' : everAsked'[n] \in Nat
      /\ \A n \in DOMAIN everAsked : everAsked'[n] >= everAsked[n]
      /\ everAsked'[name] >= 1
  BY <1>4, <1>11, WantsGrows
<1> HIDE DEF new, name
<1>9. StepInv'
  BY <1>1, <1>4, <1>7 DEF StepInv, Target, RefusedOf
<1>10. AskedInv'
  <2>1. \A n \in DOMAIN topics' : HasFields(topics'[n])
    BY <1>4, <1>6, <1>7 DEF AskedInv
  <2>2. ASSUME NEW n \in DOMAIN topics' PROVE topics'[n].partitions <= everAsked'[n]
    <3>1. CASE n = name
      BY <1>6, <1>7, <1>8, <3>1
    <3>2. CASE n # name
      <4>1. /\ topics[n].partitions \in Nat /\ everAsked[n] \in Nat /\ n \in DOMAIN everAsked
            /\ topics[n].partitions <= everAsked[n] /\ topics'[n] = topics[n]
        BY <1>4, <1>7, <3>2 DEF AskedInv, PartitionsAsked, HasFields
      <4>2. everAsked'[n] >= everAsked[n] /\ everAsked'[n] \in Nat
        BY <1>8, <4>1
      <4>. QED  BY <4>1, <4>2
    <3>. QED  BY <3>1, <3>2
  <2>. QED  BY <1>4, <1>7, <1>8, <2>1, <2>2 DEF AskedInv, PartitionsAsked
<1>. QED  BY <1>2, <1>3, <1>9, <1>10 DEF TopicsInv

(* ShouldAlterConfiguration: overrides that are left alone are those that  *)
(* are asked for, and no other one when they are to be the same.           *)
LEMMA LeftAlone ==
  ASSUME NEW target, NEW source, IsFiniteSet(DOMAIN source), NEW strict \in BOOLEAN,
         ~ShouldAlterConfiguration(target, source, strict)
  PROVE  /\ DOMAIN target \subseteq DOMAIN source
         /\ \A k \in DOMAIN target : source[k] = target[k]
         /\ strict => DOMAIN source = DOMAIN target
<1>1. /\ DOMAIN target \subseteq DOMAIN source
      /\ \A k \in DOMAIN target : source[k] = target[k]
  BY DEF ShouldAlterConfiguration
<1>2. strict => Cardinality(DOMAIN target) = Cardinality(DOMAIN source)
  BY DEF ShouldAlterConfiguration
<1>. QED  BY <1>1, <1>2, FS_Subset

(* AlterTopic: what is not asked for and was described is removed.         *)
LEMMA Altered ==
  ASSUME NEW target, NEW source, IsFiniteSet(DOMAIN target), IsFiniteSet(DOMAIN source),
         NEW kept, kept \subseteq DOMAIN source,
         NEW result, result = Overriding(target, [k \in kept |-> source[k]])
  PROVE  /\ IsFiniteSet(DOMAIN result)
         /\ DOMAIN result = DOMAIN target \cup kept
         /\ \A k \in DOMAIN target : result[k] = target[k]
<1>1. DOMAIN result = DOMAIN target \cup kept /\ \A k \in DOMAIN target : result[k] = target[k]
  BY DEF Overriding
<1>2. IsFiniteSet(DOMAIN target \cup kept)
  BY FS_Subset, FS_Union
<1>. QED  BY <1>1, <1>2

LEMMA AlterTopicStep ==
  ASSUME TopicsInv, AlterTopic
  PROVE  TopicsInv'
<1> DEFINE name == Target.name
           old == topics[name]
           alters == ShouldAlterConfiguration(Target.entries, described, Target.strict)
           kept == DOMAIN old.overrides \ (DOMAIN described \ DOMAIN Target.entries)
           o == IF alters THEN Overriding(Target.entries, [k \in kept |-> old.overrides[k]])
                ELSE old.overrides
           new == [partitions |-> old.partitions, replicas |-> old.replicas, overrides |-> o]
<1>1. managing # <<>> /\ QueueInv /\ StepInv /\ DoneInv /\ AskedInv
  BY DEF TopicsInv, QueueInv, AlterTopic
<1>2. /\ topicStep = "alter" /\ (NextTopic \/ NoAnswer)
      /\ UNCHANGED <<topicConfig, foreign, since, everAsked, refused>>
      /\ name \in DOMAIN topics
      /\ old.partitions >= Target.partitions \/ RefusedOf(Target, {"partitions"})
      /\ foreign = since =>
           described = old.overrides \/ (described = <<>> /\ RefusedOf(Target, {"describe"}))
  BY <1>1 DEF AlterTopic, StepInv
<1>3. IsWanted(Target)
  BY <1>1, TargetOfQueue
<1>4. HasFields(old)
  BY <1>1, <1>2 DEF AskedInv
<1>5. topics' = [topics EXCEPT ![name] = new]
  <2>1. old = [partitions |-> old.partitions, replicas |-> old.replicas, overrides |-> old.overrides]
    BY <1>4 DEF HasFields
  <2>2. CASE alters
    <3>1. topics' = [topics EXCEPT ![name] = [old EXCEPT !.overrides = o]]
      BY <2>2 DEF AlterTopic
    <3>2. [old EXCEPT !.overrides = o] = new
      <4> HIDE DEF old, o
      <4>. QED  BY <2>1
    <3>. QED  BY <3>1, <3>2
  <2>3. CASE ~alters
    <3>1. topics' = topics
      BY <2>3 DEF AlterTopic
    <3>2. new = old
      BY <2>1, <2>3
    <3> HIDE DEF new, old
    <3>3. topics' = [topics EXCEPT ![name] = topics[name]]
      BY <3>1, <1>1 DEF AskedInv
    <3>. QED  BY <3>2, <3>3 DEF old
  <2>. QED  BY <2>2, <2>3
<1>6. /\ IsFiniteSet(DOMAIN o)
      /\ foreign = since =>
           /\ DOMAIN Target.entries \subseteq DOMAIN o
           /\ \A k \in DOMAIN Target.entries : o[k] = Target.entries[k]
           /\ Target.strict => DOMAIN o = DOMAIN Target.entries \/ RefusedOf(Target, {"describe"})
  <2>1. /\ IsFiniteSet(DOMAIN old.overrides) /\ IsFiniteSet(DOMAIN Target.entries)
        /\ Target.strict \in BOOLEAN
    BY <1>3, <1>4 DEF HasFields, IsWanted
  <2>2. CASE alters
    <3> DEFINE source == old.overrides
               target == Target.entries
    <3>1. o = Overriding(target, [k \in kept |-> source[k]])
      BY <2>2
    <3>2. IsFiniteSet(DOMAIN source) /\ IsFiniteSet(DOMAIN target) /\ kept \subseteq DOMAIN source
      BY <2>1
    <3>3. described = source => kept \subseteq DOMAIN target
      OBVIOUS
    <3>4. foreign = since => described = source \/ RefusedOf(Target, {"describe"})
      BY <1>2
    <3> HIDE DEF o, source, target, alters, kept
    <3>5. /\ IsFiniteSet(DOMAIN o) /\ DOMAIN o = DOMAIN target \cup kept
          /\ \A k \in DOMAIN target : o[k] = target[k]
      BY <3>1, <3>2, Altered
    <3>6. foreign = since => DOMAIN o = DOMAIN target \/ RefusedOf(Target, {"describe"})
      BY <3>3, <3>4, <3>5
    <3>. QED  BY <3>5, <3>6 DEF target
  <2>3. CASE ~alters
    <3>1. o = old.overrides
      BY <2>3
    <3>2. DOMAIN <<>> = {} /\ IsFiniteSet({})
      BY FS_EmptySet
    <3>3. /\ DOMAIN Target.entries \subseteq DOMAIN described
          /\ \A k \in DOMAIN Target.entries : described[k] = Target.entries[k]
      BY <2>3 DEF ShouldAlterConfiguration
    <3>4. CASE foreign = since /\ described = old.overrides
      <4> HIDE DEF o, old
      <4>. QED  BY <2>1, <2>3, <3>1, <3>4, LeftAlone
    <3>5. CASE foreign = since /\ described = <<>> /\ RefusedOf(Target, {"describe"})
      <4> HIDE DEF o, old
      <4>. QED  BY <2>1, <3>1, <3>2, <3>3, <3>5
    <3>6. CASE foreign # since
      <4> HIDE DEF o, old
      <4>. QED  BY <2>1, <3>1, <3>6
    <3>. QED  BY <1>2, <3>4, <3>5, <3>6
  <2>. QED  BY <2>2, <2>3
<1>7. HasFields(new) /\ new.partitions = old.partitions /\ new.overrides = o
  <2> HIDE DEF o
  <2>. QED  BY <1>4, <1>6 DEF HasFields
<1> HIDE DEF new, o
<1>8. /\ DOMAIN topics' = DOMAIN topics /\ topics' = [n \in DOMAIN topics' |-> topics'[n]]
      /\ topics'[name] = new
      /\ \A n \in DOMAIN topics : n # name => topics'[n] = topics[n]
  BY <1>2, <1>5
<1>9. QueueInv' /\ topicStep' \in {"list", "done", "failed"}
  BY <1>1, <1>2, QueueAdvances
<1>10. Managed' \ SetOf(managing)' \subseteq {Target} \cup (Managed \ SetOf(managing))
  BY <1>1, <1>2, QueueAdvances
<1>11. StepInv'
  BY <1>1, <1>2, <1>9 DEF StepInv
<1>12. AskedInv'
  <2>1. \A n \in DOMAIN topics' : HasFields(topics'[n]) /\ topics'[n].partitions = topics[n].partitions
    BY <1>1, <1>7, <1>8 DEF AskedInv
  <2>. QED  BY <1>1, <1>2, <1>8, <2>1 DEF AskedInv, PartitionsAsked
<1>13. DoneInv'
  <2>. SUFFICES ASSUME foreign = since, NEW t \in Managed' \ SetOf(managing)' PROVE Aligned(t)'
    BY <1>2 DEF DoneInv
  <2>1. CASE t = Target
    BY <1>2, <1>6, <1>7, <1>8, <2>1 DEF Aligned, RefusedOf
  <2>2. CASE t # Target
    <3>1. t \in Managed /\ Aligned(t)
      BY <1>1, <1>10, <2>2 DEF DoneInv
    <3>. QED  BY <1>1, <1>2, <1>8, <2>2, <3>1, OthersAligned
  <2>. QED  BY <2>1, <2>2
<1>. QED  BY <1>9, <1>11, <1>12, <1>13 DEF TopicsInv

LEMMA TopicsSteps == TopicsInv /\ [TopicsNext]_topicVars => TopicsInv'
<1> SUFFICES ASSUME TopicsInv, [TopicsNext]_topicVars PROVE TopicsInv'
  OBVIOUS
<1>1. CASE UNCHANGED topicVars
  <2>1. QueueInv' /\ AskedInv'
    BY <1>1 DEF topicVars, TopicsInv, QueueInv, AskedInv, PartitionsAsked, ToManage, HasFields
  <2>2. StepInv'
    BY <1>1 DEF topicVars, TopicsInv, StepInv, Target, RefusedOf
  <2>3. Managed' = Managed /\ SetOf(managing)' = SetOf(managing)
    BY <1>1 DEF topicVars, Managed, WantedTopics, SetOf, ToManage
  <2>4. \A t : Aligned(t)' <=> Aligned(t)
    BY <1>1 DEF topicVars, Aligned, RefusedOf
  <2>5. DoneInv'
    BY <1>1, <2>3, <2>4 DEF topicVars, TopicsInv, DoneInv
  <2>. QED  BY <2>1, <2>2, <2>5 DEF TopicsInv
<1>2. CASE TopicsNext
  BY <1>2, ListTopicsStep, CreateTopicStep, AlignPartitionsStep, DescribeTopicStep, AlterTopicStep,
     TopicRefusedStep, TopicRequestFailsStep, StartAgainStep, ForeignOverrideStep, ForeignTopicStep DEF TopicsNext
<1>. QED  BY <1>1, <1>2

(* manage: whatever requests fail, with or without having done their work, *)
(* and whatever configurations the orchestrator is started with again, a   *)
(* topic never has more partitions than it was asked to have, and once the *)
(* orchestrator has started the topics have what the configuration says,   *)
(* but for what a broker refused in its answers and for what other tools   *)
(* do at the same time.                                                    *)
THEOREM TopicsAreRight == TopicsSpec => []TopicsRight
<1>1. TopicsInv => TopicsRight
  <2> SUFFICES ASSUME TopicsInv PROVE TopicsRight
    OBVIOUS
  <2>1. topicStep = "done" => SetOf(managing) = {}
    BY SetOfShort DEF TopicsInv, QueueInv
  <2>2. TopicsAligned
    BY <2>1 DEF TopicsInv, DoneInv, TopicsAligned, Managed
  <2>. QED  BY <2>2 DEF TopicsInv, AskedInv, TopicsRight
<1>. QED  BY <1>1, TopicsStart, TopicsSteps, PTL DEF TopicsSpec

-----------------------------------------------------------------------------
(* The filters that users save                                             *)

Wanted(v) == Range(BuiltinFilters[v])
Versions == DOMAIN BuiltinFilters

AddingStates(v) ==
  [step : {"lookup", "insert"}, version : {v}, todo : Seq(Wanted(v)), alone : BOOLEAN]

RemovingStates == [step : {"remove", "up"}, version : Versions, todo : SUBSET Nat, alone : BOOLEAN]

IsState(s) == s = Down \/ (\E v \in Versions : s \in AddingStates(v)) \/ s \in RemovingStates

(* Identifiers are not used again, and a filter of the configuration is    *)
(* one of all the users.                                                   *)
RowsInv ==
  /\ nextId \in Nat
  /\ savedFilters = [i \in DOMAIN savedFilters |-> savedFilters[i]]
  /\ DOMAIN savedFilters \subseteq Nat
  /\ \A i \in DOMAIN savedFilters :
       i < nextId /\ (savedFilters[i].user = systemUser => savedFilters[i].shared)

ConsolesInv ==
  /\ consoles = [c \in Consoles |-> consoles[c]]
  /\ \A c \in Consoles :
       IsState(consoles[c]) /\ (consoles[c].step = "insert" => consoles[c].todo # <<>>)

Stale(i, v) == savedFilters[i].user = systemUser /\ savedFilters[i].filter \notin Wanted(v)

(* A console that starts alone has put the filters that are not left to    *)
(* do, and those that have to go are among those it removes.               *)
AloneOf(c) ==
  IsStarting(c) /\ consoles[c].alone =>
    /\ \A d \in Consoles \ {c} : ~IsStarting(d)
    /\ consoles[c].step # "remove" =>
         \A f \in Wanted(consoles[c].version) : Present(f) \/ f \in Range(consoles[c].todo)
    /\ consoles[c].step = "remove" =>
         /\ \A f \in Wanted(consoles[c].version) : Present(f)
         /\ \A i \in DOMAIN savedFilters : Stale(i, consoles[c].version) => i \in consoles[c].todo

(* What a console is about to remove is a filter of the configuration of   *)
(* another one, or gone.                                                   *)
RemovedOf(c) ==
  consoles[c].step = "remove" =>
    \A i \in consoles[c].todo :
      i < nextId /\ (i \in DOMAIN savedFilters => Stale(i, consoles[c].version))

AloneInv == \A c \in Consoles : AloneOf(c)
RemovedInv == \A c \in Consoles : RemovedOf(c)

FiltersInv == RowsInv /\ ConsolesInv /\ RemovedInv /\ AloneInv

LEMMA HeadOrTail ==
  ASSUME NEW S, NEW s \in Seq(S), s # <<>>
  PROVE  /\ Head(s) \in S /\ Tail(s) \in Seq(S)
         /\ Range(s) = {Head(s)} \cup Range(Tail(s))
<1>1. Head(s) \in S /\ Tail(s) \in Seq(S) /\ Len(s) > 0
  OBVIOUS
<1>2. /\ Len(Tail(s)) = Len(s) - 1 /\ Head(s) = s[1]
      /\ \A i \in 1..Len(s) - 1 : Tail(s)[i] = s[i + 1]
  OBVIOUS
<1>3. Len(s) \in Nat /\ DOMAIN s = 1..Len(s) /\ DOMAIN Tail(s) = 1..Len(s) - 1
  BY <1>1, <1>2
<1>4. ASSUME NEW x \in Range(s) PROVE x \in {Head(s)} \cup Range(Tail(s))
  <2>1. PICK i \in 1..Len(s) : x = s[i]
    BY <1>3 DEF Range
  <2>2. CASE i = 1
    BY <1>2, <2>1, <2>2
  <2>3. CASE i # 1
    <3>1. i - 1 \in 1..Len(s) - 1 /\ (i - 1) + 1 = i
      BY <1>3, <2>3
    <3>2. Tail(s)[i - 1] = x
      BY <1>2, <2>1, <3>1
    <3>. QED  BY <1>3, <3>1, <3>2 DEF Range
  <2>. QED  BY <2>2, <2>3
<1>5. Head(s) \in Range(s)
  BY <1>1, <1>2, <1>3 DEF Range
<1>6. ASSUME NEW x \in Range(Tail(s)) PROVE x \in Range(s)
  <2>1. PICK i \in 1..Len(s) - 1 : x = Tail(s)[i]
    BY <1>3 DEF Range
  <2>2. i + 1 \in 1..Len(s) /\ x = s[i + 1]
    BY <1>2, <1>3, <2>1
  <2>. QED  BY <1>3, <2>2 DEF Range
<1>. QED  BY <1>1, <1>4, <1>5, <1>6

(* What the state of a console has, by its step.                           *)
LEMMA StateOf ==
  ASSUME ConsolesInv, NEW c \in Consoles
  PROVE  /\ consoles[c].step \in {"down", "lookup", "insert", "remove", "up"}
         /\ consoles[c].step = "down" => consoles[c] = Down
         /\ consoles[c].step \in {"lookup", "insert"} =>
              /\ consoles[c].version \in Versions /\ consoles[c].alone \in BOOLEAN
              /\ consoles[c].todo \in Seq(Wanted(consoles[c].version))
         /\ consoles[c].step \in {"remove", "up"} =>
              /\ consoles[c].version \in Versions /\ consoles[c].alone \in BOOLEAN
              /\ consoles[c].todo \in SUBSET Nat
         /\ consoles[c].step # "down" =>
              consoles[c] = [step |-> consoles[c].step, version |-> consoles[c].version,
                             todo |-> consoles[c].todo, alone |-> consoles[c].alone]
<1> DEFINE s == consoles[c]
<1>1. IsState(s)
  BY DEF ConsolesInv
<1>2. CASE s = Down
  BY <1>2 DEF Down
<1>3. CASE \E v \in Versions : s \in AddingStates(v)
  <2> HIDE DEF s
  <2>1. /\ s.step \in {"lookup", "insert"} /\ s.version \in Versions /\ s.alone \in BOOLEAN
        /\ s.todo \in Seq(Wanted(s.version))
        /\ s = [step |-> s.step, version |-> s.version, todo |-> s.todo, alone |-> s.alone]
    BY <1>3 DEF AddingStates
  <2>. QED  BY <2>1 DEF s
<1>4. CASE s \in RemovingStates
  <2> HIDE DEF s
  <2>1. /\ s.step \in {"remove", "up"} /\ s.version \in Versions /\ s.alone \in BOOLEAN
        /\ s.todo \in SUBSET Nat
        /\ s = [step |-> s.step, version |-> s.version, todo |-> s.todo, alone |-> s.alone]
    BY <1>4 DEF RemovingStates
  <2>. QED  BY <2>1 DEF s
<1>. QED  BY <1>1, <1>2, <1>3, <1>4 DEF IsState

LEMMA IsAState ==
  ASSUME NEW v \in Versions, NEW alone \in BOOLEAN
  PROVE  /\ \A todo \in Seq(Wanted(v)), step \in {"lookup", "insert"} :
              IsState([step |-> step, version |-> v, todo |-> todo, alone |-> alone])
         /\ \A todo \in SUBSET Nat, step \in {"remove", "up"} :
              IsState([step |-> step, version |-> v, todo |-> todo, alone |-> alone])
<1>1. ASSUME NEW todo \in Seq(Wanted(v)), NEW step \in {"lookup", "insert"}
      PROVE  [step |-> step, version |-> v, todo |-> todo, alone |-> alone] \in AddingStates(v)
  BY DEF AddingStates
<1>2. ASSUME NEW todo \in SUBSET Nat, NEW step \in {"remove", "up"}
      PROVE  [step |-> step, version |-> v, todo |-> todo, alone |-> alone] \in RemovingStates
  BY DEF RemovingStates
<1>. QED  BY <1>1, <1>2 DEF IsState

LEMMA NextState ==
  ASSUME NEW s, NEW step, NEW todo,
         s = [step |-> s.step, version |-> s.version, todo |-> s.todo, alone |-> s.alone]
  PROVE  [s EXCEPT !.step = step, !.todo = todo]
           = [step |-> step, version |-> s.version, todo |-> todo, alone |-> s.alone]
<1> DEFINE r == [s EXCEPT !.step = step]
<1>1. r = [step |-> step, version |-> s.version, todo |-> s.todo, alone |-> s.alone]
  OBVIOUS
<1>2. [s EXCEPT !.step = step, !.todo = todo] = [r EXCEPT !.todo = todo]
  OBVIOUS
<1> HIDE DEF r
<1>3. [r EXCEPT !.todo = todo] = [step |-> step, version |-> s.version, todo |-> todo, alone |-> s.alone]
  BY <1>1
<1>. QED  BY <1>2, <1>3

(* A step of one console leaves the state of the others.                   *)
LEMMA OneConsole ==
  ASSUME ConsolesInv, NEW c \in Consoles, NEW new, consoles' = [consoles EXCEPT ![c] = new],
         IsState(new), new.step = "insert" => new.todo # <<>>
  PROVE  /\ ConsolesInv' /\ consoles'[c] = new
         /\ \A d \in Consoles : d # c => consoles'[d] = consoles[d]
<1>1. /\ consoles'[c] = new /\ consoles' = [d \in Consoles |-> consoles'[d]]
      /\ \A d \in Consoles : d # c => consoles'[d] = consoles[d]
  BY DEF ConsolesInv
<1>. QED  BY <1>1 DEF ConsolesInv

(* The row that is added has a new identifier.                             *)
LEMMA Inserted ==
  ASSUME RowsInv, NEW row, Insert(row), row.user = systemUser => row.shared
  PROVE  /\ RowsInv' /\ nextId' = nextId + 1 /\ nextId \notin DOMAIN savedFilters
         /\ DOMAIN savedFilters' = DOMAIN savedFilters \cup {nextId}
         /\ savedFilters'[nextId] = row
         /\ \A i \in DOMAIN savedFilters : savedFilters'[i] = savedFilters[i]
<1>1. nextId \in Nat /\ nextId \notin DOMAIN savedFilters
  BY DEF RowsInv
<1>2. /\ nextId' = nextId + 1
      /\ DOMAIN savedFilters' = DOMAIN savedFilters \cup {nextId}
      /\ savedFilters' = [i \in DOMAIN savedFilters' |-> savedFilters'[i]]
      /\ savedFilters'[nextId] = row
      /\ \A i \in DOMAIN savedFilters : savedFilters'[i] = savedFilters[i]
  BY <1>1 DEF Insert
<1>3. RowsInv'
  BY <1>1, <1>2 DEF RowsInv
<1>. QED  BY <1>1, <1>2, <1>3

LEMMA Deleted ==
  ASSUME RowsInv, NEW i, Delete({i})
  PROVE  /\ RowsInv' /\ nextId' = nextId
         /\ DOMAIN savedFilters' = DOMAIN savedFilters \ {i}
         /\ \A j \in DOMAIN savedFilters' : savedFilters'[j] = savedFilters[j]
<1>1. /\ nextId' = nextId
      /\ DOMAIN savedFilters' = DOMAIN savedFilters \ {i}
      /\ savedFilters' = [j \in DOMAIN savedFilters' |-> savedFilters'[j]]
      /\ \A j \in DOMAIN savedFilters' : savedFilters'[j] = savedFilters[j]
  BY DEF Delete, Restrict
<1>2. RowsInv'
  BY <1>1 DEF RowsInv
<1>. QED  BY <1>1, <1>2

(* What a console is about to remove stays what it is when rows are added  *)
(* or deleted.                                                             *)
LEMMA RemovedKept ==
  ASSUME RowsInv, NEW d \in Consoles, consoles'[d] = consoles[d], RemovedOf(d), ConsolesInv,
         nextId' \in Nat, nextId' >= nextId,
         \A j \in DOMAIN savedFilters' \cap DOMAIN savedFilters : savedFilters'[j] = savedFilters[j],
         DOMAIN savedFilters' \subseteq DOMAIN savedFilters \cup {nextId}
  PROVE  RemovedOf(d)'
<1> SUFFICES ASSUME consoles[d].step = "remove", NEW i \in consoles[d].todo
             PROVE  i < nextId' /\ (i \in DOMAIN savedFilters' => Stale(i, consoles[d].version)')
  BY DEF RemovedOf
<1>1. i < nextId /\ (i \in DOMAIN savedFilters => Stale(i, consoles[d].version))
  BY DEF RemovedOf
<1>2. i \in Nat /\ nextId \in Nat
  BY StateOf DEF RowsInv
<1>3. i < nextId' /\ i # nextId
  BY <1>1, <1>2
<1>4. ASSUME i \in DOMAIN savedFilters' PROVE Stale(i, consoles[d].version)'
  <2>1. i \in DOMAIN savedFilters /\ savedFilters'[i] = savedFilters[i]
    BY <1>3, <1>4
  <2>. QED  BY <1>1, <2>1 DEF Stale
<1>. QED  BY <1>3, <1>4

(* A console that started while another one is starting is not alone.      *)
LEMMA OthersNotAlone ==
  ASSUME AloneInv, NEW c \in Consoles, IsStarting(c), NEW d \in Consoles, d # c,
         consoles'[d] = consoles[d]
  PROVE  AloneOf(d)'
<1>1. ~(IsStarting(d) /\ consoles[d].alone)
  BY DEF AloneInv, AloneOf
<1>. QED  BY <1>1 DEF AloneOf, IsStarting

LEMMA StartConsoleStep ==
  ASSUME FiltersInv, NEW c \in Consoles, StartConsole(c)
  PROVE  FiltersInv'
<1>1. RowsInv /\ ConsolesInv /\ RemovedInv /\ AloneInv
  BY DEF FiltersInv
<1>2. PICK v \in Versions :
        consoles' = [d \in Consoles |->
          IF d = c
          THEN [step |-> "lookup", version |-> v, todo |-> BuiltinFilters[v],
                alone |-> \A e \in Consoles \ {c} : ~IsStarting(e)]
          ELSE IF IsStarting(d) THEN [consoles[d] EXCEPT !.alone = FALSE] ELSE consoles[d]]
  BY Zenon DEF StartConsole, Versions
<1>3. consoles[c].step = "down" /\ UNCHANGED <<savedFilters, nextId>>
  BY DEF StartConsole
<1> DEFINE alone == \A e \in Consoles \ {c} : ~IsStarting(e)
           new == [step |-> "lookup", version |-> v, todo |-> BuiltinFilters[v], alone |-> alone]
<1>4. consoles'[c] = new
  BY <1>2
<1>5. ASSUME NEW d \in Consoles, d # c
      PROVE  /\ IsState(consoles'[d])
             /\ consoles'[d].step = consoles[d].step
             /\ consoles[d].step # "down" =>
                  consoles'[d].todo = consoles[d].todo /\ consoles'[d].version = consoles[d].version
             /\ ~(IsStarting(d)' /\ consoles'[d].alone)
  <2>1. CASE IsStarting(d)
    <3> DEFINE s == consoles[d]
    <3>1. consoles'[d] = [s EXCEPT !.alone = FALSE]
      BY <1>2, <1>5, <2>1
    <3>2. /\ s = [step |-> s.step, version |-> s.version, todo |-> s.todo, alone |-> s.alone]
          /\ s.step \in {"lookup", "insert", "remove"} /\ s.version \in Versions
          /\ s.step \in {"lookup", "insert"} => s.todo \in Seq(Wanted(s.version))
          /\ s.step = "remove" => s.todo \in SUBSET Nat
      BY <1>1, <2>1, StateOf DEF IsStarting
    <3> HIDE DEF s
    <3>3. consoles'[d] = [step |-> s.step, version |-> s.version, todo |-> s.todo, alone |-> FALSE]
      BY <3>1, <3>2
    <3>4. IsState(consoles'[d])
      BY <3>2, <3>3, IsAState
    <3>. QED  BY <3>3, <3>4 DEF s
  <2>2. CASE ~IsStarting(d)
    <3>1. consoles'[d] = consoles[d]
      BY <1>2, <1>5, <2>2
    <3>. QED  BY <1>1, <2>2, <3>1 DEF ConsolesInv, IsStarting
  <2>. QED  BY <2>1, <2>2
<1>6. IsState(new)
  <2>1. BuiltinFilters[v] \in Seq(Wanted(v))
    BY FiltersAssumption DEF Wanted, Versions
  <2>2. alone \in BOOLEAN
    OBVIOUS
  <2> HIDE DEF alone
  <2>. QED  BY <2>1, <2>2, IsAState
<1>7. RowsInv'
  BY <1>1, <1>3 DEF RowsInv
<1>8. ConsolesInv'
  <2>1. consoles' = [d \in Consoles |-> consoles'[d]]
    BY <1>2
  <2>2. ASSUME NEW d \in Consoles
        PROVE  IsState(consoles'[d]) /\ (consoles'[d].step = "insert" => consoles'[d].todo # <<>>)
    <3>1. CASE d = c
      BY <1>4, <1>6, <3>1
    <3>2. CASE d # c
      BY <1>1, <1>5, <3>2 DEF ConsolesInv
    <3>. QED  BY <3>1, <3>2
  <2>. QED  BY <2>1, <2>2 DEF ConsolesInv
<1>9. RemovedInv'
  <2> SUFFICES ASSUME NEW d \in Consoles PROVE RemovedOf(d)'
    BY DEF RemovedInv
  <2>1. CASE d = c
    BY <1>4, <2>1 DEF RemovedOf
  <2>2. CASE d # c
    BY <1>1, <1>3, <1>5, <2>2 DEF RemovedInv, RemovedOf, Stale
  <2>. QED  BY <2>1, <2>2
<1>10. AloneInv'
  <2> SUFFICES ASSUME NEW d \in Consoles PROVE AloneOf(d)'
    BY DEF AloneInv
  <2>1. CASE d = c
    <3>1. alone => \A e \in Consoles \ {c} : ~IsStarting(e)'
      BY <1>5 DEF IsStarting
    <3>2. consoles'[c].version = v /\ consoles'[c].todo = BuiltinFilters[v]
          /\ consoles'[c].step = "lookup" /\ (consoles'[c].alone <=> alone)
      BY <1>4
    <3> HIDE DEF alone
    <3>. QED  BY <2>1, <3>1, <3>2 DEF AloneOf, Wanted
  <2>2. CASE d # c
    BY <1>5, <2>2 DEF AloneOf
  <2>. QED  BY <2>1, <2>2
<1>. QED  BY <1>7, <1>8, <1>9, <1>10 DEF FiltersInv

(* A step of a console that leaves the rows alone.                         *)
LEMMA RowsAlone ==
  ASSUME FiltersInv, NEW c \in Consoles, NEW new, consoles' = [consoles EXCEPT ![c] = new],
         IsState(new), new.step = "insert" => new.todo # <<>>, UNCHANGED <<savedFilters, nextId>>,
         RemovedOf(c)', AloneOf(c)',
         new.step \in {"down", "up"} \/ IsStarting(c)
  PROVE  FiltersInv'
<1>1. RowsInv /\ ConsolesInv /\ RemovedInv /\ AloneInv
  BY DEF FiltersInv
<1>2. /\ ConsolesInv' /\ consoles'[c] = new
      /\ \A d \in Consoles : d # c => consoles'[d] = consoles[d]
  BY <1>1, OneConsole
<1>3. RowsInv'
  BY <1>1 DEF RowsInv
<1>4. ASSUME NEW d \in Consoles PROVE RemovedOf(d)'
  <2>1. CASE d # c
    BY <1>1, <1>2, <2>1 DEF RemovedInv, RemovedOf, Stale
  <2>. QED  BY <2>1
<1>5. ASSUME NEW d \in Consoles, d # c PROVE AloneOf(d)'
  <2>1. CASE IsStarting(c)
    BY <1>1, <1>2, <1>5, <2>1, OthersNotAlone
  <2>2. CASE new.step \in {"down", "up"}
    <3>1. \A e \in Consoles : IsStarting(e)' => IsStarting(e)
      BY <1>2, <2>2 DEF IsStarting
    <3>2. AloneOf(d) /\ consoles'[d] = consoles[d]
      BY <1>1, <1>2, <1>5 DEF AloneInv
    <3>. QED  BY <3>1, <3>2 DEF AloneOf, Present, SameFilter, Stale, IsStarting
  <2>. QED  BY <2>1, <2>2
<1>6. RemovedInv' /\ AloneInv'
  BY <1>4, <1>5 DEF RemovedInv, AloneInv
<1>. QED  BY <1>2, <1>3, <1>6 DEF FiltersInv

LEMMA StopConsoleStep ==
  ASSUME FiltersInv, NEW c \in Consoles, StopConsole(c)
  PROVE  FiltersInv'
<1>1. consoles' = [consoles EXCEPT ![c] = Down] /\ UNCHANGED <<savedFilters, nextId>>
  BY DEF StopConsole
<1>2. IsState(Down) /\ Down.step = "down"
  BY DEF IsState, Down
<1>3. consoles'[c] = Down
  BY <1>1 DEF FiltersInv, ConsolesInv
<1>4. RemovedOf(c)' /\ AloneOf(c)'
  BY <1>2, <1>3 DEF RemovedOf, AloneOf, IsStarting
<1>. QED  BY <1>1, <1>2, <1>4, RowsAlone

(* A filter that is looked for is there, or is added by the next step.     *)
LEMMA LookupBuiltinStep ==
  ASSUME FiltersInv, NEW c \in Consoles, LookupBuiltin(c)
  PROVE  FiltersInv'
<1> DEFINE s == consoles[c]
           there == Present(Head(s.todo))
           new == [step |-> IF there THEN "lookup" ELSE "insert", version |-> s.version,
                   todo |-> IF there THEN Tail(s.todo) ELSE s.todo, alone |-> s.alone]
<1>1. RowsInv /\ ConsolesInv /\ RemovedInv /\ AloneInv
  BY DEF FiltersInv
<1>2. s.step = "lookup" /\ s.todo # <<>> /\ UNCHANGED <<savedFilters, nextId>>
  BY DEF LookupBuiltin
<1>3. /\ s = [step |-> s.step, version |-> s.version, todo |-> s.todo, alone |-> s.alone]
      /\ s.version \in Versions /\ s.todo \in Seq(Wanted(s.version)) /\ s.alone \in BOOLEAN
  BY <1>1, <1>2, StateOf
<1>4. consoles' = [consoles EXCEPT ![c] = new]
  <2>1. consoles' = [consoles EXCEPT ![c] = [s EXCEPT !.step = IF there THEN "lookup" ELSE "insert",
                                                      !.todo = IF there THEN Tail(s.todo) ELSE s.todo]]
    BY DEF LookupBuiltin
  <2>2. [s EXCEPT !.step = IF there THEN "lookup" ELSE "insert",
                  !.todo = IF there THEN Tail(s.todo) ELSE s.todo] = new
    <3> DEFINE t == s
               step == IF there THEN "lookup" ELSE "insert"
               todo == IF there THEN Tail(s.todo) ELSE s.todo
    <3>1. t = [step |-> t.step, version |-> t.version, todo |-> t.todo, alone |-> t.alone]
      BY <1>3
    <3> HIDE DEF t, step, todo
    <3>2. [t EXCEPT !.step = step, !.todo = todo]
            = [step |-> step, version |-> t.version, todo |-> todo, alone |-> t.alone]
      BY <3>1, NextState
    <3>. QED  BY <3>2 DEF t, step, todo
  <2>. QED  BY <2>1, <2>2
<1>5. /\ Tail(s.todo) \in Seq(Wanted(s.version))
      /\ Range(s.todo) = {Head(s.todo)} \cup Range(Tail(s.todo))
  BY <1>2, <1>3, HeadOrTail
<1>6. IsState(new) /\ (new.step = "insert" => new.todo # <<>>) /\ new.step # "remove"
  BY <1>2, <1>3, <1>5, IsAState
<1>7. consoles'[c] = new
  BY <1>1, <1>4 DEF ConsolesInv
<1>8. IsStarting(c)
  BY <1>2 DEF IsStarting
<1>9. RemovedOf(c)'
  BY <1>6, <1>7 DEF RemovedOf
<1>10. AloneOf(c)'
  <2> SUFFICES ASSUME consoles'[c].alone PROVE
        /\ \A d \in Consoles \ {c} : ~IsStarting(d)'
        /\ \A f \in Wanted(new.version) : Present(f)' \/ f \in Range(new.todo)
    BY <1>6, <1>7 DEF AloneOf
  <2>1. s.alone /\ new.version = s.version
    BY <1>7
  <2>2. /\ \A d \in Consoles \ {c} : ~IsStarting(d)
        /\ \A f \in Wanted(s.version) : Present(f) \/ f \in Range(s.todo)
    BY <1>1, <1>2, <1>8, <2>1 DEF AloneInv, AloneOf
  <2>3. \A d \in Consoles \ {c} : ~IsStarting(d)'
    BY <1>1, <1>4, <2>2 DEF ConsolesInv, IsStarting
  <2>4. \A f : Present(f)' <=> Present(f)
    BY <1>2 DEF Present, SameFilter
  <2>5. \A f \in Wanted(s.version) : Present(f) \/ f \in Range(new.todo)
    <3>1. CASE there
      BY <2>2, <1>5, <3>1
    <3>2. CASE ~there
      BY <2>2, <3>2
    <3>. QED  BY <3>1, <3>2
  <2>. QED  BY <2>1, <2>3, <2>4, <2>5
<1>. QED  BY <1>2, <1>4, <1>6, <1>8, <1>9, <1>10, RowsAlone

(* A step of a console that starts and that changes a row.                 *)
LEMMA StarterStep ==
  ASSUME FiltersInv, NEW c \in Consoles, NEW new, consoles' = [consoles EXCEPT ![c] = new],
         IsState(new), new.step = "insert" => new.todo # <<>>, IsStarting(c), RowsInv',
         nextId' >= nextId,
         \A j \in DOMAIN savedFilters' \cap DOMAIN savedFilters : savedFilters'[j] = savedFilters[j],
         DOMAIN savedFilters' \subseteq DOMAIN savedFilters \cup {nextId},
         RemovedOf(c)', AloneOf(c)'
  PROVE  FiltersInv'
<1>1. RowsInv /\ ConsolesInv /\ RemovedInv /\ AloneInv
  BY DEF FiltersInv
<1>2. /\ ConsolesInv' /\ consoles'[c] = new
      /\ \A d \in Consoles : d # c => consoles'[d] = consoles[d]
  BY <1>1, OneConsole
<1>3. nextId' \in Nat
  BY DEF RowsInv
<1>4. ASSUME NEW d \in Consoles, d # c PROVE RemovedOf(d)' /\ AloneOf(d)'
  <2>1. consoles'[d] = consoles[d] /\ RemovedOf(d)
    BY <1>1, <1>2, <1>4 DEF RemovedInv
  <2>2. RemovedOf(d)'
    BY <1>1, <1>3, <2>1, RemovedKept
  <2>3. AloneOf(d)'
    BY <1>1, <1>4, <2>1, OthersNotAlone
  <2>. QED  BY <2>2, <2>3
<1>5. RemovedInv' /\ AloneInv'
  BY <1>4 DEF RemovedInv, AloneInv
<1>. QED  BY <1>2, <1>5 DEF FiltersInv

LEMMA InsertBuiltinStep ==
  ASSUME FiltersInv, NEW c \in Consoles, InsertBuiltin(c)
  PROVE  FiltersInv'
<1> DEFINE s == consoles[c]
           row == [user |-> systemUser, shared |-> TRUE, filter |-> Head(s.todo)]
           new == [step |-> "lookup", version |-> s.version, todo |-> Tail(s.todo), alone |-> s.alone]
<1>1. RowsInv /\ ConsolesInv /\ RemovedInv /\ AloneInv
  BY DEF FiltersInv
<1>2. s.step = "insert" /\ Insert(row) /\ IsStarting(c)
  BY DEF InsertBuiltin, IsStarting
<1>3. /\ s = [step |-> s.step, version |-> s.version, todo |-> s.todo, alone |-> s.alone]
      /\ s.version \in Versions /\ s.todo \in Seq(Wanted(s.version)) /\ s.alone \in BOOLEAN
      /\ s.todo # <<>>
  BY <1>1, <1>2, StateOf DEF ConsolesInv
<1>4. consoles' = [consoles EXCEPT ![c] = new]
  <2>1. consoles' = [consoles EXCEPT ![c] = [s EXCEPT !.step = "lookup", !.todo = Tail(s.todo)]]
    BY DEF InsertBuiltin
  <2>2. [s EXCEPT !.step = "lookup", !.todo = Tail(s.todo)] = new
    <3> DEFINE t == s
               todo == Tail(s.todo)
    <3>1. t = [step |-> t.step, version |-> t.version, todo |-> t.todo, alone |-> t.alone]
      BY <1>3
    <3> HIDE DEF t, todo
    <3>2. [t EXCEPT !.step = "lookup", !.todo = todo]
            = [step |-> "lookup", version |-> t.version, todo |-> todo, alone |-> t.alone]
      BY <3>1, NextState
    <3>. QED  BY <3>2 DEF t, todo
  <2>. QED  BY <2>1, <2>2
<1>5. /\ Tail(s.todo) \in Seq(Wanted(s.version))
      /\ Range(s.todo) = {Head(s.todo)} \cup Range(Tail(s.todo))
  BY <1>3, HeadOrTail
<1>6. IsState(new) /\ new.step = "lookup"
  BY <1>3, <1>5, IsAState
<1>7. consoles'[c] = new
  BY <1>1, <1>4 DEF ConsolesInv
<1>8. /\ RowsInv' /\ nextId' = nextId + 1
      /\ DOMAIN savedFilters' = DOMAIN savedFilters \cup {nextId}
      /\ savedFilters'[nextId] = row
      /\ \A i \in DOMAIN savedFilters : savedFilters'[i] = savedFilters[i]
  BY <1>1, <1>2, Inserted
<1>9. RemovedOf(c)'
  BY <1>6, <1>7 DEF RemovedOf
<1>10. AloneOf(c)'
  <2> SUFFICES ASSUME s.alone PROVE
        /\ \A d \in Consoles \ {c} : ~IsStarting(d)'
        /\ \A f \in Wanted(s.version) : Present(f)' \/ f \in Range(Tail(s.todo))
    BY <1>6, <1>7 DEF AloneOf
  <2>1. /\ \A d \in Consoles \ {c} : ~IsStarting(d)
        /\ \A f \in Wanted(s.version) : Present(f) \/ f \in Range(s.todo)
    BY <1>1, <1>2 DEF AloneInv, AloneOf
  <2>2. \A d \in Consoles \ {c} : ~IsStarting(d)'
    BY <1>1, <1>4, <2>1 DEF ConsolesInv, IsStarting
  <2>3. \A f : Present(f) => Present(f)'
    BY <1>8 DEF Present, SameFilter
  <2>4. \A f : f = Head(s.todo) => Present(f)'
    BY <1>8 DEF Present, SameFilter
  <2>. QED  BY <1>5, <2>1, <2>2, <2>3, <2>4
<1>11. nextId' >= nextId
  BY <1>1, <1>8 DEF RowsInv
<1>. QED  BY <1>2, <1>4, <1>6, <1>8, <1>9, <1>10, <1>11, StarterStep

LEMMA ListBuiltinStep ==
  ASSUME FiltersInv, NEW c \in Consoles, ListBuiltin(c)
  PROVE  FiltersInv'
<1> DEFINE s == consoles[c]
           gone == Outdated(s.version)
           new == [step |-> "remove", version |-> s.version, todo |-> gone, alone |-> s.alone]
<1>1. RowsInv /\ ConsolesInv /\ RemovedInv /\ AloneInv
  BY DEF FiltersInv
<1>2. s.step = "lookup" /\ s.todo = <<>> /\ IsStarting(c) /\ UNCHANGED <<savedFilters, nextId>>
  BY DEF ListBuiltin, IsStarting
<1>3. /\ s = [step |-> s.step, version |-> s.version, todo |-> s.todo, alone |-> s.alone]
      /\ s.version \in Versions /\ s.alone \in BOOLEAN
  BY <1>1, <1>2, StateOf
<1>4. consoles' = [consoles EXCEPT ![c] = new]
  <2>1. consoles' = [consoles EXCEPT ![c] = [s EXCEPT !.step = "remove", !.todo = gone]]
    BY DEF ListBuiltin
  <2>2. [s EXCEPT !.step = "remove", !.todo = gone] = new
    <3> DEFINE t == s
    <3>1. t = [step |-> t.step, version |-> t.version, todo |-> t.todo, alone |-> t.alone]
      BY <1>3
    <3> HIDE DEF t, gone
    <3>2. [t EXCEPT !.step = "remove", !.todo = gone]
            = [step |-> "remove", version |-> t.version, todo |-> gone, alone |-> t.alone]
      BY <3>1, NextState
    <3>. QED  BY <3>2 DEF t
  <2>. QED  BY <2>1, <2>2
<1>5. \A i : i \in gone <=> i \in DOMAIN savedFilters /\ Stale(i, s.version)
  BY <1>1 DEF RowsInv, Outdated, Stale, Wanted
<1>6. IsState(new) /\ new.step = "remove"
  <2>1. gone \in SUBSET Nat
    BY <1>1, <1>5 DEF RowsInv
  <2> HIDE DEF gone
  <2>. QED  BY <1>3, <2>1, IsAState
<1>7. consoles'[c] = new
  BY <1>1, <1>4 DEF ConsolesInv
<1> HIDE DEF gone
<1>8. RemovedOf(c)'
  <2> SUFFICES ASSUME NEW i \in gone, NEW v, v = s.version
               PROVE  i < nextId' /\ (i \in DOMAIN savedFilters' => Stale(i, v)')
    BY <1>7 DEF RemovedOf
  <2>. QED  BY <1>1, <1>2, <1>5 DEF RowsInv, Stale
<1>9. AloneOf(c)'
  <2> SUFFICES ASSUME s.alone PROVE
        /\ \A d \in Consoles \ {c} : ~IsStarting(d)'
        /\ \A f \in Wanted(s.version) : Present(f)'
        /\ \A v : v = s.version => \A i \in DOMAIN savedFilters' : Stale(i, v)' => i \in gone
    BY <1>6, <1>7 DEF AloneOf
  <2>1. /\ \A d \in Consoles \ {c} : ~IsStarting(d)
        /\ \A f \in Wanted(s.version) : Present(f) \/ f \in Range(<<>>)
    BY <1>1, <1>2 DEF AloneInv, AloneOf
  <2>2. \A d \in Consoles \ {c} : ~IsStarting(d)'
    BY <1>1, <1>4, <2>1 DEF ConsolesInv, IsStarting
  <2>3. Range(<<>>) = {}
    BY DEF Range
  <2>4. \A f : Present(f)' <=> Present(f)
    BY <1>2 DEF Present, SameFilter
  <2>5. \A i, v : Stale(i, v)' <=> Stale(i, v)
    BY <1>2 DEF Stale
  <2>. QED  BY <1>2, <1>5, <2>1, <2>2, <2>3, <2>4, <2>5
<1>. QED  BY <1>2, <1>4, <1>6, <1>8, <1>9, RowsAlone

(* What is removed is not a filter that the console has to leave.          *)
LEMMA RemoveOutdatedStep ==
  ASSUME FiltersInv, NEW c \in Consoles, RemoveOutdated(c)
  PROVE  FiltersInv'
<1> DEFINE s == consoles[c]
<1>1. RowsInv /\ ConsolesInv /\ RemovedInv /\ AloneInv
  BY DEF FiltersInv
<1>2. s.step = "remove" /\ IsStarting(c)
  BY DEF RemoveOutdated, IsStarting
<1>3. PICK i \in s.todo : Delete({i}) /\ consoles' = [consoles EXCEPT ![c].todo = @ \ {i}]
  BY DEF RemoveOutdated
<1> DEFINE new == [step |-> "remove", version |-> s.version, todo |-> s.todo \ {i}, alone |-> s.alone]
<1>4. /\ s = [step |-> s.step, version |-> s.version, todo |-> s.todo, alone |-> s.alone]
      /\ s.version \in Versions /\ s.alone \in BOOLEAN /\ s.todo \in SUBSET Nat
  BY <1>1, <1>2, StateOf
<1>5. consoles' = [consoles EXCEPT ![c] = new]
  <2> DEFINE t == s
             todo == s.todo \ {i}
  <2>1. consoles' = [consoles EXCEPT ![c] = [t EXCEPT !.todo = todo]]
    BY <1>3
  <2>2. t = [step |-> "remove", version |-> t.version, todo |-> t.todo, alone |-> t.alone]
    BY <1>2, <1>4
  <2> HIDE DEF t, todo
  <2>3. [t EXCEPT !.todo = todo] = [step |-> "remove", version |-> t.version, todo |-> todo, alone |-> t.alone]
    BY <2>2
  <2>. QED  BY <2>1, <2>3 DEF t, todo
<1>6. IsState(new) /\ new.step = "remove"
  BY <1>4, IsAState
<1>7. consoles'[c] = new
  BY <1>1, <1>5 DEF ConsolesInv
<1>8. /\ RowsInv' /\ nextId' = nextId
      /\ DOMAIN savedFilters' = DOMAIN savedFilters \ {i}
      /\ \A j \in DOMAIN savedFilters' : savedFilters'[j] = savedFilters[j]
  BY <1>1, <1>3, Deleted
<1>9. \A j \in s.todo : j < nextId /\ (j \in DOMAIN savedFilters => Stale(j, s.version))
  BY <1>1, <1>2 DEF RemovedInv, RemovedOf
<1>10. RemovedOf(c)'
  <2> SUFFICES ASSUME NEW j \in s.todo, NEW v, v = s.version
               PROVE  j < nextId' /\ (j \in DOMAIN savedFilters' => Stale(j, v)')
    BY <1>7 DEF RemovedOf
  <2>. QED  BY <1>8, <1>9 DEF Stale
<1>11. AloneOf(c)'
  <2> SUFFICES ASSUME s.alone PROVE
        /\ \A d \in Consoles \ {c} : ~IsStarting(d)'
        /\ \A f \in Wanted(s.version) : Present(f)'
        /\ \A v : v = s.version => \A j \in DOMAIN savedFilters' : Stale(j, v)' => j \in s.todo \ {i}
    BY <1>6, <1>7 DEF AloneOf
  <2>1. /\ \A d \in Consoles \ {c} : ~IsStarting(d)
        /\ \A f \in Wanted(s.version) : Present(f)
        /\ \A j \in DOMAIN savedFilters : Stale(j, s.version) => j \in s.todo
    BY <1>1, <1>2 DEF AloneInv, AloneOf
  <2>2. \A d \in Consoles \ {c} : ~IsStarting(d)'
    BY <1>1, <1>5, <2>1 DEF ConsolesInv, IsStarting
  <2>3. ASSUME NEW f \in Wanted(s.version) PROVE Present(f)'
    <3>1. PICK j \in DOMAIN savedFilters : SameFilter(savedFilters[j], f)
      BY <2>1 DEF Present
    <3>2. j # i
      BY <1>9, <3>1 DEF Stale, SameFilter
    <3>. QED  BY <1>8, <3>1, <3>2 DEF Present
  <2>4. \A v : \A j \in DOMAIN savedFilters' : Stale(j, v)' => Stale(j, v) /\ j # i
    BY <1>8 DEF Stale
  <2>. QED  BY <1>8, <2>1, <2>2, <2>3, <2>4
<1>12. nextId' >= nextId
  BY <1>1, <1>8 DEF RowsInv
<1>. QED  BY <1>2, <1>5, <1>6, <1>8, <1>10, <1>11, <1>12, StarterStep

LEMMA PopulatedStep ==
  ASSUME FiltersInv, NEW c \in Consoles, Populated(c)
  PROVE  FiltersInv'
<1> DEFINE s == consoles[c]
           new == [step |-> "up", version |-> s.version, todo |-> s.todo, alone |-> s.alone]
<1>1. s.step = "remove" /\ UNCHANGED <<savedFilters, nextId>>
  BY DEF Populated
<1>2. /\ s = [step |-> s.step, version |-> s.version, todo |-> s.todo, alone |-> s.alone]
      /\ s.version \in Versions /\ s.alone \in BOOLEAN /\ s.todo \in SUBSET Nat
  BY <1>1, StateOf DEF FiltersInv
<1>3. consoles' = [consoles EXCEPT ![c] = new]
  <2> DEFINE t == s
  <2>1. consoles' = [consoles EXCEPT ![c] = [t EXCEPT !.step = "up"]]
    BY DEF Populated
  <2>2. t = [step |-> t.step, version |-> t.version, todo |-> t.todo, alone |-> t.alone]
    BY <1>2
  <2> HIDE DEF t
  <2>3. [t EXCEPT !.step = "up"] = [step |-> "up", version |-> t.version, todo |-> t.todo, alone |-> t.alone]
    BY <2>2
  <2>. QED  BY <2>1, <2>3 DEF t
<1>4. IsState(new) /\ new.step = "up"
  BY <1>2, IsAState
<1>5. consoles'[c] = new
  BY <1>3 DEF FiltersInv, ConsolesInv
<1>6. RemovedOf(c)' /\ AloneOf(c)'
  BY <1>4, <1>5 DEF RemovedOf, AloneOf, IsStarting
<1>. QED  BY <1>1, <1>3, <1>4, <1>6, RowsAlone

(* A user only changes rows that are not those of the configuration.       *)
LEMMA UserStep ==
  ASSUME FiltersInv, UNCHANGED consoles, RowsInv', nextId' >= nextId,
         DOMAIN savedFilters' \subseteq DOMAIN savedFilters \cup {nextId},
         \A j \in DOMAIN savedFilters' \cap DOMAIN savedFilters : savedFilters'[j] = savedFilters[j],
         \A j \in DOMAIN savedFilters \ DOMAIN savedFilters' : savedFilters[j].user # systemUser,
         \A j \in DOMAIN savedFilters' \ DOMAIN savedFilters : savedFilters'[j].user # systemUser
  PROVE  FiltersInv'
<1>1. RowsInv /\ ConsolesInv /\ RemovedInv /\ AloneInv
  BY DEF FiltersInv
<1>2. ConsolesInv'
  BY <1>1 DEF ConsolesInv
<1>3. nextId' \in Nat
  BY DEF RowsInv
<1>4. \A d \in Consoles : RemovedOf(d)'
  BY <1>1, <1>3, RemovedKept DEF RemovedInv
<1>5. \A f : Present(f) => Present(f)'
  BY DEF Present, SameFilter
<1>6. \A v : \A j \in DOMAIN savedFilters' :
        Stale(j, v)' => j \in DOMAIN savedFilters /\ Stale(j, v)
  BY DEF Stale
<1>7. ASSUME NEW d \in Consoles PROVE AloneOf(d)'
  BY <1>1, <1>5, <1>6 DEF AloneInv, AloneOf, IsStarting
<1>. QED  BY <1>2, <1>4, <1>7 DEF FiltersInv, RemovedInv, AloneInv

LEMMA AddFilterStep ==
  ASSUME FiltersInv, NEW c \in Consoles, NEW user \in Users, AddFilter(c, user)
  PROVE  FiltersInv' /\ DOMAIN savedFilters \subseteq DOMAIN savedFilters' /\ UNCHANGED consoles
<1>1. PICK shared \in BOOLEAN, v \in DOMAIN BuiltinFilters :
        Insert([user |-> user, shared |-> shared, filter |-> BuiltinFilters[v][1]])
  BY DEF AddFilter
<1> DEFINE row == [user |-> user, shared |-> shared, filter |-> BuiltinFilters[v][1]]
<1>2. row.user # systemUser /\ UNCHANGED consoles
  BY FiltersAssumption DEF AddFilter
<1>3. RowsInv
  BY DEF FiltersInv
<1> HIDE DEF row
<1>4. /\ RowsInv' /\ nextId' = nextId + 1 /\ nextId \notin DOMAIN savedFilters
      /\ DOMAIN savedFilters' = DOMAIN savedFilters \cup {nextId}
      /\ savedFilters'[nextId] = row
      /\ \A i \in DOMAIN savedFilters : savedFilters'[i] = savedFilters[i]
  BY <1>1, <1>2, <1>3, Inserted DEF row
<1>5. nextId' >= nextId
  BY <1>3, <1>4 DEF RowsInv
<1>. QED  BY <1>2, <1>4, <1>5, UserStep

LEMMA DeleteFilterStep ==
  ASSUME FiltersInv, NEW c \in Consoles, NEW user \in Users, DeleteFilter(c, user)
  PROVE  /\ FiltersInv' /\ UNCHANGED consoles
         /\ \A i \in DOMAIN savedFilters \ DOMAIN savedFilters' : savedFilters[i].user # systemUser
<1>1. PICK i \in DOMAIN savedFilters : MayDelete(user, savedFilters[i]) /\ Delete({i})
  BY DEF DeleteFilter
<1>2. savedFilters[i].user # systemUser /\ UNCHANGED consoles
  BY <1>1, FiltersAssumption DEF MayDelete, DeleteFilter
<1>3. RowsInv
  BY DEF FiltersInv
<1>4. /\ RowsInv' /\ nextId' = nextId
      /\ DOMAIN savedFilters' = DOMAIN savedFilters \ {i}
      /\ \A j \in DOMAIN savedFilters' : savedFilters'[j] = savedFilters[j]
  BY <1>1, <1>3, Deleted
<1>5. nextId' >= nextId
  BY <1>3, <1>4 DEF RowsInv
<1>6. \A j \in DOMAIN savedFilters \ DOMAIN savedFilters' : savedFilters[j].user # systemUser
  BY <1>2, <1>4
<1>. QED  BY <1>2, <1>4, <1>5, <1>6, UserStep

LEMMA FiltersStart == FiltersInit => FiltersInv
<1> SUFFICES ASSUME FiltersInit PROVE FiltersInv
  OBVIOUS
<1> USE DEF FiltersInit
<1>1. RowsInv
  BY DEF RowsInv
<1>2. \A c \in Consoles : consoles[c] = Down /\ Down.step = "down" /\ IsState(Down)
  BY DEF Down, IsState
<1>3. ConsolesInv
  BY <1>2 DEF ConsolesInv
<1>4. RemovedInv /\ AloneInv
  BY <1>2 DEF RemovedInv, AloneInv, RemovedOf, AloneOf, IsStarting
<1>. QED  BY <1>1, <1>3, <1>4 DEF FiltersInv

LEMMA FiltersSteps == FiltersInv /\ [FiltersNext]_filterVars => FiltersInv'
<1> SUFFICES ASSUME FiltersInv, [FiltersNext]_filterVars PROVE FiltersInv'
  OBVIOUS
<1>1. CASE UNCHANGED filterVars
  BY <1>1 DEF filterVars, FiltersInv, RowsInv, ConsolesInv, RemovedInv, AloneInv, RemovedOf, AloneOf,
              IsStarting, Stale, Present, SameFilter
<1>2. CASE FiltersNext
  BY <1>2, StartConsoleStep, StopConsoleStep, LookupBuiltinStep, InsertBuiltinStep, ListBuiltinStep,
     RemoveOutdatedStep, PopulatedStep, AddFilterStep, DeleteFilterStep DEF FiltersNext
<1>. QED  BY <1>1, <1>2

(* Rows are removed by a console that starts, from those of the            *)
(* configuration, or by a user, who leaves the state of the consoles.      *)
LEMMA KeptStep ==
  ASSUME FiltersInv, FiltersNext,
         NEW i \in DOMAIN savedFilters \ DOMAIN savedFilters'
  PROVE  savedFilters[i].user = systemUser <=> consoles' # consoles
<1>1. PICK c \in Consoles :
        \/ StartConsole(c) \/ StopConsole(c)
        \/ LookupBuiltin(c) \/ InsertBuiltin(c) \/ ListBuiltin(c) \/ RemoveOutdated(c) \/ Populated(c)
        \/ \E user \in Users : AddFilter(c, user) \/ DeleteFilter(c, user)
  BY DEF FiltersNext
<1>2. savedFilters' # savedFilters
  OBVIOUS
<1>3. CASE RemoveOutdated(c)
  <2>1. RowsInv /\ ConsolesInv /\ RemovedOf(c)
    BY DEF FiltersInv, RemovedInv
  <2>2. PICK j \in consoles[c].todo : Delete({j}) /\ consoles' = [consoles EXCEPT ![c].todo = @ \ {j}]
    BY <1>3 DEF RemoveOutdated
  <2>3. j = i /\ Stale(i, consoles[c].version)
    <3>1. DOMAIN savedFilters' = DOMAIN savedFilters \ {j}
      BY <2>1, <2>2, Deleted
    <3>2. consoles[c].step = "remove"
      BY <1>3 DEF RemoveOutdated
    <3>3. i = j
      BY <3>1
    <3>. QED  BY <2>1, <2>2, <3>2, <3>3 DEF RemovedOf
  <2>4. consoles' # consoles
    <3>1. consoles[c].step = "remove"
      BY <1>3 DEF RemoveOutdated
    <3>2. consoles[c] = [step |-> consoles[c].step, version |-> consoles[c].version,
                         todo |-> consoles[c].todo, alone |-> consoles[c].alone]
      BY <2>1, <3>1, StateOf
    <3>3. consoles'[c] = [consoles[c] EXCEPT !.todo = @ \ {j}]
      BY <2>1, <2>2 DEF ConsolesInv
    <3> DEFINE t == consoles[c]
    <3> HIDE DEF t
    <3>4. [t EXCEPT !.todo = @ \ {j}].todo = t.todo \ {j}
      BY <3>2 DEF t
    <3>. QED  BY <2>2, <3>3, <3>4 DEF t
  <2>. QED  BY <2>3, <2>4 DEF Stale
<1>4. CASE InsertBuiltin(c)
  <2> DEFINE row == [user |-> systemUser, shared |-> TRUE, filter |-> Head(consoles[c].todo)]
  <2>1. Insert(row) /\ row.shared
    BY <1>4 DEF InsertBuiltin
  <2> HIDE DEF row
  <2>2. DOMAIN savedFilters' = DOMAIN savedFilters \cup {nextId}
    BY <2>1 DEF Insert
  <2>. QED  BY <2>2
<1>5. ASSUME NEW user \in Users, AddFilter(c, user) PROVE FALSE
  BY <1>5, AddFilterStep
<1>6. ASSUME NEW user \in Users, DeleteFilter(c, user)
      PROVE  savedFilters[i].user # systemUser /\ consoles' = consoles
  BY <1>6, DeleteFilterStep
<1>7. ~(StartConsole(c) \/ StopConsole(c) \/ LookupBuiltin(c) \/ ListBuiltin(c) \/ Populated(c))
  BY <1>2 DEF StartConsole, StopConsole, LookupBuiltin, ListBuiltin, Populated
<1>. QED  BY <1>1, <1>3, <1>4, <1>5, <1>6, <1>7

(* A console that started alone leaves the filters of its configuration.   *)
LEMMA ExactStep ==
  ASSUME FiltersInv, FiltersNext, NEW c \in Consoles,
         consoles[c].step = "remove", consoles'[c].step = "up", consoles[c].alone
  PROVE  Builtins' = Range(BuiltinFilters[consoles[c].version])
<1>1. Populated(c)
  <2>1. RowsInv /\ ConsolesInv
    BY DEF FiltersInv
  <2>2. PICK d \in Consoles :
          \/ StartConsole(d) \/ StopConsole(d)
          \/ LookupBuiltin(d) \/ InsertBuiltin(d) \/ ListBuiltin(d) \/ RemoveOutdated(d) \/ Populated(d)
          \/ \E user \in Users : AddFilter(d, user) \/ DeleteFilter(d, user)
    BY DEF FiltersNext
  <2>3. consoles'[c] # consoles[c]
    OBVIOUS
  <2>4. ~\E user \in Users : AddFilter(d, user) \/ DeleteFilter(d, user)
    BY <2>3 DEF AddFilter, DeleteFilter
  <2>5. CASE StartConsole(d)
    <3>1. PICK v \in Versions :
            consoles' = [e \in Consoles |->
              IF e = d
              THEN [step |-> "lookup", version |-> v, todo |-> BuiltinFilters[v],
                    alone |-> \A b \in Consoles \ {d} : ~IsStarting(b)]
              ELSE IF IsStarting(e) THEN [consoles[e] EXCEPT !.alone = FALSE] ELSE consoles[e]]
      BY <2>5, Zenon DEF StartConsole, Versions
    <3>2. d # c
      BY <2>5 DEF StartConsole
    <3>3. IsStarting(c)
      BY DEF IsStarting
    <3>4. consoles'[c] = [consoles[c] EXCEPT !.alone = FALSE]
      BY <3>1, <3>2, <3>3
    <3> DEFINE s == consoles[c]
    <3>5. s = [step |-> s.step, version |-> s.version, todo |-> s.todo, alone |-> s.alone]
      BY <2>1, StateOf
    <3>6. s.step = "remove" /\ consoles'[c] = [s EXCEPT !.alone = FALSE]
      BY <3>4
    <3> HIDE DEF s
    <3>7. [s EXCEPT !.alone = FALSE].step = s.step
      BY <3>5
    <3>. QED  BY <3>6, <3>7
  <2>6. CASE StopConsole(d)
    BY <2>1, <2>6 DEF StopConsole, ConsolesInv, Down
  <2>7. CASE LookupBuiltin(d)
    BY <2>1, <2>7 DEF LookupBuiltin, ConsolesInv
  <2>8. CASE InsertBuiltin(d)
    BY <2>1, <2>8 DEF InsertBuiltin, ConsolesInv
  <2>9. CASE ListBuiltin(d)
    BY <2>1, <2>9 DEF ListBuiltin, ConsolesInv
  <2>10. CASE RemoveOutdated(d)
    BY <2>1, <2>10 DEF RemoveOutdated, ConsolesInv
  <2>11. CASE Populated(d)
    <3>1. d = c
      BY <2>1, <2>3, <2>11 DEF Populated, ConsolesInv
    <3>. QED  BY <2>11, <3>1
  <2>. QED  BY <2>2, <2>4, <2>5, <2>6, <2>7, <2>8, <2>9, <2>10, <2>11
<1> DEFINE v == consoles[c].version
<1>2. consoles[c].todo = {} /\ savedFilters' = savedFilters
  BY <1>1 DEF Populated
<1>3. /\ \A f \in Wanted(v) : Present(f)
      /\ \A i \in DOMAIN savedFilters : ~Stale(i, v)
  BY <1>2 DEF FiltersInv, AloneInv, AloneOf, IsStarting
<1> HIDE DEF v
<1>4. Builtins = Wanted(v)
  <2>1. ASSUME NEW f \in Wanted(v) PROVE f \in Builtins
    BY <1>3 DEF Present, SameFilter, Builtins, Range
  <2>2. ASSUME NEW f \in Builtins PROVE f \in Wanted(v)
    BY <1>3 DEF Stale, Builtins, Range
  <2>. QED  BY <2>1, <2>2
<1>5. Builtins' = Builtins
  BY <1>2 DEF Builtins
<1>. QED  BY <1>4, <1>5 DEF Wanted, v

(* populate, DeleteSavedFilter: whatever consoles start, stop or fail, and *)
(* whatever users do meanwhile, a console that starts while no other does  *)
(* leaves the filters of its configuration and no other one; users do not  *)
(* remove those, and consoles do not remove those of the users.            *)
THEOREM FiltersAreRight == FiltersSpec => FiltersRight
<1> DEFINE Exact == \A c \in Consoles :
             consoles[c].step = "remove" /\ consoles'[c].step = "up" /\ consoles[c].alone =>
               Builtins' = Range(BuiltinFilters[consoles[c].version])
           OwnOnes == \A i \in DOMAIN savedFilters \ DOMAIN savedFilters' :
             savedFilters[i].user = systemUser <=> consoles' # consoles
<1>1. FiltersInit => FiltersInv
  BY FiltersStart
<1>2. FiltersInv /\ [FiltersNext]_filterVars => FiltersInv' /\ [Exact]_filterVars /\ [OwnOnes]_filterVars
  BY FiltersSteps, KeptStep, ExactStep
<1>3. FiltersSpec => [][Exact]_filterVars /\ [][OwnOnes]_filterVars
  <2> HIDE DEF Exact, OwnOnes
  <2>. QED  BY <1>1, <1>2, PTL DEF FiltersSpec
<1>. QED  BY <1>3 DEF FiltersRight, BuiltinsExact, FiltersKept

-----------------------------------------------------------------------------
(* What the checks of the request that runs may say.                       *)
SaidNow == [status : 0..2, request : {requests}]

HealthInv ==
  /\ requests \in Nat
  /\ checks = [c \in HealthChecks |-> checks[c]]
  /\ answers = [c \in HealthChecks |-> answers[c]]
  /\ \A c \in HealthChecks : checks[c] # "idle" => checking
  /\ checking => requests # 0
  /\ \A c \in HealthChecks : checks[c] = "report" => answers[c] \in SaidNow
  /\ DOMAIN details \subseteq HealthChecks
  /\ \A c \in DOMAIN details : details[c] \in SaidNow
  /\ HealthRight

-----------------------------------------------------------------------------
(* The health checks                                                       *)

(* A status below the one of an error says that no check is missing.       *)
LEMMA HealthyIsComplete ==
  ASSUME HealthInv, checking, Worst(Completed(details)) < 2
  PROVE  \A c \in HealthChecks : Completed(details)[c] \in SaidNow
<1> DEFINE all == Completed(details)
<1>1. /\ DOMAIN all = HealthChecks
      /\ \A c \in HealthChecks : all[c] = IF c \in DOMAIN details THEN details[c] ELSE Timeout
  BY DEF Completed
<1>2. \A c \in HealthChecks : all[c].status \in 0..2
  BY <1>1 DEF HealthInv, SaidNow, Timeout
<1> HIDE DEF all
<1>3. \E s \in 0..2 :
        /\ \A c \in DOMAIN all : all[c].status <= s
        /\ s = 0 \/ \E c \in DOMAIN all : all[c].status = s
  <2>1. CASE \E c \in HealthChecks : all[c].status = 2
    BY <1>1, <1>2, <2>1
  <2>2. CASE ~(\E c \in HealthChecks : all[c].status = 2) /\ (\E c \in HealthChecks : all[c].status = 1)
    <3>1. \A c \in HealthChecks : all[c].status <= 1
      BY <1>2, <2>2
    <3> QED
      BY <1>1, <2>2, <3>1
  <2>3. CASE \A c \in HealthChecks : all[c].status \notin {1, 2}
    <3>1. \A c \in HealthChecks : all[c].status <= 0
      BY <1>2, <2>3
    <3> QED
      BY <1>1, <3>1
  <2> QED
    BY <2>1, <2>2, <2>3
<1>4. Worst(all) \in 0..2 /\ \A c \in DOMAIN all : all[c].status <= Worst(all)
  BY <1>3 DEF Worst
<1>5. Worst(all) < 2
  BY DEF all
<1>6. ASSUME NEW c \in HealthChecks PROVE all[c] \in SaidNow
  <2>1. all[c].status # 2
    BY <1>1, <1>2, <1>4, <1>5
  <2>2. all[c] # Timeout
    BY <2>1 DEF Timeout
  <2> QED
    BY <1>1, <2>2 DEF HealthInv
<1> QED
  BY <1>6 DEF all

(* A service is said to be healthy only when each of the checks said so to *)
(* the request that is answered, the late ones being errors.               *)
THEOREM HealthIsRight == HealthSpec => []HealthRight
<1>1. HealthInit => HealthInv
  BY DEF HealthInit, HealthInv, HealthRight, ServedHealthy
<1>2. HealthInv /\ [HealthNext]_healthVars => HealthInv'
  <2> SUFFICES ASSUME HealthInv, [HealthNext]_healthVars PROVE HealthInv'
    OBVIOUS
  <2>0. served' = served => HealthRight'
    BY DEF HealthInv, HealthRight, ServedHealthy, AllSaySo
  <2>1. CASE RunHealthchecks
    BY <2>0, <2>1 DEF HealthInv, RunHealthchecks
  <2>2. CASE Expire \/ StopCollecting
    BY <2>0, <2>2 DEF HealthInv, Expire, StopCollecting, SaidNow
  <2>3. CASE Serve
    <3>1. /\ UNCHANGED <<requests, details, answers>> /\ checking
          /\ checks' = [c \in HealthChecks |-> "idle"]
      BY <2>3 DEF Serve
    <3>2. HealthRight'
      <4> SUFFICES ASSUME ServedHealthy' PROVE AllSaySo'
        BY DEF HealthRight
      <4>1. Worst(Completed(details)) < 2 /\ served'.details = Completed(details)
        BY <2>3 DEF Serve, ServedHealthy
      <4>2. \A c \in HealthChecks : Completed(details)[c] \in SaidNow
        BY <3>1, <4>1, HealthyIsComplete
      <4>3. DOMAIN Completed(details) = HealthChecks
        BY DEF Completed
      <4>4. requests # 0
        BY <3>1 DEF HealthInv
      <4> QED
        BY <4>1, <4>2, <4>3, <4>4 DEF AllSaySo, SaidNow
    <3>3. SaidNow' = SaidNow
      BY <3>1 DEF SaidNow
    <3> QED
      BY <3>1, <3>2, <3>3 DEF HealthInv
  <2>4. ASSUME NEW c \in HealthChecks,
               Contact(c) \/ ComponentAnswers(c) \/ CheckTimesOut(c) \/ Report(c) \/ Forget(c)
        PROVE  HealthInv'
    <3>0. UNCHANGED <<requests, checking, served>> /\ SaidNow' = SaidNow
      BY <2>4 DEF Contact, ComponentAnswers, CheckTimesOut, Report, Forget, SaidNow
    <3>1. CASE Contact(c)
      BY <2>0, <3>0, <3>1 DEF HealthInv, Contact
    <3>2. CASE ComponentAnswers(c)
      <4>0. UNCHANGED details
        BY <3>2 DEF ComponentAnswers
      <4>1. CASE components[c].request = requests /\ checks[c] = "wait"
        <5>1. PICK status \in 0..2 :
                answers' = [answers EXCEPT ![c] = [status |-> status, request |-> requests]]
          BY <3>2, <4>1 DEF ComponentAnswers
        <5>2. checks' = [checks EXCEPT ![c] = "report"]
          BY <3>2, <4>1 DEF ComponentAnswers
        <5>3. [status |-> status, request |-> requests] \in SaidNow
          BY DEF SaidNow
        <5> QED
          BY <2>0, <3>0, <4>0, <4>1, <5>1, <5>2, <5>3 DEF HealthInv
      <4>2. CASE ~(components[c].request = requests /\ checks[c] = "wait")
        BY <2>0, <3>0, <3>2, <4>0, <4>2 DEF HealthInv, ComponentAnswers
      <4> QED
        BY <4>1, <4>2
    <3>3. CASE CheckTimesOut(c)
      <4>1. [status |-> 2, request |-> requests] \in SaidNow
        BY DEF SaidNow
      <4>2. PICK late \in SaidNow : answers' = [answers EXCEPT ![c] = late]
        BY <3>3, <4>1 DEF CheckTimesOut
      <4>3. UNCHANGED details /\ checks' = [checks EXCEPT ![c] = "report"] /\ checks[c] # "idle"
        BY <3>3 DEF CheckTimesOut
      <4> QED
        BY <2>0, <3>0, <4>2, <4>3 DEF HealthInv
    <3>4. CASE Report(c)
      BY <2>0, <3>0, <3>4 DEF HealthInv, Report
    <3>5. CASE Forget(c)
      BY <2>0, <3>0, <3>5 DEF HealthInv, Forget
    <3> QED
      BY <2>4, <3>1, <3>2, <3>3, <3>4, <3>5
  <2>5. CASE UNCHANGED healthVars
    <3>1. UNCHANGED <<requests, checking, details, checks, answers, served>>
      BY <2>5 DEF healthVars
    <3>2. SaidNow' = SaidNow
      BY <3>1 DEF SaidNow
    <3> QED
      BY <2>0, <3>1, <3>2 DEF HealthInv
  <2> QED
    BY <2>1, <2>2, <2>3, <2>4, <2>5 DEF HealthNext
<1>3. HealthInv => HealthRight
  BY DEF HealthInv
<1> QED
  BY <1>1, <1>2, <1>3, PTL DEF HealthSpec

-----------------------------------------------------------------------------
(* The answers that are kept                                               *)

IsAnswer(response, asked) ==
  \E up \in BOOLEAN :
    /\ response.status = Endpoint(asked, up).status
    /\ response.body = Endpoint(asked, up).body

(* What is in the store is a success for the requests with this key, and   *)
(* does not expire later than a whole time to live from now.               *)
StoreInv ==
  \A k \in DOMAIN store :
    /\ store[k].response.status \in 200..299
    /\ \A asked \in HttpRequests : k = CacheKey(asked) => IsAnswer(store[k].response, asked)
    /\ store[k].expires \in Int /\ store[k].expires <= now + Ttl

(* A client has the answer to its own request.                             *)
ClientsInv ==
  /\ clients = [c \in HttpClients |-> clients[c]]
  /\ \A c \in HttpClients :
       /\ clients[c].step # "idle" => clients[c].request \in HttpRequests
       /\ clients[c].step = "answered" => IsAnswer(clients[c].response, clients[c].request)

CacheInv == now \in Nat /\ databaseUp \in BOOLEAN /\ StoreInv /\ ClientsInv /\ HitsRight

(* CacheByRequestBody: requests with the same key are the same.            *)
LEMMA KeysDistinct ==
  ASSUME NEW a \in HttpRequests, NEW b \in HttpRequests, CacheKey(a) = CacheKey(b)
  PROVE  a = b
<1>1. a.endpoint = b.endpoint /\ a.body = b.body
  BY DEF CacheKey
<1> QED
  BY <1>1, CacheAssumption

(* Ask: a hit is a success of the handler for the request.                 *)
LEMMA AskKeeps ==
  ASSUME CacheInv, NEW c \in HttpClients, NEW asked \in HttpRequests, Ask(c, asked)
  PROVE  CacheInv'
<1> DEFINE key == CacheKey(asked)
<1>0. UNCHANGED <<now, databaseUp, store, sweepAt>> /\ clients[c].step = "idle"
  BY DEF Ask
<1>1. now' \in Nat /\ databaseUp' \in BOOLEAN /\ StoreInv'
  BY <1>0 DEF CacheInv, StoreInv
<1>2. CASE StoreGet(key) /\ UNCHANGED clients
           /\ hit' = [status |-> store[key].response.status,
                      body |-> store[key].response.body, to |-> asked]
  <2>1. store[key].response.status \in 200..299 /\ IsAnswer(store[key].response, asked)
    BY <1>2 DEF StoreGet, CacheInv, StoreInv
  <2>2. hit'.status = store[key].response.status /\ hit'.body = store[key].response.body
        /\ hit'.to = asked
    BY <1>2
  <2>3. HitsRight'
    BY <2>1, <2>2 DEF HitsRight, IsAnswer
  <2>4. ClientsInv'
    BY <1>2 DEF CacheInv, ClientsInv
  <2> QED
    BY <1>1, <2>3, <2>4 DEF CacheInv
<1>3. ASSUME NEW readable \in BOOLEAN, UNCHANGED hit,
             clients' = [clients EXCEPT ![c] =
               [step |-> "handler", request |-> asked, readable |-> readable]]
      PROVE  CacheInv'
  <2>1. HitsRight'
    BY <1>3 DEF CacheInv, HitsRight
  <2>2. ClientsInv'
    BY <1>3 DEF CacheInv, ClientsInv
  <2> QED
    BY <1>1, <2>1, <2>2 DEF CacheInv
<1> QED
  BY <1>2, <1>3 DEF Ask

(* Compute and Remember: an answer goes from the handler to the store.     *)
LEMMA ComputeKeeps ==
  ASSUME CacheInv, NEW c \in HttpClients, Compute(c)
  PROVE  CacheInv'
<1> DEFINE asked == clients[c].request
<1>0. UNCHANGED <<now, databaseUp, store, sweepAt, hit>> /\ clients[c].step = "handler"
  BY DEF Compute
<1>1. now' \in Nat /\ databaseUp' \in BOOLEAN /\ StoreInv' /\ HitsRight'
  BY <1>0 DEF CacheInv, StoreInv, HitsRight
<1>2. asked \in HttpRequests
  BY <1>0 DEF CacheInv, ClientsInv
<1>3. CASE clients' = [clients EXCEPT ![c] = AtRest]
  <2>1. ClientsInv'
    BY <1>3 DEF CacheInv, ClientsInv, AtRest
  <2> QED
    BY <1>1, <2>1 DEF CacheInv
<1>4. ASSUME NEW response, IsAnswer(response, asked),
             clients' = [clients EXCEPT ![c] =
               [step |-> "answered", request |-> asked, response |-> response]]
      PROVE  CacheInv'
  <2>1. ClientsInv'
    BY <1>2, <1>4 DEF CacheInv, ClientsInv
  <2> QED
    BY <1>1, <2>1 DEF CacheInv
<1>5. IsAnswer([status |-> Endpoint(asked, databaseUp).status,
                body |-> Endpoint(asked, databaseUp).body], asked)
  BY DEF IsAnswer, CacheInv
<1> QED
  BY <1>3, <1>4, <1>5 DEF Compute

LEMMA RememberKeeps ==
  ASSUME CacheInv, NEW c \in HttpClients, Remember(c)
  PROVE  CacheInv'
<1> DEFINE asked == clients[c].request
           response == clients[c].response
           key == CacheKey(asked)
<1>0. /\ UNCHANGED <<now, databaseUp, sweepAt, hit>> /\ clients[c].step = "answered"
      /\ clients' = [clients EXCEPT ![c] = AtRest]
  BY DEF Remember
<1>1. now' \in Nat /\ databaseUp' \in BOOLEAN /\ HitsRight'
  BY <1>0 DEF CacheInv, HitsRight
<1>2. ClientsInv'
  BY <1>0 DEF CacheInv, ClientsInv, AtRest
<1>3. asked \in HttpRequests /\ IsAnswer(response, asked)
  BY <1>0 DEF CacheInv, ClientsInv
<1>4. CASE UNCHANGED store
  BY <1>0, <1>1, <1>2, <1>4 DEF CacheInv, StoreInv
<1>5. CASE Cacheable(response.status) /\ StoreSet(key, response)
  <2>1. ASSUME NEW other \in HttpRequests, key = CacheKey(other)
        PROVE  IsAnswer(response, other)
    BY <1>3, <2>1, KeysDistinct
  <2>2. /\ DOMAIN store' = DOMAIN store \cup {key}
        /\ store'[key] = [response |-> response, expires |-> now + Ttl]
        /\ \A k \in DOMAIN store : k # key => store'[k] = store[k]
    BY <1>5 DEF StoreSet
  <2>3. ASSUME NEW k \in DOMAIN store'
        PROVE  /\ store'[k].response.status \in 200..299
               /\ \A other \in HttpRequests :
                    k = CacheKey(other) => IsAnswer(store'[k].response, other)
               /\ store'[k].expires \in Int /\ store'[k].expires <= now + Ttl
    <3>1. CASE k = key
      BY <1>5, <2>1, <2>2, <3>1, CacheAssumption DEF Cacheable, CacheInv
    <3>2. CASE k # key
      BY <2>2, <3>2 DEF CacheInv, StoreInv
    <3> QED
      BY <3>1, <3>2
  <2>4. StoreInv'
    BY <1>0, <2>3 DEF StoreInv
  <2> QED
    BY <1>1, <1>2, <2>4 DEF CacheInv
<1> QED
  BY <1>4, <1>5 DEF Remember

(* Ticks only make what is kept older, the sweeper only removes some.      *)
LEMMA CacheKeeps ==
  ASSUME CacheInv, [CacheNext]_cacheVars
  PROVE  CacheInv'
<1>1. CASE Tick
  <2>1. now' \in Nat /\ now <= now' /\ databaseUp' \in BOOLEAN /\ UNCHANGED <<store, clients>> /\ hit' = NoHit
    BY <1>1 DEF Tick, CacheInv
  <2>2. StoreInv'
    BY <2>1, CacheAssumption DEF CacheInv, StoreInv
  <2>3. ClientsInv' /\ HitsRight'
    BY <2>1 DEF CacheInv, ClientsInv, HitsRight
  <2> QED
    BY <2>1, <2>2, <2>3 DEF CacheInv
<1>2. CASE Sweep
  <2>1. UNCHANGED <<now, databaseUp, clients, hit>>
        /\ \A k \in DOMAIN store' : k \in DOMAIN store /\ store'[k] = store[k]
    BY <1>2 DEF Sweep
  <2>2. StoreInv'
    BY <2>1 DEF CacheInv, StoreInv
  <2>3. ClientsInv' /\ HitsRight'
    BY <2>1 DEF CacheInv, ClientsInv, HitsRight
  <2> QED
    BY <2>1, <2>2, <2>3 DEF CacheInv
<1>3. CASE SweepStarts \/ UNCHANGED cacheVars
  <2>1. UNCHANGED <<now, databaseUp, store, clients, hit>>
    BY <1>3 DEF SweepStarts, cacheVars
  <2> QED
    BY <2>1 DEF CacheInv, StoreInv, ClientsInv, HitsRight
<1> QED
  BY <1>1, <1>2, <1>3, AskKeeps, ComputeKeeps, RememberKeeps DEF CacheNext

(* Only Ask gives what is in the store, and only before it expires.        *)
LEMMA HitIsFresh ==
  ASSUME CacheInv, [CacheNext]_cacheVars, hit' \notin {hit, NoHit}
  PROVE  \E k \in DOMAIN store :
           /\ store[k].response.body = hit'.body
           /\ store[k].expires - Ttl <= now /\ now <= store[k].expires
<1>1. PICK c \in HttpClients, asked \in HttpRequests : Ask(c, asked)
  BY DEF CacheNext, Tick, SweepStarts, Sweep, Compute, Remember, cacheVars
<1> DEFINE key == CacheKey(asked)
<1>2. /\ StoreGet(key)
      /\ hit' = [status |-> store[key].response.status,
                 body |-> store[key].response.body, to |-> asked]
  BY <1>1 DEF Ask
<1>3. key \in DOMAIN store /\ now <= store[key].expires /\ hit'.body = store[key].response.body
  BY <1>2 DEF StoreGet
<1>4. store[key].expires - Ttl <= now
  BY <1>3, CacheAssumption DEF CacheInv, StoreInv
<1> QED
  BY <1>3, <1>4

(* cacheMiddleware and Memory: whoever runs the handler, stores its answer *)
(* or sweeps the store meanwhile, what a client gets from the store is a   *)
(* success of the handler for this very request, and it was stored no      *)
(* longer ago than its time to live.                                       *)
THEOREM AnswersAreRight == CacheSpec => AnswersRight
<1>1. CacheInit => CacheInv
  <2> SUFFICES ASSUME CacheInit PROVE CacheInv
    OBVIOUS
  <2>1. now = 0 /\ databaseUp \in BOOLEAN /\ DOMAIN store = {} /\ hit = NoHit
    BY DEF CacheInit
  <2>2. ClientsInv
    BY DEF CacheInit, ClientsInv, AtRest
  <2> QED
    BY <2>1, <2>2 DEF CacheInv, StoreInv, HitsRight
<1>2. CacheInv /\ [CacheNext]_cacheVars => CacheInv'
  BY CacheKeeps
<1>3. CacheInv => HitsRight
  BY DEF CacheInv
<1>4. CacheInv /\ [CacheNext]_cacheVars =>
        [hit' \notin {hit, NoHit} =>
           \E k \in DOMAIN store :
             /\ store[k].response.body = hit'.body
             /\ store[k].expires - Ttl <= now /\ now <= store[k].expires]_cacheVars
  BY HitIsFresh
<1> QED
  BY <1>1, <1>2, <1>3, <1>4, PTL DEF CacheSpec, AnswersRight, HitsFresh
=============================================================================
