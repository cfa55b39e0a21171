---------------------------- MODULE MetadataPolls --------------------------
(***************************************************************************)
(* What the providers of metadata make of what an exporter answers: gNMI   *)
(* events that come in any order, and SNMP answers of several communities, *)
(* each with a part of the data.  Each state is a poll with its result.    *)
(***************************************************************************)
EXTENDS Integers, Sequences, SequencesExt, FiniteSetsExt

CONSTANTS GnmiEvents,    \* updates an exporter may send, at most one for a path
          SnmpFields,    \* answers of a community: field -> value
          MaxCommunities

VARIABLE poll
pollVars == <<poll>>

PollInit == poll = [protocol |-> "none"]

(***************************************************************************)
(* gNMI.  An event has a kind of path, the keys of the path, and a value.  *)
(***************************************************************************)
NoIface == [name |-> "", description |-> "", speed |-> 0]

Set(f, k, v) == [x \in DOMAIN f \cup {k} |-> IF x = k THEN v ELSE f[x]]
Get(f, k, default) == IF k \in DOMAIN f THEN f[k] ELSE default

(* First pass: the name of the system, the indexes and the speeds.         *)
FirstPass(updates) ==
  FoldLeft(LAMBDA acc, ev :
             CASE ev.kind = "system" -> [acc EXCEPT !.name = ev.value]
               [] ev.kind = "index" -> [acc EXCEPT !.indexes = Set(@, ev.keys, ev.value)]
               [] ev.kind = "speed" -> [acc EXCEPT !.speeds = Set(@, ev.keys, ev.value)]
               [] OTHER -> acc,
           [name |-> "", indexes |-> <<>>, speeds |-> <<>>], updates)

(* Second pass: names and descriptions of what has an index.               *)
Described(ifaces, indexes, ev) ==
  IF ev.kind \notin {"name", "description"} \/ ev.keys \notin DOMAIN indexes THEN ifaces
  ELSE LET i == indexes[ev.keys]
       IN  Set(ifaces, i, [Get(ifaces, i, NoIface) EXCEPT ![ev.kind] = ev.value])

(* Mistake: one pass is enough when the indexes come first.                *)
SecondPassAtOnce(updates, indexes) ==
  FoldLeft(LAMBDA ifaces, i :
             Described(ifaces, FirstPass(SubSeq(updates, 1, i)).indexes, updates[i]),
           <<>>, [i \in 1..Len(updates) |-> i])

SecondPass(updates, indexes) ==
  FoldLeft(LAMBDA ifaces, ev : Described(ifaces, indexes, ev), <<>>, updates)

(* The speed is the one of the keys, or of the first of their parents that *)
(* has one.                                                                *)
SpeedOf(speeds, keys) ==
  LET known == {n \in 1..Len(keys) : Get(speeds, SubSeq(keys, 1, n), 0) # 0}
  IN  IF known = {} THEN 0 ELSE speeds[SubSeq(keys, 1, Max(known))]

(* Third pass: an interface without a name has the one of its first key,   *)
(* when the model has keys that are names; else, it is removed.            *)
update(updates, namesInKeys) ==
  LET first == FirstPass(updates)
      ifaces == SecondPass(updates, first.indexes)
      name(keys) ==
        LET n == Get(ifaces, first.indexes[keys], NoIface).name
        IN  IF n = "" /\ namesInKeys THEN keys[1] ELSE n
      named == {keys \in DOMAIN first.indexes : name(keys) # ""}
  IN  [name |-> first.name,
       interfaces |->
         [i \in {first.indexes[keys] : keys \in named} |->
            LET keys == CHOOSE k \in named : first.indexes[k] = i
            IN  [Get(ifaces, i, NoIface) EXCEPT !.name = name(keys),
                                                !.speed = SpeedOf(first.speeds, keys)]]]

SubscribeOnce ==
  \E sent \in SUBSET GnmiEvents, namesInKeys \in BOOLEAN :
    \E updates \in SetToSeqs(sent) :
      poll' = [protocol |-> "gnmi", sent |-> sent, namesInKeys |-> namesInKeys,
               state |-> update(updates, namesInKeys)]

(***************************************************************************)
(* SNMP.                                                                   *)
(***************************************************************************)
NotFound == [result |-> "notFound"]
Failed == [result |-> "error"]
Canceled == [result |-> "canceled"]
Answered(values) == [result |-> "ok", values |-> values]

(* The communities are tried in order.  A value an answer does not have is *)
(* taken from the next ones.                                               *)
Filled(got, current) ==
  [f \in DOMAIN got |-> IF got[f] = "missing" THEN current[f] ELSE got[f]]

(* An error of the last community counts if no other one has answered.     *)
PerformGETs(responses) ==
  FoldLeft(LAMBDA acc, r :
             IF acc = Canceled \/ r = Failed THEN acc
             ELSE IF r = Canceled THEN Canceled
             ELSE IF acc = Failed THEN r
             ELSE Answered(Filled(acc.values, r.values)),
           Failed, responses)

(* The name is ifName; ifAlias or else ifDescr is the description if it    *)
(* says something else.                                                    *)
Found(got) ==
  LET describes(f) == got[f] # "missing" /\ got[f] # got["name"]
  IN  [result |-> "found", exporter |-> got["system"], name |-> got["name"],
       description |-> IF describes("alias") THEN got["alias"]
                       ELSE IF describes("descr") THEN got["descr"] ELSE "",
       speed |-> got["speed"]]

Poll(responses) ==
  LET all == PerformGETs(responses)
      got == all.values
  IN  IF all.result # "ok" THEN Failed
      ELSE IF got["system"] \in {"missing", ""} THEN Failed
      ELSE IF got["name"] = "missing" \/ got["speed"] = "missing" THEN NotFound
      ELSE Found(got)

GetRequests ==
  \E n \in 1..MaxCommunities :
    \E responses \in [1..n -> {Answered(v) : v \in SnmpFields} \cup {Failed, Canceled}] :
      poll' = [protocol |-> "snmp", responses |-> responses, answer |-> Poll(responses)]

PollNext == poll.protocol = "none" /\ (SubscribeOnce \/ GetRequests)

-----------------------------------------------------------------------------
(* The order of the events, which depends on the encoding and on the       *)
(* random order of the JSON maps, makes no difference.                     *)
EventsOrderIrrelevant ==
  poll.protocol = "gnmi" =>
    poll.state = update(SetToSeq(poll.sent), poll.namesInKeys)

(* When no community is canceled, an answer has for each value the one of  *)
(* the first community that has it, and there is one as long as the name   *)
(* of the system, the name of the interface and its speed are known to a   *)
(* community, not necessarily to the same.                                 *)
FirstOf(responses, f) ==
  LET S == {i \in 1..Len(responses) :
              responses[i].result = "ok" /\ responses[i].values[f] # "missing"}
  IN  IF S = {} THEN "missing" ELSE responses[Min(S)].values[f]

CommunitiesComplete ==
  poll.protocol = "snmp" /\ (\A i \in 1..Len(poll.responses) : poll.responses[i] # Canceled) =>
    LET first(f) == FirstOf(poll.responses, f)
    IN  /\ poll.answer.result = "found" <=>
             first("system") \notin {"missing", ""} /\ "missing" \notin {first("name"), first("speed")}
        /\ poll.answer.result = "found" =>
             /\ poll.answer.exporter = first("system") /\ poll.answer.name = first("name")
             /\ poll.answer.description # poll.answer.name
             /\ poll.answer.description \in {"", first("alias"), first("descr")}

(* What is polled does not depend on the order of the events, or on which  *)
(* community has which part of it.                                         *)
PollsRight == EventsOrderIrrelevant /\ CommunitiesComplete
=============================================================================
