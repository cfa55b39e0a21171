---------------------------- MODULE RateLimiter ----------------------------
(***************************************************************************)
(* outlet/core/rate.go: the limit on the flows of an exporter, shared by   *)
(* the workers.  Partitions of Kafka are read in parallel: flows are given *)
(* to the limiter out of the order of the seconds they were received at.   *)
(***************************************************************************)
EXTENDS Naturals

CONSTANTS
  Seconds,                \* times at which flows are received
  RateLimit,              \* flows accepted per second
  MaxLimited              \* bound on the flows given to the rate limiter

(* 0 is for no limit: the limiter is not asked then.  It is also the second *)
(* of a limiter that did not see the exporter yet.                         *)
ASSUME RateAssumption ==
  /\ Seconds \subseteq Nat \ {0}
  /\ RateLimit \in Nat \ {0}
  /\ MaxLimited \in Nat

VARIABLES
  limiter,                \* the counters of the exporter
  receivedIn,             \* ghost: flows received, by second as it is counted
  acceptedIn,             \* ghost: flows accepted among them
  secondOver,             \* ghost: the last second that is over, 0 before
  limitedFlows            \* number of flows given to the rate limiter

rateVars == <<limiter, receivedIn, acceptedIn, secondOver, limitedFlows>>

(* allowOneMessage: factor is the ratio of received to accepted flows.     *)

NewSecond(l, t) ==
  [l EXCEPT !.factor = IF l.total - l.dropped > 0 THEN <<l.total, l.total - l.dropped>> ELSE @,
            !.dropped = 0, !.total = 0, !.second = t]

(* Mistake: a flow of an older second starts this second again.            *)
RollsBack(l, t) == t # l.second

(* Only a later second ends the current one.                               *)
Rolls(l, t) == t > l.second

Counted(l) ==
  [l EXCEPT !.total = @ + 1, !.dropped = IF l.total + 1 > RateLimit THEN @ + 1 ELSE @]

(* A flow received at t, in any order: partitions are read in parallel.    *)
allowOneMessage(t) ==
  LET l == IF limiter.second = 0 THEN [limiter EXCEPT !.second = t] ELSE limiter
      after == Counted(IF Rolls(l, t) THEN NewSecond(l, t) ELSE l)
  IN /\ limitedFlows < MaxLimited
     /\ limitedFlows' = limitedFlows + 1
     /\ limiter' = after
     /\ secondOver' = IF Rolls(l, t) THEN l.second ELSE secondOver
     /\ receivedIn' = [receivedIn EXCEPT ![after.second] = @ + 1]
     /\ acceptedIn' =
          [acceptedIn EXCEPT ![after.second] = IF after.total <= RateLimit THEN @ + 1 ELSE @]

RateInit ==
  /\ limiter = [dropped |-> 0, total |-> 0, factor |-> <<1, 1>>, second |-> 0]
  /\ receivedIn = [s \in Seconds |-> 0] /\ acceptedIn = [s \in Seconds |-> 0]
  /\ secondOver = 0 /\ limitedFlows = 0

RateNext == \E t \in Seconds : allowOneMessage(t)

RateSpec == RateInit /\ [][RateNext]_rateVars

----------------------------------------------------------------------------
(* Properties                                                              *)

(* In whatever order flows come, no more than the limit are accepted in a  *)
(* second.                                                                 *)
RateRespected == \A s \in Seconds : acceptedIn[s] <= RateLimit

(* The factor of the accepted flows makes up exactly for the flows that    *)
(* were dropped in the last second that is over.                           *)
FactorCompensates ==
  secondOver # 0 =>
    limiter.factor[1] * acceptedIn[secondOver] = limiter.factor[2] * receivedIn[secondOver]

(* The limit is respected, and the sampling rate makes up for what is      *)
(* dropped.                                                                *)
RatesRight == RateRespected /\ FactorCompensates
============================================================================
