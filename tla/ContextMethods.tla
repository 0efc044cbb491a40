---------------------------- MODULE ContextMethods ----------------------------
(***************************************************************************)
(* The strategies that choose which past events a model is shown           *)
(* (context/experiment_harness.hpp).  An event is a record with an entity, *)
(* a time and a value; the history is the sequence of events before the    *)
(* current one, and a context is the set of positions it keeps.  The       *)
(* current event, which every strategy appends, is left out.               *)
(***************************************************************************)
EXTENDS Integers, Sequences, FiniteSets, FiniteSetsExt

CONSTANTS WindowSize,    \* FixedWindowContext's window, and RollingSummary's
          Stride,        \* every Stride-th event enters the rolling digest
          TopK,          \* how many events VectorRetrieval returns
          SearchWindow,  \* how far back VectorRetrieval looks
          FilterAge,     \* TimeFilterContext's max_age
          MaxAge         \* VersionedContextManager's max_age

MethodAssumption ==
  /\ {WindowSize, Stride, TopK, SearchWindow} \subseteq Nat \ {0}
  /\ {FilterAge, MaxAge} \subseteq Nat

Methods == {"NoHistory", "FullHistory", "FixedWindow", "RollingSummary",
            "VectorRetrieval", "TimeFilter", "VersionedContext",
            "FullVersionedIntegrity"}

Distance(a, b) == IF a < b THEN b - a ELSE a - b

FixedWindow(history) == {i \in DOMAIN history : i > Len(history) - WindowSize}

\* Old events survive in the digest by position alone.
RollingSummary(history) ==
  {i \in DOMAIN history : \/ i > Len(history) - WindowSize
                          \/ (i - 1) % Stride = 0}

\* The TopK nearest by value, an event of the same entity counting half as
\* far; ties go to the older event.  Distances are doubled to stay whole.
VectorRetrieval(event, history) ==
  LET near == {i \in DOMAIN history : i > Len(history) - SearchWindow}
      dist(i) == Distance(history[i].value, event.value)
                   * (IF history[i].entity = event.entity THEN 1 ELSE 2)
      before(i) == {j \in near : \/ dist(j) < dist(i)
                                 \/ dist(j) = dist(i) /\ j < i}
  IN  {i \in near : Cardinality(before(i)) < TopK}

Younger(event, history, age) ==
  {i \in DOMAIN history : event.time - history[i].time <= age}

LatestPerEntity_First(history, kept) ==
  {i \in kept : \A j \in kept :
     history[j].entity = history[i].entity => i <= j}

\* The first of an entity's latest events: a later one replaces it only when
\* its time is strictly greater.
LatestPerEntity(history, kept) ==
  {i \in kept : \A j \in kept \ {i} :
     history[j].entity = history[i].entity =>
       \/ history[j].time < history[i].time
       \/ history[j].time = history[i].time /\ j > i}

\* The two flags of the ablation that act on the context.
VersionedContext(event, history, flags) ==
  LET kept == IF flags.temporal THEN Younger(event, history, MaxAge)
                                ELSE DOMAIN history
  IN  IF flags.forgetting THEN LatestPerEntity(history, kept) ELSE kept

GetContext(method, flags, event, history) ==
  CASE method = "NoHistory"       -> {}
    [] method = "FullHistory"     -> DOMAIN history
    [] method = "FixedWindow"     -> FixedWindow(history)
    [] method = "RollingSummary"  -> RollingSummary(history)
    [] method = "VectorRetrieval" -> VectorRetrieval(event, history)
    [] method = "TimeFilter"      -> Younger(event, history, FilterAge)
    [] OTHER                      -> VersionedContext(event, history, flags)
=============================================================================
