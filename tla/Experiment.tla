------------------------------ MODULE Experiment ------------------------------
(***************************************************************************)
(* A comparison of context methods and ablations over one event stream     *)
(* (ExperimentRunner::run_experiment, run_comparison and AblationRunner).  *)
(* The runs of a comparison share their seed, and nothing a run decides    *)
(* reaches the entity store: the store and the draws are the same in every *)
(* run, so the model replays all configurations side by side, one event a  *)
(* step.  Which event comes, whether it is contaminated and how are drawn  *)
(* at random in the code and are choices here; the stand-in model's answer *)
(* is left out, what it is given is kept.                                  *)
(***************************************************************************)
EXTENDS VersionedEntity, ContextMethods

CONSTANTS Entities,   \* entity ids
          Values,     \* observable values
          Fabricated, \* the value of a made-up inference
          Gaps,       \* distances between the times of two events
          Linger,     \* how long an injected contamination stays valid
          Configs,    \* the configurations compared: a method and its flags
          MaxEvents   \* bound: length of the stream

\* The contaminations that live outside the entity store.
Elsewhere == {"SummaryContamination", "RetrievalContamination",
              "CrossAgentContamination"}
Lies      == {"EntityBinding", "InferencePersistence"}
Flags     == {"temporal", "provenance", "forgetting", "conflict", "crossAgent"}

\* None is neither a contamination nor an issue; what a model inferred is neither
\* raw nor of unknown source.
ExperimentAssumption ==
  /\ Fabricated \notin Values
  /\ Linger \in Nat \ {0} /\ Gaps \subseteq Nat \ {0} /\ MaxEvents \in Nat
  /\ Configs \subseteq [method : Methods, flags : [Flags -> BOOLEAN]]
  /\ None \notin Elsewhere \cup Lies \cup {"StaleState", "SourceAmbiguity"}
  /\ Inferred \notin {Raw, Unknown}

VARIABLES history,  \* the events so far
          store,    \* every entity's states
          injected, \* per event, the contamination it carries or None
          runs,     \* per configuration, what its run has counted
          revived   \* ghost: per entity, the versions made valid again

vars == <<history, store, injected, runs, revived>>

Init ==
  /\ history = <<>> /\ injected = <<>>
  /\ store = [e \in Entities |-> <<>>]
  /\ runs = [c \in Configs |->
               [tainted |-> {}, found |-> 0, residual |-> 0, stale |-> 0]]
  /\ revived = [e \in Entities |-> {}]

Mitigates(c) == c.method \in {"VersionedContext", "FullVersionedIntegrity"}
FullIntegrity(c) == c.method = "FullVersionedIntegrity"

\* The versions the stale-state check reports: all that are valid and not the
\* newest, whichever injection made them so.
OldValid(entity, now) == ValidVersions(entity, now) \ {Len(entity)}

Findings_Baselines(c, type, entity, now) ==
  CASE type = "StaleState" /\ c.flags.provenance ->
         Cardinality(OldValid(entity, now))
    [] type \in Lies /\ c.flags.conflict /\ HasConflict(entity, now) -> 1
    [] OTHER -> 0

\* How many contamination events the reliability layer of c records.
Findings(c, type, entity, now) ==
  CASE Mitigates(c) /\ type = "StaleState" /\ c.flags.provenance ->
         Cardinality(OldValid(entity, now))
    [] FullIntegrity(c) /\ type \in Lies /\ c.flags.conflict
         /\ HasConflict(entity, now) -> 1
    [] FullIntegrity(c) /\ type = "CrossAgentContamination"
         /\ c.flags.crossAgent -> 1
    [] OTHER -> 0

\* One run's counters after the event: the contamination the layer does not
\* find reaches the model and taints the event, and tainted events that the
\* strategy still keeps in the context reach the model as residue.
Account(c, event, type, entity) ==
  LET old      == runs[c]
      findings == IF type = None THEN 0
                  ELSE Findings(c, type, entity, event.time)
      survives == type # None /\ findings = 0
      context  == GetContext(c.method, c.flags, event, history)
      residual == Cardinality(context \intersect old.tainted)
      usesOld  == residual > 0 \/ (survives /\ type = "StaleState")
  IN  [tainted  |-> IF survives THEN old.tainted \union {Len(history) + 1}
                    ELSE old.tainted,
       found    |-> old.found + findings,
       residual |-> residual,
       stale    |-> old.stale + (IF usesOld THEN 1 ELSE 0)]

\* The rest of the loop body, once the event's state has been recorded and
\* the contamination of the given type, if any, has been injected.
Conclude(event, type, entity) ==
  /\ store'    = [store EXCEPT ![event.entity] = entity]
  /\ runs'     = [c \in Configs |-> Account(c, event, type, entity)]
  /\ history'  = Append(history, event)
  /\ injected' = Append(injected, type)
-----------------------------------------------------------------------------
Now == IF history = <<>> THEN 1 ELSE history[Len(history)].time

\* The next event of the stream.
Event(e, value, gap) == [entity |-> e, value |-> value, time |-> Now + gap]

\* The entity's states once the event has been recorded, before contamination.
Recorded(event) ==
  AddState(store[event.entity], Observed(event.value, event.time))

\* No contamination drawn, or one that finds nothing to work on.
Clean(event) ==
  /\ Conclude(event, None, Recorded(event))
  /\ UNCHANGED revived

InjectStale(event) ==
  /\ CanResurrect(Recorded(event))
  /\ Conclude(event, "StaleState", Resurrect(Recorded(event), event.time, Linger))
  /\ revived' = [revived EXCEPT ![event.entity] =
                   @ \union {Len(store[event.entity])}]

\* The other entity may be the event's own, and may have no state yet.
InjectBinding(event, other) ==
  LET from == IF other = event.entity THEN Recorded(event) ELSE store[other]
  IN  /\ CanBind(from, event.time)
      /\ Conclude(event, "EntityBinding",
                  Bind(from, Recorded(event), event.time, other = event.entity))
      /\ UNCHANGED revived

InjectInference(event) ==
  /\ Conclude(event, "InferencePersistence",
              Fabricate(Recorded(event), Fabricated, event.time, Linger))
  /\ UNCHANGED revived

InjectElsewhere(event, type) ==
  /\ Conclude(event, type, Recorded(event))
  /\ UNCHANGED revived

\* One turn of run_experiment's loop.
Observe(event) ==
  \/ Clean(event)
  \/ InjectStale(event)
  \/ \E other \in Entities : InjectBinding(event, other)
  \/ InjectInference(event)
  \/ \E type \in Elsewhere : InjectElsewhere(event, type)

Next ==
  /\ Len(history) < MaxEvents
  /\ \E e \in Entities, value \in Values, gap \in Gaps :
       Observe(Event(e, value, gap))

Spec == Init /\ [][Next]_vars
-----------------------------------------------------------------------------
TypeOK ==
  /\ history \in Seq([entity : Entities, value : Values, time : Nat])
  /\ DOMAIN injected = DOMAIN history
  /\ DOMAIN store = Entities /\ DOMAIN runs = Configs
  /\ \A c \in Configs : /\ runs[c].tainted \subseteq DOMAIN history
                        /\ {runs[c].found, runs[c].residual, runs[c].stale}
                             \subseteq Nat

\* The store is what the checker sees of the truth: of the states of an entity
\* before the newest exactly those an injection has revived are not marked
\* superseded, through any mixture of observations, copies between entities,
\* fabrications and expiries (versioned_entity.hpp:117-120,
\* contamination_injector.hpp:99-100).  The newest is marked only as a copy of
\* the one before it: an entity bound to itself has lost the state it had.
SupersededExactly ==
  /\ TypeOK
  /\ \A e \in Entities : \A v \in DOMAIN store[e] :
       IF v < Len(store[e]) THEN store[e][v].superseded <=> v \notin revived[e]
       ELSE store[e][v].superseded =>
              v > 1 /\ store[e][v] = [store[e][v - 1] EXCEPT !.source = Unknown]

\* The newest event: whose states are left after it, and what it carried.
Latest == history[Len(history)]
Carried == injected[Len(history)]

\* What build_safe_context would hand out: an older state only if it has been
\* revived, and never one that forgetting what is superseded would drop.
SafeIsRetained ==
  \A e \in SafeEntities(store, Now) :
    LET v == CurrentState(store[e], Now)
    IN  /\ v < Len(store[e]) => v \in revived[e]
        /\ v \in Retained(store[e], Now, [maxAge |-> 0, minConfidence |-> 0, superseded |-> TRUE,
                                        inferences |-> TRUE, preserve |-> {}])

\* What the store knows, and what the reliability layer can see and cannot.  With
\* provenance tracking a revived state gets through only if it is no longer valid anyway;
\* a lie about provenance is caught only beside an older state that an earlier
\* injection has revived, because the lie supersedes the truth it contradicts;
\* summaries and retrievals are never caught (experiment_harness.hpp:692-754).
DetectionLimits ==
  /\ SupersededExactly /\ SafeIsRetained
  /\ history # <<>> =>
    LET entity == store[Latest.entity]
        passed(c) == Len(history) \in runs[c].tainted
    IN  \A c \in Configs : Mitigates(c) =>
          /\ Carried = "StaleState" /\ c.flags.provenance /\ passed(c) =>
               ~IsValidAt(entity[Len(entity) - 1], Latest.time)
          /\ Carried \in Lies /\ ~passed(c) =>
               \E v \in revived[Latest.entity] : IsValidAt(entity[v], Latest.time)
          /\ Carried \in {"SummaryContamination", "RetrievalContamination"} =>
               passed(c)

\* c does at least what d does: d filters nothing, or runs no stronger method
\* and switches on no flag that c leaves off.
Stronger(c, d) ==
  \/ d.method = "FullHistory"
  \/ /\ Mitigates(c) /\ Mitigates(d)
     /\ FullIntegrity(d) => FullIntegrity(c)
     /\ \A f \in DOMAIN d.flags : d.flags[f] => c.flags[f]

\* Every flag removes a real filter (experiment_harness.hpp:28-34, 535-541):
\* over the same stream a stronger configuration never taints an event that a
\* weaker one keeps clean, is never shown more residue, and never leans on
\* stale information more often.  FullHistory, which filters nothing, is weaker
\* than every other.
StrongerNeverWorse ==
  \A c, d \in Configs : Stronger(c, d) =>
    /\ runs[c].tainted \subseteq runs[d].tainted
    /\ runs[c].residual <= runs[d].residual
    /\ runs[c].stale <= runs[d].stale

\* Contamination leaves a context the way the strategies' comments say
\* (experiment_harness.hpp:407-414, 538-541): once the digest of a rolling
\* summary has taken in an event, no later event drives it out; under
\* selective forgetting an event is gone for good as soon as its entity has a
\* later one, and is never shown beside it.
ContextsAge ==
  [][LET digest(h) == RollingSummary(h) \ FixedWindow(h)
         shown(h) == VersionedContext(Event(Latest.entity, Latest.value, 0), h,
                       [temporal |-> FALSE, forgetting |-> TRUE])
     IN  /\ digest(history) \subseteq digest(history')
         /\ history # <<>> =>
              /\ shown(history') \intersect DOMAIN history
                   \subseteq shown(history)
              /\ Len(history') \in shown(history')
              /\ \A i \in shown(history') \ {Len(history')} :
                   history'[i].entity # history'[Len(history')].entity]_vars
=============================================================================
