--------------------------- MODULE VersionedEntity ---------------------------
(***************************************************************************)
(* Entities with a version history (context/versioned_entity.hpp) and the  *)
(* contaminations injected into them (context/contamination_injector.hpp). *)
(* An entity is the sequence of its states; versions count from 1 and no   *)
(* state is ever removed, so a version is a position of the sequence and   *)
(* the current version the sequence's length.                              *)
(***************************************************************************)
EXTENDS Integers, Sequences, FiniteSets, FiniteSetsExt

CONSTANTS Raw,       \* ProvenanceSource::RawData
          Unknown,   \* ProvenanceSource::Unknown
          Inferred,  \* LLMInference and LLMHypothesis
          None       \* no issue, no contamination, no state

Sources == {Raw, Unknown, Inferred}

\* An honest observation: no expiry and no maximum age (0 stands for none).
\* Confidence is in percent.
Observed(value, now) ==
  [value |-> value, observed |-> now, from |-> now, until |-> 0, maxAge |-> 0,
   superseded |-> FALSE, source |-> Raw, confidence |-> 100]

IsValidAt(state, now) ==
  /\ ~state.superseded
  /\ state.until > 0 => now <= state.until
  /\ state.maxAge > 0 => now - state.observed <= state.maxAge
  /\ now >= state.from

AddState_LeavesOld(entity, state) == Append(entity, state)

\* A new state supersedes the newest one, and only that one.
AddState(entity, state) ==
  LET n == Len(entity)
  IN  Append([i \in 1..n |-> [entity[i] EXCEPT !.superseded = @ \/ i = n]],
             state)

ValidVersions(entity, now) == {v \in 1..Len(entity) : IsValidAt(entity[v], now)}

\* The newest valid version, 0 when there is none.
CurrentState(entity, now) == Max(ValidVersions(entity, now) \union {0})

HasConflict_AnyVersion(entity, now) ==
  Cardinality({entity[v].value : v \in DOMAIN entity}) > 1

HasConflict(entity, now) ==
  Cardinality({entity[v].value : v \in ValidVersions(entity, now)}) > 1

\* What check_state_validity says of a state: its tests in their order.  The
\* second test, for superseded states, can never be reached.
CheckValidity(state, now) ==
  IF ~IsValidAt(state, now) THEN "StaleState"
  ELSE IF state.source = Unknown THEN "SourceAmbiguity"
  ELSE IF state.source = Inferred /\ state.confidence < 80 THEN "InferencePersistence"
  ELSE None

\* build_safe_context: the entities whose current state passes the checker,
\* and those whose current state it reports.  An entity without a valid state
\* is in neither.
SafeEntities(store, now) ==
  {e \in DOMAIN store : LET v == CurrentState(store[e], now)
                        IN  v > 0 /\ CheckValidity(store[e][v], now) = None}
ReportedEntities(store, now) ==
  {e \in DOMAIN store : LET v == CurrentState(store[e], now)
                        IN  v > 0 /\ CheckValidity(store[e][v], now) # None}

\* SelectiveForgetter::apply, as the versions it retains.  A source that is to
\* be preserved outweighs every reason to forget.
Retained(entity, now, criteria) ==
  {v \in 1..Len(entity) :
     \/ entity[v].source \in criteria.preserve
     \/ /\ criteria.maxAge > 0 => now - entity[v].observed <= criteria.maxAge
        /\ entity[v].confidence >= criteria.minConfidence
        /\ criteria.superseded => ~entity[v].superseded
        /\ criteria.inferences => entity[v].source # Inferred}
-----------------------------------------------------------------------------
(***************************************************************************)
(* The three contaminations that reach an entity's states.                 *)
(***************************************************************************)

\* inject_stale_state: the state before the newest is marked valid again.
CanResurrect(entity) == Len(entity) >= 2
Resurrect(entity, now, linger) ==
  [entity EXCEPT ![Len(entity) - 1].superseded = FALSE,
                 ![Len(entity) - 1].until = now + linger]

\* inject_entity_binding_error: an entity's current state becomes the newest
\* state of this one, its validity copied and its source hidden.  add_state is
\* given the validity itself and not a copy: that of the newest state of the
\* same entity is superseded before it is copied.
CanBind(from, now) == CurrentState(from, now) > 0
Bind(from, entity, now, same) ==
  LET v == CurrentState(from, now)
  IN  AddState(entity, [from[v] EXCEPT !.source = Unknown,
                                       !.superseded = same /\ v = Len(entity)])

\* inject_inference_as_fact: a made-up value that claims to be raw data.
Fabricate(entity, value, now, linger) ==
  AddState(entity, [value |-> value, observed |-> now, from |-> now,
                    until |-> now + linger, maxAge |-> linger,
                    superseded |-> FALSE, source |-> Raw, confidence |-> 95])
=============================================================================
