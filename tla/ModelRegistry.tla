----------------------------- MODULE ModelRegistry -----------------------------
(***************************************************************************)
(* The registry of known models: which of them a HuggingFace configuration *)
(* is taken for, and whether it is known to run with the parameters of an  *)
(* engine.                                                                 *)
(*                                                                         *)
(* A HuggingFace configuration and the architecture pattern of a model are *)
(* records of a model_type, the set of <<attribute, value>> pairs that are *)
(* plain, and a function from the nested attributes (quantization_config,  *)
(* text_config, ...) to their own pairs.                                   *)
(***************************************************************************)
EXTENDS Integers, FiniteSetsExt, SequencesExt

CONSTANT
  Models  \* the entries of the file, in its order: see IsModel

NoModel == [name |-> "none"]

NoDevice == [name |-> "none"]

\* Runtime parameters of which each model has at most one configuration.
Signature(cb) == <<cb.tp_size, cb.max_model_len, cb.max_num_seqs>>

IsPattern(a) ==
  /\ a = [model_type |-> a.model_type, plain |-> a.plain, nested |-> a.nested]
  /\ a.nested \in [DOMAIN a.nested -> Range(a.nested)]
  /\ IsFiniteSet(a.plain) /\ IsFiniteSet(DOMAIN a.nested)
  /\ \A x \in DOMAIN a.nested : IsFiniteSet(a.nested[x])

\* What from_dict accepts: some runtime configuration, and none of them twice.
IsModel(m) ==
  /\ m = [name |-> m.name, architecture |-> m.architecture,
          static |-> m.static, continuous |-> m.continuous]
  /\ IsPattern(m.architecture)
  /\ m.static # <<>> \/ m.continuous # <<>>
  /\ \A i, j \in DOMAIN m.continuous :
       Signature(m.continuous[i]) = Signature(m.continuous[j]) => i = j
  /\ IsInjective(m.static)

ASSUME ModelsAssumption ==
  /\ Models \in Seq(ToSet(Models))
  /\ \A i \in DOMAIN Models : IsModel(Models[i])
-----------------------------------------------------------------------------
Matches(hf, pattern) ==
  /\ hf.model_type = pattern.model_type
  /\ pattern.plain \subseteq hf.plain
  /\ \A a \in DOMAIN pattern.nested :
       a \in DOMAIN hf.nested /\ pattern.nested[a] \subseteq hf.nested[a]

\* A bug that forgets nested attributes.
BugFieldCount(pattern) == Cardinality(pattern.plain)

\* A nested attribute counts one more than the fields in it.
FieldCount(pattern) ==
  Cardinality(pattern.plain)
    + MapThenSumSet(LAMBDA a : 1 + Cardinality(pattern.nested[a]),
                                  DOMAIN pattern.nested)

\* find_matching_model: of the matches with the most fields the first one.
FindMatchingModel(hf) ==
  FoldLeft(LAMBDA best, m :
             IF /\ Matches(hf, m.architecture)
                /\ best = NoModel
                     \/ FieldCount(m.architecture) > FieldCount(best.architecture)
               THEN m ELSE best,
           NoModel, Models)

\* _warmup_shapes_compatible
ShapesCompatible(sb, shapes) == shapes # {} /\ shapes \subseteq sb.shapes

\* Static batching, for pooling: the shapes are among those of a known entry.
StaticMatch(m, tp_size, shapes) ==
  \E sb \in ToSet(m.static) : sb.tp_size = tp_size /\ ShapesCompatible(sb, shapes)

\* Continuous batching: all parameters are equal.
ContinuousMatches(m, config) ==
  {cb \in ToSet(m.continuous) :
     Signature(cb) = <<config.world_size, config.max_model_len, config.max_num_seqs>>}

(***************************************************************************)
(* get_configurator_for_runtime: {} or the one device configuration that   *)
(* the configurator is made with, which may be NoDevice. Whether there are *)
(* shapes decides which kind of batching is looked for.                    *)
(***************************************************************************)
DevicesForRuntime(config, shapes) ==
  LET m == FindMatchingModel(config.hf)
  IN IF m = NoModel THEN {}
     ELSE IF shapes = {} THEN {cb.device : cb \in ContinuousMatches(m, config)}
     ELSE IF StaticMatch(m, config.world_size, shapes) THEN {NoDevice} ELSE {}
-----------------------------------------------------------------------------
\* Pattern p says all that pattern q says, and more.
Refines(p, q) ==
  /\ p # q
  /\ p.model_type = q.model_type
  /\ q.plain \subseteq p.plain
  /\ \A a \in DOMAIN q.nested :
       a \in DOMAIN p.nested /\ q.nested[a] \subseteq p.nested[a]
=============================================================================
