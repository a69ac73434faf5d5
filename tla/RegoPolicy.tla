------------------------------ MODULE RegoPolicy ------------------------------
(***************************************************************************)
(* core/policy.py: a policy is a Rego module.  It is loaded by evaluating  *)
(* its package on an empty input, which tells the rules it has; a verdict  *)
(* evaluates it again on the evidence.  What the interpreter answers is    *)
(* given by the module's text and is a value of the model.                 *)
(***************************************************************************)
EXTENDS Integers, FiniteSets, FiniteSetsExt

CONSTANTS
    NoInput,      \* the empty input document
    PolicyError   \* the exception

\* A module is [kind, meta, document]: the kind of the file, the title and the
\* severity of the rules that rule_meta names, and for every input the package
\* document, a function from the rules that are defined on it to their values,
\* or PolicyError where the query does not end in a result.
Kinds == {"rego", "yaml", "no package"}

RuleValues == {"true", "false", "no findings", "findings", "other"}

Satisfying == {"true", "no findings"}

-----------------------------------------------------------------------------
SeverityWeight(severity) ==
    CASE severity = "high" -> 3
      [] severity = "low"  -> 1
      [] OTHER             -> 2

\* Entries of rule_meta that are absent have no title and medium severity.
PolicyRule(module, name) ==
    IF name \in DOMAIN module.meta
    THEN module.meta[name]
    ELSE [title |-> "", severity |-> "medium"]

\* The rules are those the package defines on the empty input.
LoadPolicy(module) ==
    LET document == module.document[NoInput]
    IN  IF \/ module.kind # "rego"
           \/ document = PolicyError
           \/ DOMAIN document = {}
        THEN PolicyError
        ELSE [rules  |-> [name \in DOMAIN document |-> PolicyRule(module, name)],
              source |-> module]

\* Mutated form of Decision: a rule the evidence does not speak to is not asked
\* for.
DecisionOfThoseEvaluated(passed, failed, not_evaluated) ==
    CASE failed # {} -> "DENY"
      [] failed = {} /\ passed # {} -> "ALLOW"
      [] OTHER -> "REQUIRE_THRESHOLD"

Decision(passed, failed, not_evaluated) ==
    CASE failed # {} -> "DENY"
      [] failed = {} /\ passed # {} /\ not_evaluated = {} -> "ALLOW"
      [] OTHER -> "REQUIRE_THRESHOLD"

Evaluate(policy, input) ==
    LET document  == policy.source.document[input]
        rules     == DOMAIN policy.rules
        evaluated == rules \cap DOMAIN document
        passed    == {r \in evaluated : document[r] \in Satisfying}
        failed    == evaluated \ passed
    IN  IF document = PolicyError
        THEN PolicyError
        ELSE [decision            |-> Decision(passed, failed, rules \ evaluated),
              rules_passed        |-> passed,
              rules_failed        |-> failed,
              rules_not_evaluated |-> rules \ evaluated,
              findings            |-> [r \in failed |-> document[r]]]

PolicyConformance(evaluation, policy) ==
    LET Weight(name) == SeverityWeight(policy.rules[name].severity)
        Sum(names)   == MapThenSumSet(Weight, names)
    IN  [satisfied     |-> Sum(evaluation.rules_passed),
         failed        |-> Sum(evaluation.rules_failed),
         not_evaluated |-> Sum(evaluation.rules_not_evaluated),
         total         |-> Sum(DOMAIN policy.rules)]

\* identity.policy_hash; a rule's expression is its name.
PolicyHash(policy) ==
    [name \in DOMAIN policy.rules |-> policy.rules[name].title]
=============================================================================
