---------------------------- MODULE PairCapture ----------------------------
(***************************************************************************)
(* The regression the evals and the vulnerable-mode launcher run: one      *)
(* variant of one pair is executed inside detect.Capture, and the rules    *)
(* are evaluated on its trace (evals/injection.go, evals/trajectory.go,    *)
(* cmd/gopherguard-vuln -detect).  Beside the pairs, Anything captures a   *)
(* function that nests and stamps spans as it likes.                       *)
(***************************************************************************)
EXTENDS Capture, Pairs

CONSTANT AnyTime  \* bound on the clock while Anything is captured

Anything == "anything"

VARIABLES
  pair, variant,  \* what is captured
  at,             \* the step it is in, or the next one
  acted,          \* the body of that step has run
  compromised     \* Outcome.Compromised so far

pairVars == <<captureVars, pair, variant, at, acted, compromised>>

PairInit ==
  /\ CaptureInit
  /\ \/ pair \in PairIDs /\ variant \in Variants
     \/ pair = Anything /\ variant = "hardened"
  /\ at = 1
  /\ acted = FALSE
  /\ compromised = FALSE

Program == Steps(pair, variant)
InPair  == pair \in PairIDs

Explore ==
  /\ pair = Anything
  /\ CaptureNext
  /\ now' <= AnyTime
  /\ UNCHANGED <<pair, variant, at, acted, compromised>>

\* owasp.step
BeginStep ==
  /\ InPair /\ Len(open) = 1 /\ at <= Len(Program)
  /\ StartSpan(Program[at].name, Program[at].attrs)
  /\ UNCHANGED <<pair, variant, at, acted, compromised>>

RunBody ==
  /\ InPair /\ Len(open) = 2 /\ ~acted
  /\ Stamp(Program[at].stamp)
  /\ compromised' = (compromised \/ Program[at].harm)
  /\ acted' = TRUE
  /\ UNCHANGED <<pair, variant, at>>

\* the end func of owasp.step
EndStep ==
  /\ acted
  /\ EndSpan
  /\ at' = at + 1
  /\ acted' = FALSE
  /\ UNCHANGED <<pair, variant, compromised>>

\* The variant returns its Outcome and Capture its trace.
Return ==
  /\ InPair /\ at > Len(Program)
  /\ Finish
  /\ UNCHANGED <<pair, variant, at, acted, compromised>>

PairTick ==
  /\ InPair /\ Tick
  /\ UNCHANGED <<pair, variant, at, acted, compromised>>

PairNext == Explore \/ BeginStep \/ RunBody \/ EndStep \/ Return \/ PairTick

PairSpec == PairInit /\ [][PairNext]_pairVars

-----------------------------------------------------------------------------
(* Properties *)

Captured == InPair /\ trace # <<>>

\* Result.Holds, and the invariant of evals/injection.go: the vulnerable variant
\* of every pair is compromised and the hardened one is not.
PairsHold == Captured => (compromised <=> variant = "vulnerable")

\* Whatever the clock does while a variant runs, the rules mapped to a pair fire
\* on its vulnerable trace, and no rule fires on a hardened one
\* (evals/injection.go:52 and :59).
RegressionMatrix ==
  Captured =>
    IF variant = "vulnerable"
    THEN ExpectedFirings[pair] \subseteq EvaluateAll(trace)
    ELSE EvaluateAll(trace) = {}

\* What the comment of countAgentHops says (evals/trajectory.go:126): it counts
\* the spans that carry an agent.hop attribute.
HopsCounted == Captured => CountAgentHops(trace) = Cardinality(Hops(trace))
=============================================================================
