---------------------------- MODULE VMLogicProofs ----------------------------
(***************************************************************************)
(* Proofs about VMLogic's software gas counter for every width and every  *)
(* gas limit: the type invariant, and that consume_gas never answers Ok   *)
(* after an overrun below u64::MAX (OverrunReported).                      *)
(***************************************************************************)
EXTENDS VMLogic, TLAPS

\* gas_used is the consumed total saturated at u64::MAX.
Saturated == gasUsed = IF consumed <= WordSize - 1 THEN consumed
                                                  ELSE WordSize - 1

\* consume_gas's last answer agrees with the counter it left.
AnswerAgrees == answer = "Ok" => gasUsed <= gasLimit

\* The inductive strengthening of OverrunReported.
LInv == LTypeOK /\ Saturated /\ AnswerAgrees

LEMMA LConstantFacts ==
    /\ WordSize \in Nat \ {0}
    /\ Limits \subseteq 0 .. WordSize - 1
    /\ Amounts \subseteq 0 .. WordSize - 1
    /\ MaxConsumed \in Nat
BY WordAssumption, VMLogicAssumption DEF U64

LEMMA LInvInit == LInit => LInv
BY LConstantFacts
DEF LInit, LInv, LTypeOK, Saturated, AnswerAgrees, U64

\* One consume_gas keeps the counter saturated, typed and in agreement
\* with its answer.
LEMMA LInvStep ==
    ASSUME LInv, NEW g \in Amounts, ConsumeGas(g)
    PROVE  LInv'
<1>1. g \in 0 .. WordSize - 1 /\ consumed' = consumed + g
      /\ consumed' \in 0 .. MaxConsumed
    BY LConstantFacts DEF ConsumeGas, LInv, LTypeOK
<1>2. Saturated'
    BY <1>1, LConstantFacts
    DEF ConsumeGas, SaturatingAdd, LInv, LTypeOK, Saturated
<1>3. gasUsed' \in U64
    BY <1>1, LConstantFacts DEF ConsumeGas, SaturatingAdd, LInv, LTypeOK, U64
<1>4. AnswerAgrees'
    BY <1>3, LConstantFacts
    DEF ConsumeGas, OutOfGas, AnswerAgrees, LInv, LTypeOK, U64
<1>5. answer' \in {"none", "Ok", "OutOfGasError"} /\ gasLimit' \in Limits
    BY DEF ConsumeGas, LInv, LTypeOK
<1>6. QED
    BY <1>1, <1>2, <1>3, <1>4, <1>5 DEF LInv, LTypeOK

LEMMA LInvInductive == LInv /\ [LNext]_lvars => LInv'
<1> SUFFICES ASSUME LInv, [LNext]_lvars PROVE LInv'
    OBVIOUS
<1>1. CASE LNext
    BY <1>1, LInvStep DEF LNext
<1>2. CASE UNCHANGED lvars
    BY <1>2 DEF lvars, LInv, LTypeOK, Saturated, AnswerAgrees
<1>3. QED
    BY <1>1, <1>2

\* The counter's type invariant holds in every reachable state.
THEOREM LTypeCorrect == LSpec => []LTypeOK
<1>1. LInv => LTypeOK
    BY DEF LInv
<1>2. QED
    BY <1>1, LInvInit, LInvInductive, PTL DEF LSpec

\* consume_gas answers Ok only while the total really consumed is within a
\* gas limit below u64::MAX: saturation never hides an overrun.
THEOREM OverrunReportedInvariant == LSpec => []OverrunReported
<1>1. LInv => OverrunReported
  <2> SUFFICES ASSUME LInv, gasLimit < WordSize - 1, answer = "Ok"
               PROVE  consumed <= gasLimit
      BY DEF OverrunReported
  <2>1. gasUsed <= gasLimit /\ gasLimit \in 0 .. WordSize - 1
      BY LConstantFacts DEF LInv, AnswerAgrees, LTypeOK
  <2>2. consumed \in Nat
      BY DEF LInv, LTypeOK
  <2>3. QED
      BY <2>1, <2>2, LConstantFacts DEF LInv, Saturated
<1>2. QED
    BY <1>1, LInvInit, LInvInductive, PTL DEF LSpec
=============================================================================
