------------------------------- MODULE VMLogic ------------------------------
(***************************************************************************)
(* VMLogic of vm.rs: the software gas counter of one invocation,           *)
(* gas_used against an immutable gas_limit, advanced by consume_gas with a *)
(* u64 saturating add.  The import table does not call it (it meters       *)
(* through the instance's points, see HostCall); it is the auxiliary       *)
(* account spec section 3 describes.  The ghost `consumed` is the          *)
(* mathematical total of what callers asked to consume.                    *)
(***************************************************************************)
EXTENDS MachineInt

CONSTANTS
    Limits,      \* gas_limit values VMLogic::new may be given
    Amounts,     \* u32 amounts callers pass to consume_gas
    MaxConsumed  \* bound on the total the model lets callers consume

ASSUME VMLogicAssumption ==
    /\ Limits \subseteq U64
    /\ Amounts \subseteq U64
    /\ MaxConsumed \in Nat

VARIABLES
    gasLimit,   \* VMLogic.gas_limit, fixed at construction
    gasUsed,    \* VMLogic.gas_used
    consumed,   \* ghost: sum of all amounts passed to consume_gas
    answer      \* what the last consume_gas returned

lvars == <<gasLimit, gasUsed, consumed, answer>>

LTypeOK ==
    /\ gasLimit \in Limits
    /\ gasUsed \in U64
    /\ consumed \in 0 .. MaxConsumed
    /\ answer \in {"none", "Ok", "OutOfGasError"}

\* VMLogic::out_of_gas
OutOfGas(used) == used > gasLimit

\* VMLogic::new(env, gas)
LInit ==
    /\ gasLimit \in Limits
    /\ gasUsed = 0
    /\ consumed = 0
    /\ answer = "none"

\* Variant with a wrapping add instead of saturating_add (a plausible bug).
ConsumeGasWrapping(g) ==
    /\ consumed + g <= MaxConsumed
    /\ gasUsed' = (gasUsed + g) % WordSize
    /\ UNCHANGED gasLimit
    /\ consumed' = consumed + g
    /\ answer' = IF OutOfGas(gasUsed') THEN "OutOfGasError" ELSE "Ok"

\* Variant with an unchecked add (a plausible bug: gas_used leaves u64).
ConsumeGasUnchecked(g) ==
    /\ consumed + g <= MaxConsumed
    /\ gasUsed' = gasUsed + g
    /\ UNCHANGED gasLimit
    /\ consumed' = consumed + g
    /\ answer' = IF OutOfGas(gasUsed') THEN "OutOfGasError" ELSE "Ok"

\* VMLogic::consume_gas(gas)
ConsumeGas(g) ==
    /\ consumed + g <= MaxConsumed
    /\ gasUsed' = SaturatingAdd(gasUsed, g)
    /\ UNCHANGED gasLimit
    /\ consumed' = consumed + g
    /\ answer' = IF OutOfGas(gasUsed') THEN "OutOfGasError" ELSE "Ok"

LNext == \E g \in Amounts : ConsumeGas(g)

LSpec == LInit /\ [][LNext]_lvars

\* consume_gas answers Ok only while the total really consumed is within the
\* limit: the saturating u64 add never hides an overrun, for any gas_limit
\* below u64::MAX.  At gas_limit = u64::MAX (what the fuzz target passes)
\* out_of_gas can never hold, whatever is consumed.
OverrunReported ==
    gasLimit < WordSize - 1 /\ answer = "Ok" => consumed <= gasLimit
=============================================================================
