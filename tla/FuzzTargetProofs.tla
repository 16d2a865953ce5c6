-------------------------- MODULE FuzzTargetProofs --------------------------
(***************************************************************************)
(* Proofs about the fuzz target of FuzzTarget for every value of the       *)
(* constants, in debug and release builds: each step of a fuzz case is a   *)
(* step of the runner, so the runner's inductive invariant RInv carries    *)
(* over, and a run that panics was given a bad pointer by prepare          *)
(* (FuzzCrashOnlyOnBadPointer).                                            *)
(***************************************************************************)
EXTENDS FuzzTarget, RunnerProofs, InvocationProofs

\* The fuzz target's own variables: the case and the fuzzed data it was
\* started with, and where prepare is.
FuzzState ==
    /\ fcase \in Cases
    /\ d \in [Used(fcase) -> FuzzValues]
    /\ fpc \in {"entry", "args", "return", "end"}

\* The inductive invariant: the runner's, with the fuzz case's state.
FInv == RInv /\ RunnerState /\ FuzzState

\* i64 wrapping always yields an i64.
LEMMA WrapI64Type ==
    ASSUME NEW x \in Int
    PROVE  WrapI64(x) \in I64
BY ConstantFacts DEF WrapI64, I64

\* The pointers read_calldata and read_external_data receive are i64s: the
\* results of i64.mul and i64.sub on the fuzzed constants.
LEMMA ArgsType ==
    ASSUME FuzzState
    PROVE  /\ fcase = "read_calldata" => Args(fcase)[1] \in I64
           /\ fcase = "read_external_data" => Args(fcase)[3] \in I64
<1>1. FuzzValues \subseteq Int
    BY FuzzAssumption, ConstantFacts DEF U64
<1>2. ASSUME NEW i \in Used(fcase) PROVE Const(i) \in Int
  <2>1. d[i] \in Int
      BY <1>1 DEF FuzzState
  <2>2. WrapI64(d[i]) \in I64
      BY <2>1, WrapI64Type
  <2>3. QED
      BY <2>2, ConstantFacts DEF Const, I64
<1>3. fcase = "read_calldata" => Args(fcase)[1] \in I64
  <2>1. HAVE fcase = "read_calldata"
  <2>2. Const(28) \in Int /\ Const(29) \in Int
      BY <1>2, <2>1 DEF Used
  <2>3. QED
      BY <2>1, <2>2, WrapI64Type DEF Args, WasmMul
<1>4. fcase = "read_external_data" => Args(fcase)[3] \in I64
  <2>1. HAVE fcase = "read_external_data"
  <2>2. Const(28) \in Int /\ Const(29) \in Int
      BY <1>2, <2>1 DEF Used
  <2>3. QED
      BY <2>1, <2>2, WrapI64Type DEF Args, WasmSub
<1>5. QED
    BY <1>3, <1>4

LEMMA FInvInit == FInit => FInv
<1> SUFFICES ASSUME FInit PROVE FInv
    OBVIOUS
<1>1. RInit
    BY DEF FInit
<1>2. FuzzState
    BY DEF FInit, FuzzState
<1>3. QED
    BY <1>1, <1>2, RInvInit, RunnerStateInit DEF FInv

\* Every step of a fuzz case is a step of the runner: prepare's block, its
\* trap in an argument's div_s, its call 0 and its return are guest steps
\* of the running entry, the rest are the runner's own steps.
LEMMA FuzzIsRunner ==
    ASSUME FInv, [FNext]_fvars
    PROVE  [RNext]_rvars
<1>1. CASE FInstantiate \/ FRunnerStep
    BY <1>1 DEF FInstantiate, FRunnerStep, RNext
<1>2. CASE FuzzBlock \/ FuzzTrap \/ FuzzReturn
    BY <1>2 DEF FuzzBlock, FuzzTrap, FuzzReturn, GuestRuns, GuestStep, RNext
<1>3. CASE FuzzCall
  <2>1. /\ fcase = "read_calldata" => Args(fcase)[1] \in I64
        /\ fcase = "read_external_data" => Args(fcase)[3] \in I64
      BY ArgsType DEF FInv
  <2>2. GuestStep
      BY <1>3, <2>1 DEF FuzzCall, CallImport, GuestStep
  <2>3. QED
      BY <1>3, <2>2 DEF FuzzCall, GuestRuns, RNext
<1>4. CASE UNCHANGED fvars
    BY <1>4 DEF fvars, rvars
<1>5. QED
    BY <1>1, <1>2, <1>3, <1>4 DEF FNext

\* No step changes the case or its data, and prepare only moves between
\* its four positions.
LEMMA FuzzStateStep ==
    ASSUME FuzzState, [FNext]_fvars
    PROVE  FuzzState'
<1>1. UNCHANGED <<fcase, d>> /\ fpc' \in {"entry", "args", "return", "end"}
    BY DEF FNext, FInstantiate, FRunnerStep, FuzzBlock, FuzzTrap, FuzzCall,
           FuzzReturn, fvars, FuzzState
<1>2. QED
    BY <1>1 DEF FuzzState

LEMMA FInvInductive == FInv /\ [FNext]_fvars => FInv'
<1> SUFFICES ASSUME FInv, [FNext]_fvars PROVE FInv'
    OBVIOUS
<1>1. [RNext]_rvars
    BY FuzzIsRunner
<1>2. RInv'
    BY <1>1, RInvInductive DEF FInv
<1>3. RunnerState'
    BY <1>1, <1>2, RunnerStateStep DEF FInv
<1>4. FuzzState'
    BY FuzzStateStep DEF FInv
<1>5. QED
    BY <1>2, <1>3, <1>4 DEF FInv

-----------------------------------------------------------------------------
(* Which fuzz inputs crash run                                             *)

\* Why the host panicked: the case reads into guest memory at a negative
\* pointer, or one whose end overflows i64 in a debug build.
CrashCause ==
    /\ fcase \in {"read_calldata", "read_external_data"}
    /\ LET ptr == IF fcase = "read_calldata" THEN Args(fcase)[1]
                                             ELSE Args(fcase)[3]
       IN  ptr < 0 \/ RangePanics(ptr)

\* The inductive invariant: prepare's module has no start function, so the
\* runner never runs one; a host panic has its cause, and run reports a
\* panic only when the host panicked.
FCrashInv ==
    /\ module.start = FALSE
    /\ pc # "start"
    /\ status = "Panic" => CrashCause
    /\ result.outcome = "Panic" => status = "Panic"

LEMMA FCrashInvInit == FInit => FCrashInv
BY DEF FInit, RInit, FCrashInv, NoResult

\* The case and its data never change, so neither does the cause.
LEMMA CrashCauseStable ==
    ASSUME CrashCause, UNCHANGED <<fcase, d>>
    PROVE  CrashCause'
BY DEF CrashCause, Args, Const, WasmMul, WasmSub

\* The one host call of prepare panics only with its cause.
LEMMA FuzzCallPanics ==
    ASSUME FInv, FuzzCall, status' = "Panic"
    PROVE  CrashCause'
<1>1. /\ fcase = "read_calldata" => Args(fcase)[1] \in I64
      /\ fcase = "read_external_data" => Args(fcase)[3] \in I64
    BY ArgsType DEF FInv
<1>2. status = "running" /\ UNCHANGED <<fcase, d>>
    BY DEF FuzzCall, CallImport, DoQuery, DoFallibleQuery, DoReadCalldata,
           DoReadExternalData, HostCall
<1>3. CASE fcase \in InfallibleQueries /\ DoQuery(fcase)
    BY <1>2, <1>3 DEF DoQuery
<1>4. CASE fcase \in FallibleQueries /\ DoFallibleQuery(fcase)
    BY <1>2, <1>4, EnvAssumption DEF DoFallibleQuery, Trap
<1>5. CASE fcase = "read_calldata" /\ DoReadCalldata(Args(fcase)[1])
  <2>1. Args(fcase)[1] < 0 \/ RangePanics(Args(fcase)[1])
      BY <1>1, <1>5, CopyToGuestPanics DEF DoReadCalldata
  <2>2. CrashCause
      BY <1>5, <2>1 DEF CrashCause
  <2>3. QED
      BY <1>2, <2>2, CrashCauseStable
<1>6. CASE fcase = "read_external_data" /\ DoReadExternalData(Args(fcase)[3])
  <2>1. Args(fcase)[3] < 0 \/ RangePanics(Args(fcase)[3])
      BY <1>1, <1>6, CopyToGuestPanics DEF DoReadExternalData
  <2>2. CrashCause
      BY <1>6, <2>1 DEF CrashCause
  <2>3. QED
      BY <1>2, <2>2, CrashCauseStable
<1>7. QED
    BY <1>3, <1>4, <1>5, <1>6 DEF FuzzCall, CallImport

LEMMA FCrashInvStep ==
    ASSUME FInv, FCrashInv, [FNext]_fvars
    PROVE  FCrashInv'
<1> USE DEF FCrashInv
<1>1. UNCHANGED <<fcase, d>>
    BY DEF FNext, FInstantiate, FRunnerStep, FuzzBlock, FuzzTrap, FuzzCall,
           FuzzReturn, fvars
<1>2. CASE FInstantiate
    BY <1>1, <1>2, CrashCauseStable DEF FInstantiate, Instantiate, Finish, vars
<1>3. CASE FRunnerStep
  <2>1. CASE SetWasmerInstance
      BY <1>1, <2>1, CrashCauseStable DEF SetWasmerInstance
  <2>2. CASE ResolveEntry
      BY <1>1, <2>2, CrashCauseStable DEF ResolveEntry, Finish, vars
  <2>3. CASE Classify
      BY <1>1, <2>3, CrashCauseStable DEF Classify, Finish, vars
  <2>4. QED
      BY <1>3, <2>1, <2>2, <2>3 DEF FRunnerStep
<1>4. CASE FuzzBlock
    BY <1>4 DEF FuzzBlock, MeteredBlock
<1>5. CASE FuzzTrap
    BY <1>5 DEF FuzzTrap, GuestTrap
<1>6. CASE FuzzReturn
    BY <1>6 DEF FuzzReturn, GuestReturn
<1>7. CASE FuzzCall
  <2>1. status' = "Panic" => CrashCause'
      BY <1>7, FuzzCallPanics
  <2>2. result.outcome # "Panic"
      BY <1>7 DEF FuzzCall, FInv, RInv, NoEarlyResult, NoResult
  <2>3. QED
      BY <1>7, <2>1, <2>2 DEF FuzzCall
<1>8. CASE UNCHANGED fvars
    BY <1>1, <1>8, CrashCauseStable DEF fvars, rvars, vars
<1>9. QED
    BY <1>2, <1>3, <1>4, <1>5, <1>6, <1>7, <1>8 DEF FNext

\* For every width, memory size, span size and fuzzed value, with or
\* without overflow checks, libfuzzer sees run panic only in a
\* read_calldata or read_external_data case whose computed pointer is
\* negative or overflows require_mem_range's i64 add.
THEOREM FuzzCrashOnlyOnBadPointerInvariant == FSpec => []FuzzCrashOnlyOnBadPointer
<1>1. FInit => FInv /\ FCrashInv
    BY FInvInit, FCrashInvInit
<1>2. FInv /\ FCrashInv /\ [FNext]_fvars => FInv' /\ FCrashInv'
    BY FInvInductive, FCrashInvStep
<1>3. FCrashInv => FuzzCrashOnlyOnBadPointer
    BY DEF FCrashInv, CrashCause, FuzzCrashOnlyOnBadPointer
<1>4. QED
    BY <1>1, <1>2, <1>3, PTL DEF FSpec
=============================================================================
