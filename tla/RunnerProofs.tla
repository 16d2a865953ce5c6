---------------------------- MODULE RunnerProofs ----------------------------
(***************************************************************************)
(* Proofs about the runner of Runner for every value of the constants:     *)
(* run returns Ok(u) only with u the gas the guest was charged and at most *)
(* gas_limit (ReportedGasIsCharged).  The guest steps are those of         *)
(* HostCall, so the step lemmas of HostCallProofs carry over.              *)
(***************************************************************************)
EXTENDS Runner, HostCallProofs

\* No result before run returns.
NoEarlyResult == pc # "done" => result = NoResult

\* The inductive strengthening of ReportedGasIsCharged.
RInv == TypeOK /\ GasConserved /\ NoEarlyResult /\ ReportedGasIsCharged

LEMMA RInvInit == RInit => RInv
<1> SUFFICES ASSUME RInit PROVE RInv
    OBVIOUS
<1>1. CallTypeOK
  <2>1. last \in [op : Imports \cup {"none"}, ptr : I64, len : I64]
      BY ConstantFacts DEF RInit
  <2>2. QED
      BY <2>1, ConstantFacts DEF RInit, CallTypeOK
<1>2. StateTypeOK
  <2>1. returned \in Seq(Seq(Bytes)) /\ asks \in Seq(Ask)
      BY EmptySeq DEF RInit
  <2>2. status \in Status
      BY DEF RInit, Status
  <2>3. QED
      BY <2>1, <2>2, ConstantFacts DEF RInit, StateTypeOK
<1>3. GasConserved /\ NoEarlyResult /\ ReportedGasIsCharged
    BY ConstantFacts DEF RInit, GasConserved, NoEarlyResult,
                         ReportedGasIsCharged, NoResult, U64
<1>4. QED
    BY <1>1, <1>2, <1>3, TypeOKSplit DEF RInv

\* A runner step that only moves pc and result keeps the guest's state.
LEMMA RunnerStepKeepsGuest ==
    ASSUME TypeOK, GasConserved, UNCHANGED vars
    PROVE  TypeOK' /\ GasConserved'
BY DEF vars, TypeOK, GasConserved

\* A step of the guest leaves the runner's pc and result alone.
LEMMA GuestRunsInv ==
    ASSUME RInv, GuestRuns
    PROVE  RInv'
<1>1. TypeOK' /\ GasConserved'
    BY TypeStep, GasStep DEF RInv, GuestRuns, Next
<1>2. pc # "done" /\ result = NoResult
    BY DEF RInv, GuestRuns, NoEarlyResult
<1>3. QED
    BY <1>1, <1>2
    DEF RInv, GuestRuns, NoEarlyResult, ReportedGasIsCharged, NoResult

\* The start function returned: the guest runs on from status "running".
LEMMA StartFinishedInv ==
    ASSUME RInv, StartFinished
    PROVE  RInv'
<1>1. status \in Status \ {"running"}
    BY DEF StartFinished, RInv, TypeOK
<1>2. TypeOK'
    BY <1>1 DEF StartFinished, RInv, TypeOK, Status
<1>3. GasConserved'
  <2>1. CASE status = "returned" /\ status' = "running"
      BY <2>1 DEF StartFinished, RInv, GasConserved
  <2>2. CASE UNCHANGED status
      BY <2>2 DEF StartFinished, RInv, GasConserved
  <2>3. QED
      BY <2>1, <2>2 DEF StartFinished
<1>4. NoEarlyResult' /\ ReportedGasIsCharged'
    BY DEF StartFinished, RInv, NoEarlyResult, ReportedGasIsCharged, Finish
<1>5. QED
    BY <1>2, <1>3, <1>4 DEF RInv

\* Classification: Ok(gas_limit - remaining) is the charged total.
LEMMA ClassifyInv ==
    ASSUME RInv, Classify
    PROVE  RInv'
<1>1. TypeOK' /\ GasConserved'
    BY RunnerStepKeepsGuest DEF Classify, RInv
<1>2. NoEarlyResult'
    BY DEF Classify, Finish, NoEarlyResult
<1>3. ASSUME ~exhausted, status = "returned",
             Finish("Ok", GasLimit - remaining)
      PROVE  ReportedGasIsCharged'
  <2>1. remaining + charged = GasLimit /\ remaining \in U64 /\ charged \in Nat
      BY <1>3 DEF RInv, GasConserved, TypeOK
  <2>2. GasLimit - remaining = charged /\ charged <= GasLimit
      BY <2>1, ConstantFacts DEF U64
  <2>3. QED
      BY <1>3, <2>2 DEF Classify, vars, Finish, ReportedGasIsCharged
<1>4. ASSUME Finish("OutOfGasError", 0) PROVE ReportedGasIsCharged'
    BY <1>4 DEF Finish, ReportedGasIsCharged
<1>5. ASSUME status \notin {"OutOfGasError", "returned"}, Finish(status, 0)
      PROVE  ReportedGasIsCharged'
  <2>1. status # "Ok"
      BY EnvAssumption DEF RInv, TypeOK, Status, TypedErrors
  <2>2. QED
      BY <1>5, <2>1 DEF Finish, ReportedGasIsCharged
<1>6. ReportedGasIsCharged'
    BY <1>3, <1>4, <1>5 DEF Classify
<1>7. QED
    BY <1>1, <1>2, <1>6 DEF RInv

LEMMA RInvInductive == RInv /\ [RNext]_rvars => RInv'
<1> SUFFICES ASSUME RInv, [RNext]_rvars PROVE RInv'
    OBVIOUS
<1>1. CASE Instantiate \/ SetWasmerInstance \/ ResolveEntry
  <2>1. TypeOK' /\ GasConserved'
    <3>1. CASE Instantiate \/ ResolveEntry
        BY <3>1, RunnerStepKeepsGuest DEF Instantiate, ResolveEntry, RInv
    <3>2. CASE SetWasmerInstance
        BY <3>2 DEF SetWasmerInstance, RInv, TypeOK, GasConserved
    <3>3. QED
        BY <1>1, <3>1, <3>2
  <2>2. NoEarlyResult' /\ ReportedGasIsCharged'
      BY <1>1 DEF Instantiate, SetWasmerInstance, ResolveEntry, Finish, vars,
                  RInv, NoEarlyResult, ReportedGasIsCharged
  <2>3. QED
      BY <2>1, <2>2 DEF RInv
<1>2. CASE GuestRuns
    BY <1>2, GuestRunsInv
<1>3. CASE StartFinished
    BY <1>3, StartFinishedInv
<1>4. CASE Classify
    BY <1>4, ClassifyInv
<1>5. CASE UNCHANGED rvars
    BY <1>5 DEF rvars, vars, RInv, TypeOK, GasConserved, NoEarlyResult,
                ReportedGasIsCharged
<1>6. QED
    BY <1>1, <1>2, <1>3, <1>4, <1>5 DEF RNext

\* Spec 8.2 for every gas limit and any module: run returns Ok(u) only with
\* u the gas charged by the start function and the entry, and u <= gas_limit.
THEOREM ReportedGasIsChargedInvariant == RSpec => []ReportedGasIsCharged
<1>1. RInv => ReportedGasIsCharged
    BY DEF RInv
<1>2. QED
    BY <1>1, RInvInit, RInvInductive, PTL DEF RSpec
-----------------------------------------------------------------------------
(* Type correctness of the runner                                          *)

\* The runner's own variables are well typed; with TypeOK this is RTypeOK.
RunnerState ==
    /\ module \in [start : BOOLEAN, entry : BOOLEAN]
    /\ pc \in {"instantiate", "start", "publish", "entry", "running", "done"}
    /\ result \in [outcome : Outcomes \cup {"none"}, gasUsed : U64]

LEMMA RunnerStateInit == RInit => RunnerState
BY ConstantFacts DEF RInit, RunnerState, NoResult

\* Every result run finishes with names an outcome and a u64 gas_used: a
\* trap cause is a typed error or a panic, and Ok's gas_used is the charged
\* total, within gas_limit by the invariant RInv.
LEMMA RunnerStateStep ==
    ASSUME RInv, RunnerState, [RNext]_rvars, RInv'
    PROVE  RunnerState'
<1>1. CASE Instantiate \/ SetWasmerInstance \/ ResolveEntry \/ StartFinished
    BY <1>1, ConstantFacts
    DEF Instantiate, SetWasmerInstance, ResolveEntry, StartFinished, Finish,
        RunnerState, Outcomes, TypedErrors
<1>2. CASE GuestRuns
    BY <1>2 DEF GuestRuns, RunnerState
<1>3. CASE Classify
  <2>1. module' = module /\ pc' = "done"
      BY <1>3 DEF Classify, Finish
  <2>2. status \in Status \ {"running"}
      BY <1>3 DEF Classify, RInv, TypeOK
  <2>3. result'.outcome = "Ok" => result'.gasUsed \in U64
    <3>1. GasLimit \in U64
        BY ConstantFacts
    <3>2. charged' \in Nat
        BY DEF RInv, TypeOK
    <3>3. result'.outcome = "Ok" => result'.gasUsed = charged'
                                  /\ charged' <= GasLimit
        BY DEF RInv, ReportedGasIsCharged
    <3>4. charged' <= GasLimit => charged' \in U64
        BY <3>1, <3>2, ConstantFacts DEF U64
    <3>5. QED
        BY <3>3, <3>4
  <2>4. result' \in [outcome : Outcomes \cup {"none"}, gasUsed : U64]
      BY <1>3, <2>2, <2>3, ConstantFacts
      DEF Classify, Finish, Outcomes, Status, TypedErrors
  <2>5. QED
      BY <2>1, <2>4 DEF RunnerState
<1>4. CASE UNCHANGED rvars
    BY <1>4 DEF rvars, RunnerState
<1>5. QED
    BY <1>1, <1>2, <1>3, <1>4 DEF RNext

\* run's phase, the module it was given and its result are always well
\* typed, for every gas limit and any module: every outcome it can return
\* is one of Ok, InstantiationError, Panic or a typed error.
THEOREM RTypeCorrect == RSpec => []RTypeOK
<1>1. RInit => RInv /\ RunnerState
    BY RInvInit, RunnerStateInit
<1>2. RInv /\ RunnerState /\ [RNext]_rvars => RInv' /\ RunnerState'
    BY RInvInductive, RunnerStateStep
<1>3. RInv /\ RunnerState => RTypeOK
    BY DEF RInv, RunnerState, RTypeOK
<1>4. QED
    BY <1>1, <1>2, <1>3, PTL DEF RSpec
=====
