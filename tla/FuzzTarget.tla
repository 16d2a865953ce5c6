----------------------------- MODULE FuzzTarget -----------------------------
(***************************************************************************)
(* The fuzz target fuzz_target_1.rs composed with the runner and the       *)
(* host-call ABI.  For each of twelve imports it generates a module whose  *)
(* prepare function computes the import's i64 arguments from fuzzed u64    *)
(* constants with wasm arithmetic and calls it, then runs that module with *)
(* gas_limit u64::MAX against MockQuerier.  The cases are independent     *)
(* (a fresh cache and run each), so one behaviour is one case.  A panic of *)
(* run is what libfuzzer reports as a crash.                               *)
(***************************************************************************)
EXTENDS Runner

CONSTANT FuzzValues   \* u64 values the fuzzer puts into data[22..29]

ASSUME FuzzAssumption == FuzzValues \subseteq U64 /\ {0, 1} \subseteq Bytes

VARIABLES
    fcase,  \* the import this module calls
    d,      \* data[i] for the indices the case formats into its wat
    fpc     \* where prepare is: "entry", "args", "return", "end"

fvars == <<rvars, fcase, d, fpc>>

\* The imported_wat list.  ecvrf_verify is not in create_import_object.
Cases == {"get_span_size", "read_calldata", "set_return_data",
          "get_ask_count", "get_min_count", "get_prepare_time",
          "get_execute_time", "get_ans_count", "get_external_data_status",
          "ask_external_data", "read_external_data", "ecvrf_verify"}

\* The data indices each case formats into its module.  ecvrf_verify's
\* values never reach wasm: instantiation fails on its missing import.
Used(case) ==
    CASE case = "read_calldata"            -> 28 .. 29
      [] case = "set_return_data"          -> 26 .. 28
      [] case = "get_external_data_status" -> 26 .. 29
      [] case = "ask_external_data"        -> 26 .. 29
      [] case = "read_external_data"       -> 24 .. 29
      [] OTHER                             -> {}

\* MockQuerier: get_calldata and get_external_data both answer vec![1] and
\* no method fails; span size is the SpanSize constant (300 there).
MockData == {<<1>>}

\* (i64.const {}) of a u64: the wat parser reads it as its two's complement.
Const(i) == WrapI64(d[i])

\* Wasm i64 arithmetic: mul and sub wrap; div_s traps on a zero divisor and
\* on i64::MIN / -1, and otherwise truncates toward zero.
Magnitude(x) == IF x < 0 THEN -x ELSE x
WasmMul(a, b) == WrapI64(a * b)
WasmSub(a, b) == WrapI64(a - b)
DivTraps(a, b) == b = 0 \/ (a = -HalfWord /\ b = -1)
WasmDivS(a, b) ==
    IF (a < 0) = (b < 0) THEN Magnitude(a) \div Magnitude(b)
                         ELSE -(Magnitude(a) \div Magnitude(b))

\* The arguments each case pushes before its call 0 (the ones the callee
\* reads; traps are in ArgsTrap).
Args(case) ==
    CASE case = "read_calldata" -> <<WasmMul(Const(28), Const(29))>>
      [] case = "read_external_data" ->
             <<0, WasmMul(Const(26), Const(27)), WasmSub(Const(28), Const(29))>>
      [] OTHER -> <<>>

\* Evaluating the arguments traps: every div_s the case's wat contains.
ArgsTrap(case) ==
    CASE case = "set_return_data"   -> DivTraps(Const(28), 0)
      [] case = "ask_external_data" ->
             DivTraps(0, Const(28)) \/ DivTraps(Const(29), 0)
      [] case = "get_external_data_status" -> DivTraps(Const(26), Const(27))
      [] case = "read_external_data"       -> DivTraps(Const(24), Const(25))
      [] OTHER -> FALSE

\* call 0: the import the case names, with the arguments it pushed.
CallImport(case, args) ==
    \/ case \in InfallibleQueries /\ DoQuery(case)
    \/ case \in FallibleQueries /\ DoFallibleQuery(case)
    \/ case = "read_calldata" /\ DoReadCalldata(args[1])
    \/ case = "read_external_data" /\ DoReadExternalData(args[3])

\* compile(&wasm).unwrap() succeeds; a fresh Cache; run(..., u64::MAX,
\* true, MockQuerier): the runner's initial state with prepare exported.
FInit ==
    /\ RInit
    /\ module = [start |-> FALSE, entry |-> TRUE]
    /\ mem = [a \in Addr |-> 0]   \* a fresh linear memory is zeroed
    /\ GasLimit = WordSize - 1
    /\ fcase \in Cases
    /\ d \in [Used(fcase) -> FuzzValues]
    /\ fpc = "entry"

\* get_instance: fails exactly for the module importing ecvrf_verify.
FInstantiate ==
    /\ Instantiate
    /\ pc' = "done" <=> fcase = "ecvrf_verify"
    /\ UNCHANGED <<fcase, d, fpc>>

\* The body of prepare is one metered block.
FuzzBlock ==
    /\ pc = "running" /\ fpc = "entry"
    /\ \E c \in BlockCosts : MeteredBlock(c)
    /\ fpc' = "args"
    /\ UNCHANGED <<module, pc, result, fcase, d>>

FuzzTrap ==
    /\ pc = "running" /\ fpc = "args"
    /\ ArgsTrap(fcase)
    /\ GuestTrap
    /\ fpc' = "end"
    /\ UNCHANGED <<module, pc, result, fcase, d>>

FuzzCall ==
    /\ pc = "running" /\ fpc = "args"
    /\ ~ArgsTrap(fcase)
    /\ CallImport(fcase, Args(fcase))
    /\ fpc' = "return"
    /\ UNCHANGED <<module, pc, result, fcase, d>>

\* drop, end of prepare.
FuzzReturn ==
    /\ pc = "running" /\ fpc = "return"
    /\ GuestReturn
    /\ fpc' = "end"
    /\ UNCHANGED <<module, pc, result, fcase, d>>

FRunnerStep ==
    /\ SetWasmerInstance \/ ResolveEntry \/ Classify
    /\ UNCHANGED <<fcase, d, fpc>>

FNext ==
    \/ FInstantiate
    \/ FRunnerStep
    \/ FuzzBlock
    \/ FuzzTrap
    \/ FuzzCall
    \/ FuzzReturn

FSpec == FInit /\ [][FNext]_fvars

-----------------------------------------------------------------------------
\* What libfuzzer can report: run panics only in a read_calldata or a
\* read_external_data case, and only because the pointer prepare computed
\* for it is negative (the write loop indexes past the view at
\* ptr as usize) or, in a debug build, ptr + span_size overflows i64 in
\* require_mem_range.  No other import and no in-range pointer panics.
FuzzCrashOnlyOnBadPointer ==
    result.outcome = "Panic" =>
        /\ fcase \in {"read_calldata", "read_external_data"}
        /\ LET ptr == IF fcase = "read_calldata" THEN Args(fcase)[1]
                                                ELSE Args(fcase)[3]
           IN  ptr < 0 \/ RangePanics(ptr)

\* libfuzzer's oracle: no fuzz input makes run panic.
FuzzNeverCrashes == result.outcome # "Panic"
=============================================================================
