------------------------------- MODULE Runner -------------------------------
(***************************************************************************)
(* The runner `run(cache, code, gas_limit, is_prepare, env)` around the    *)
(* host-call ABI of HostCall.  The runner's source (lib.rs) and the cache  *)
(* (cache.rs) are not part of this source tree, so the lifecycle below is  *)
(* modelled from spec 4.4, 4.6 and 7; the guest steps it runs are those of *)
(* HostCall, translated from vm.rs and imports.rs.                         *)
(*                                                                         *)
(* Instantiation runs the module's start function, if it has one, before   *)
(* the runner publishes the instance into ContextData: the start function  *)
(* executes with the import closures already bound and the link empty.    *)
(***************************************************************************)
EXTENDS HostCall

VARIABLES
    module,   \* the compiled module run is given: [start, entry]
    pc,       \* where the runner is
    result    \* what run returns, once pc = "done"

rvars == <<vars, module, pc, result>>

\* Outcomes of run: Ok(gas_used) or an error; "Panic" is a panic that
\* unwinds out of run instead of a value.
Outcomes == {"Ok", "InstantiationError", "Panic"} \cup TypedErrors
NoResult == [outcome |-> "none", gasUsed |-> 0]

RTypeOK ==
    /\ TypeOK
    /\ module \in [start : BOOLEAN, entry : BOOLEAN]
    /\ pc \in {"instantiate", "start", "publish", "entry", "running", "done"}
    /\ result \in [outcome : Outcomes \cup {"none"}, gasUsed : U64]

\* Steps 1-3: the store's metering starts at gas_limit; the Environment is
\* built with an empty ContextData and bound into the import closures.
RInit ==
    /\ remaining = GasLimit
    /\ exhausted = FALSE
    /\ link = FALSE
    /\ mem \in [Addr -> Bytes]
    /\ status = "running"
    /\ returned = <<>>
    /\ asks = <<>>
    /\ calls = 0
    /\ charged = 0
    /\ last = [op |-> "none", ptr |-> 0, len |-> 0]
    \* any module: with or without a start function and the entry export
    /\ module \in [start : BOOLEAN, entry : BOOLEAN]
    /\ pc = "instantiate"
    /\ result = NoResult

Finish(outcome, gasUsed) ==
    /\ pc' = "done"
    /\ result' = [outcome |-> outcome, gasUsed |-> gasUsed]

\* Step 4: cache.get_instance instantiates the artifact against the import
\* object; it fails on a missing or mistyped import, and otherwise runs the
\* start function, if any.
Instantiate ==
    /\ pc = "instantiate"
    /\ \/ Finish("InstantiationError", 0)
       \/ /\ pc' = IF module.start THEN "start" ELSE "publish"
          /\ UNCHANGED result
    /\ UNCHANGED <<vars, module>>

\* The start function has stopped: it returned (instantiation succeeds),
\* trapped (instantiation fails) or panicked inside an import.
StartFinished ==
    /\ pc = "start"
    /\ status # "running"
    /\ \/ status = "returned" /\ pc' = "publish" /\ status' = "running"
          /\ UNCHANGED result
       \/ status = "Panic" /\ Finish("Panic", 0) /\ UNCHANGED status
       \/ status \notin {"returned", "Panic"}
          /\ Finish("InstantiationError", 0) /\ UNCHANGED status
    /\ UNCHANGED <<remaining, exhausted, link, mem, returned, asks, calls,
                   charged, last, module>>

\* Variant that also resets the points to gas_limit after instantiation, as
\* the unit tests of imports.rs do with set_gas_left (a plausible bug).
SetWasmerInstanceResetGas ==
    /\ pc = "publish"
    /\ link' = TRUE
    /\ remaining' = GasLimit
    /\ pc' = "entry"
    /\ UNCHANGED <<exhausted, mem, status, returned, asks, calls,
                   charged, last, module, result>>

\* Step 5: set_wasmer_instance(Some(NonNull::from(&instance))).
SetWasmerInstance ==
    /\ pc = "publish"
    /\ link' = TRUE
    /\ pc' = "entry"
    /\ UNCHANGED <<remaining, exhausted, mem, status, returned, asks, calls,
                   charged, last, module, result>>

\* Step 6: resolve the entry export; a missing one is a RunError.
ResolveEntry ==
    /\ pc = "entry"
    /\ \/ module.entry /\ pc' = "running" /\ UNCHANGED result
       \/ ~module.entry /\ Finish("RunError", 0)
    /\ UNCHANGED <<vars, module>>

\* Variant that reports any trap but exhaustion as a normal return.
ClassifyErrorsAsOk ==
    /\ pc = "running"
    /\ status # "running"
    /\ \/ (exhausted \/ status = "OutOfGasError")
          /\ Finish("OutOfGasError", 0)
       \/ ~exhausted /\ status # "OutOfGasError"
          /\ Finish("Ok", GasLimit - remaining)
    /\ UNCHANGED <<vars, module>>

\* Steps 8-9 and spec 7: exhausted metering wins over any other cause; a
\* typed cause is returned as is; otherwise the call returned and gas_used
\* is gas_limit minus the remaining points.
Classify ==
    /\ pc = "running"
    /\ status # "running"
    /\ \/ (exhausted \/ status = "OutOfGasError")
          /\ Finish("OutOfGasError", 0)
       \/ ~exhausted /\ status = "returned"
          /\ Finish("Ok", GasLimit - remaining)
       \/ ~exhausted /\ status \notin {"OutOfGasError", "returned"}
          /\ Finish(status, 0)
    /\ UNCHANGED <<vars, module>>

\* The guest runs while the start function or the entry runs.
GuestRuns ==
    /\ pc \in {"start", "running"}
    /\ GuestStep
    /\ UNCHANGED <<module, pc, result>>

RNext ==
    \/ Instantiate
    \/ GuestRuns
    \/ StartFinished
    \/ SetWasmerInstance
    \/ ResolveEntry
    \/ Classify

RSpec == RInit /\ [][RNext]_rvars

-----------------------------------------------------------------------------
(* Properties                                                              *)

\* Spec 8.2: run returns Ok(u) only with u <= gas_limit, and u is exactly
\* the gas the guest was charged, by the start function and the entry
\* together, through metered blocks and do_gas.
ReportedGasIsCharged ==
    result.outcome = "Ok" => result.gasUsed = charged /\ charged <= GasLimit
=============================================================================
