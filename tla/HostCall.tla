------------------------------ MODULE HostCall ------------------------------
(***************************************************************************)
(* The host-call ABI of one Owasm invocation (packages/vm/src).            *)
(*                                                                         *)
(* State of the Environment of vm.rs: the metering points of the live      *)
(* instance (remaining / exhausted, read and written through               *)
(* get_gas_left / set_gas_left) and the ContextData back-reference to the  *)
(* instance (link).  State of the guest: its linear memory.  State the     *)
(* host's Env observes: the buffers passed to Env::set_return_data and     *)
(* Env::ask_external_data.                                                 *)
(*                                                                         *)
(* The guest is untrusted, so it is modelled as an arbitrary program: at   *)
(* each step it runs a metered basic block, calls one of the twelve        *)
(* imports of create_import_object with any i64 arguments, returns, or     *)
(* traps.  The Env supplied by the host is arbitrary as well, within its   *)
(* contract (buffers no longer than the span size).                        *)
(***************************************************************************)
EXTENDS MachineInt, Sequences, SequencesExt

CONSTANTS
    SpanSize,        \* Env::get_span_size(), fixed for a request
    MemBytes,        \* memory.size().bytes() of the instance's memory
    MemExported,     \* the instance exports a memory
    GasLimit,        \* metering points the entry call starts with
    GasQuantum,      \* what do_gas debits per call (12_500_000 in the source)
    BlockCosts,      \* costs the metering middleware charges per basic block
    Bytes,           \* values of a memory cell or of an Env buffer byte
    Ids,             \* eid / did values the guest passes to ask_external_data
    EnvErrors,       \* errors an Env method may return
    OverflowChecks,  \* TRUE: arithmetic overflow panics (debug build)
    MaxCalls         \* bound on the host calls of one invocation

ASSUME SpanAssumption == SpanSize \in Nat
\* A wasm32 memory (at most 4 GiB) plus a span is far below i64::MAX.
ASSUME MemAssumption == MemBytes \in Nat /\ MemBytes + SpanSize < HalfWord
ASSUME GasAssumption ==
    /\ GasLimit \in U64
    /\ GasQuantum \in U64
    /\ BlockCosts \subseteq U64 \ {0}
\* An Env error is a variant of the Error enum: never the running state,
\* never a normal return of the guest, never the Ok of a run's result, and
\* never a panic (which is no value of the enum).
ASSUME EnvAssumption ==
    /\ "running" \notin EnvErrors
    /\ "returned" \notin EnvErrors
    /\ "Ok" \notin EnvErrors
    /\ "Panic" \notin EnvErrors
    /\ MemExported \in BOOLEAN
    /\ OverflowChecks \in BOOLEAN
    /\ MaxCalls \in Nat

VARIABLES
    remaining,  \* metering global: remaining points
    exhausted,  \* metering global: points exhausted
    link,       \* ContextData.wasmer_instance is Some(..)
    mem,        \* the guest's linear memory, byte address -> byte
    status,     \* "running", "returned", or how the guest stopped
    returned,   \* buffers Env::set_return_data received, in order
    asks,       \* requests Env::ask_external_data received, in order
    calls,      \* host calls made so far (bounded by MaxCalls)
    charged,    \* ghost: gas the guest has been charged so far
    last        \* ghost: the last host call and its pointer arguments

vars == <<remaining, exhausted, link, mem, status, returned, asks,
          calls, charged, last>>

Addr == 0 .. MemBytes - 1

\* Buffers an Env hands back (calldata, external data): at most SpanSize.
EnvData == BoundedSeq(Bytes, SpanSize)

\* The errors of error.rs an invocation can stop with.
TypedErrors == {"OutOfGasError", "MemoryOutOfBoundError",
                "BadMemorySectionError", "SpanTooSmallError", "RunError"}
               \cup EnvErrors

\* "Panic": a Rust panic inside an import closure, which is not a typed
\* error and unwinds out of the engine.
Status == {"running", "returned", "Panic"} \cup TypedErrors

Imports == {"gas", "get_span_size", "read_calldata", "set_return_data",
            "get_ask_count", "get_min_count", "get_prepare_time",
            "get_execute_time", "get_ans_count", "ask_external_data",
            "get_external_data_status", "read_external_data"}

\* Imports that only return an Env value and cannot fail.
InfallibleQueries == {"get_span_size", "get_ask_count", "get_min_count",
                      "get_prepare_time"}

\* Imports that return an Env value or the Env's error.
FallibleQueries == {"get_execute_time", "get_ans_count",
                    "get_external_data_status"}

\* Imports that touch guest memory.
MemoryImports == {"read_calldata", "set_return_data", "ask_external_data",
                  "read_external_data"}

Ask == [eid : Ids, did : Ids, data : Seq(Bytes)]

TypeOK ==
    /\ remaining \in U64
    /\ exhausted \in BOOLEAN
    /\ link \in BOOLEAN
    /\ mem \in [Addr -> Bytes]
    /\ status \in Status
    /\ returned \in Seq(Seq(Bytes))
    /\ asks \in Seq(Ask)
    /\ calls \in 0 .. MaxCalls
    /\ charged \in Nat
    /\ last \in [op : Imports \cup {"none"}, ptr : I64, len : I64]

-----------------------------------------------------------------------------
(* Environment (vm.rs)                                                     *)

\* get_gas_left: MeteringPoints::Exhausted reads as 0.
GasLeft == IF exhausted THEN 0 ELSE remaining

\* Environment::memory(): the instance must be linked and export a memory.
HasMemory == link /\ MemExported

\* require_mem_range(memory.size().bytes(), (ptr + span_size) as usize)
RangeEnd(ptr) == AsUsize(WrapI64(ptr + SpanSize))
RangePanics(ptr) == OverflowChecks /\ AddOverflowsI64(ptr, SpanSize)
\* Variant with an off-by-one bound (a plausible bug in require_mem_range).
RangeOKOffByOne(ptr) == MemBytes + 1 >= RangeEnd(ptr)
\* Variant that rejects a span ending exactly at the end of memory.
RangeOKStrict(ptr) == MemBytes > RangeEnd(ptr)
\* Variant that checks where the span starts, not where it ends.
RangeOKStartOnly(ptr) == MemBytes >= AsUsize(ptr)
RangeOK(ptr) == MemBytes >= RangeEnd(ptr)

\* A host call that stops the guest with outcome s and changes nothing else.
Trap(s) ==
    /\ status' = s
    /\ UNCHANGED <<remaining, exhausted, link, mem, returned, asks, charged>>

\* The checks every memory-touching import makes, in their order:
\* env.memory()? then require_mem_range(..)?.
MemoryCheckFails(ptr) ==
    \/ ~link /\ Trap("BadMemorySectionError")
    \/ link /\ ~MemExported /\ Trap("MemoryOutOfBoundError")
    \/ HasMemory /\ RangePanics(ptr) /\ Trap("Panic")
    \/ HasMemory /\ ~RangePanics(ptr) /\ ~RangeOK(ptr)
       /\ Trap("MemoryOutOfBoundError")

MemoryCheckPasses(ptr) == HasMemory /\ ~RangePanics(ptr) /\ RangeOK(ptr)

\* The write loop `memory.view()[ptr as usize + idx].set(byte)`: byte i of
\* the Env buffer goes to address (ptr as usize + i - 1); the usize add
\* panics on overflow in a debug build and wraps otherwise, and indexing
\* past the view panics.  Bytes before the first bad index are written.
WriteAddr(ptr, i) == (AsUsize(ptr) + i - 1) % WordSize
WriteBad(ptr, i) ==
    \/ OverflowChecks /\ AsUsize(ptr) + i - 1 >= WordSize
    \/ WriteAddr(ptr, i) >= MemBytes
WriteReaches(ptr, i) == \A j \in 1 .. i : ~WriteBad(ptr, j)
WritePanics(ptr, data) == \E i \in 1 .. Len(data) : WriteBad(ptr, i)
Written(ptr, data) ==
    [a \in Addr |->
        LET i == ((a - AsUsize(ptr)) % WordSize) + 1
        IN  IF i <= Len(data) /\ WriteReaches(ptr, i) THEN data[i] ELSE mem[a]]

\* The read `memory.view()[ptr as usize..(ptr + len) as usize]`: the i64
\* add may overflow, and a reversed or out-of-view range panics.
SliceStart(ptr) == AsUsize(ptr)
SliceStop(ptr, len) == AsUsize(WrapI64(ptr + len))
SlicePanics(ptr, len) ==
    \/ OverflowChecks /\ AddOverflowsI64(ptr, len)
    \/ SliceStart(ptr) > SliceStop(ptr, len)
    \/ SliceStop(ptr, len) > MemBytes
\* Variant that reads the slice one byte late (a plausible indexing bug).
GuestBytesShifted(ptr, len) ==
    [i \in 1 .. SliceStop(ptr, len) - SliceStart(ptr) |->
        mem[(SliceStart(ptr) + i) % MemBytes]]
GuestBytes(ptr, len) ==
    [i \in 1 .. SliceStop(ptr, len) - SliceStart(ptr) |->
        mem[SliceStart(ptr) + i - 1]]

-----------------------------------------------------------------------------
(* Import closures (imports.rs)                                            *)

\* Every import is entered from the running guest; the ghost `last` records
\* which one and with which pointer and length.
HostCall(op, ptr, len) ==
    /\ status = "running"
    /\ calls < MaxCalls
    /\ calls' = calls + 1
    /\ last' = [op |-> op, ptr |-> ptr, len |-> len]

\* Variants of do_gas, each a plausible bug: the debit without the
\* `gas_used > gas_left` check, with a plain subtraction or saturating.
DoGasUnchecked ==
    /\ HostCall("gas", 0, 0)
    /\ \/ ~link /\ Trap("Panic")
       \/ /\ link
          /\ remaining' = GasLeft - GasQuantum
          /\ exhausted' = FALSE
          /\ charged' = charged + GasQuantum
          /\ UNCHANGED <<link, mem, status, returned, asks>>

DoGasSaturating ==
    /\ HostCall("gas", 0, 0)
    /\ \/ ~link /\ Trap("Panic")
       \/ /\ link
          /\ remaining' = SaturatingSub(GasLeft, GasQuantum)
          /\ exhausted' = FALSE
          /\ charged' = charged + GasQuantum
          /\ UNCHANGED <<link, mem, status, returned, asks>>

\* do_gas: decrease_gas_left(12500000), ignoring the guest's argument.
\* get_gas_left and set_gas_left `expect` the instance link.
DoGas ==
    /\ HostCall("gas", 0, 0)
    /\ \/ ~link /\ Trap("Panic")
       \/ link /\ GasQuantum > GasLeft /\ Trap("OutOfGasError")
       \/ /\ link
          /\ GasQuantum <= GasLeft
          /\ remaining' = SaturatingSub(GasLeft, GasQuantum)
          /\ exhausted' = FALSE
          /\ charged' = charged + GasQuantum
          /\ UNCHANGED <<link, mem, status, returned, asks>>

\* do_get_span_size, do_get_ask_count, do_get_min_count, do_get_prepare_time
DoQuery(op) ==
    /\ HostCall(op, 0, 0)
    /\ UNCHANGED <<remaining, exhausted, link, mem, status, returned, asks,
                   charged>>

\* do_get_execute_time, do_get_ans_count, do_get_external_data_status:
\* the Env's error, if any, becomes the trap cause.
DoFallibleQuery(op) ==
    /\ HostCall(op, 0, 0)
    /\ \/ UNCHANGED <<remaining, exhausted, link, mem, status, returned,
                      asks, charged>>
       \/ \E e \in EnvErrors : Trap(e)

\* do_read_calldata and do_read_external_data: check the span, ask the Env
\* for the buffer, copy it into guest memory.
CopyIn(ptr, data) ==
    /\ mem' = Written(ptr, data)
    /\ status' = IF WritePanics(ptr, data) THEN "Panic" ELSE "running"
    /\ UNCHANGED <<remaining, exhausted, link, returned, asks, charged>>

CopyToGuest(ptr) ==
    \/ MemoryCheckFails(ptr)
    \/ /\ MemoryCheckPasses(ptr)
       /\ \/ \E e \in EnvErrors : Trap(e)
          \/ \E data \in EnvData : CopyIn(ptr, data)

DoReadCalldata(ptr) ==
    HostCall("read_calldata", ptr, 0) /\ CopyToGuest(ptr)

\* eid and vid only select the Env's answer, which is arbitrary here.
DoReadExternalData(ptr) ==
    HostCall("read_external_data", ptr, 0) /\ CopyToGuest(ptr)

\* do_set_return_data and do_ask_external_data: the span-size check comes
\* first, then the memory checks, then the slice read.
SpanCheckFails(ptr, len) ==
    \/ len > SpanSize /\ Trap("SpanTooSmallError")
    \/ len <= SpanSize /\ MemoryCheckFails(ptr)
    \/ len <= SpanSize /\ MemoryCheckPasses(ptr) /\ SlicePanics(ptr, len)
       /\ Trap("Panic")

\* Variant that forgets the `len > span_size` check (a plausible bug).
SpanReadableNoSpanCheck(ptr, len) ==
    MemoryCheckPasses(ptr) /\ ~SlicePanics(ptr, len)

SpanReadable(ptr, len) ==
    len <= SpanSize /\ MemoryCheckPasses(ptr) /\ ~SlicePanics(ptr, len)

\* The Env receives the buffer and answers Ok (the guest runs on) or an
\* error (the guest traps with it).
EnvAnswers == status' \in {"running"} \cup EnvErrors

DoSetReturnData(ptr, len) ==
    /\ HostCall("set_return_data", ptr, len)
    /\ \/ SpanCheckFails(ptr, len)
       \/ /\ SpanReadable(ptr, len)
          /\ returned' = Append(returned, GuestBytes(ptr, len))
          /\ EnvAnswers
          /\ UNCHANGED <<remaining, exhausted, link, mem, asks, charged>>

DoAskExternalData(eid, did, ptr, len) ==
    /\ HostCall("ask_external_data", ptr, len)
    /\ \/ SpanCheckFails(ptr, len)
       \/ /\ SpanReadable(ptr, len)
          /\ asks' = Append(asks, [eid |-> eid, did |-> did,
                                   data |-> GuestBytes(ptr, len)])
          /\ EnvAnswers
          /\ UNCHANGED <<remaining, exhausted, link, mem, returned, charged>>

-----------------------------------------------------------------------------
(* The guest                                                               *)

\* The metering middleware at the head of a basic block: not enough points
\* marks them exhausted and traps, otherwise the cost is deducted.
MeteredBlock(cost) ==
    /\ status = "running"
    /\ \/ /\ remaining < cost
          /\ exhausted' = TRUE
          /\ status' = "OutOfGasError"
          /\ UNCHANGED <<remaining, charged>>
       \/ /\ remaining >= cost
          /\ remaining' = remaining - cost
          /\ charged' = charged + cost
          /\ UNCHANGED <<exhausted, status>>
    /\ UNCHANGED <<link, mem, returned, asks, calls, last>>

\* The entry function returns, or traps on its own (unreachable, division
\* by zero, a bad indirect call).
GuestReturn ==
    /\ status = "running"
    /\ status' = "returned"
    /\ UNCHANGED <<remaining, exhausted, link, mem, returned, asks, calls,
                   charged, last>>

GuestTrap ==
    /\ status = "running"
    /\ status' = "RunError"
    /\ UNCHANGED <<remaining, exhausted, link, mem, returned, asks, calls,
                   charged, last>>

\* Any step of the running guest.
GuestStep ==
    \/ DoGas
    \/ \E op \in InfallibleQueries : DoQuery(op)
    \/ \E op \in FallibleQueries : DoFallibleQuery(op)
    \/ \E ptr \in I64 : DoReadCalldata(ptr)
    \/ \E ptr \in I64 : DoReadExternalData(ptr)
    \/ \E ptr, len \in I64 : DoSetReturnData(ptr, len)
    \/ \E eid, did \in Ids, ptr, len \in I64 :
          DoAskExternalData(eid, did, ptr, len)
    \/ \E cost \in BlockCosts : MeteredBlock(cost)
    \/ GuestReturn
    \/ GuestTrap

-----------------------------------------------------------------------------
(* The entry call on its own, as the unit tests of imports.rs set it up:   *)
(* the instance linked and the points set to the gas limit.                *)

Init ==
    /\ remaining = GasLimit
    /\ exhausted = FALSE
    /\ link = TRUE
    /\ mem \in [Addr -> Bytes]
    /\ status = "running"
    /\ returned = <<>>
    /\ asks = <<>>
    /\ calls = 0
    /\ charged = 0
    /\ last = [op |-> "none", ptr |-> 0, len |-> 0]

Next == GuestStep

Spec == Init /\ [][Next]_vars

-----------------------------------------------------------------------------
(* Properties                                                              *)

\* A host call stepped (the metering steps and the guest's own return or
\* trap are not host calls).
HostCalled == calls' = calls + 1

\* The guest cannot run on credit (spec 4.5, "gas semantics"; 8.2): while
\* the points are not exhausted, the points left and the gas the guest has
\* been charged by metered blocks and do_gas add up to the limit, and the
\* points are only ever exhausted by the trap that stops the guest.  A
\* do_gas that let the debit underflow, or forgot to store it, breaks this.
GasConserved ==
    /\ ~exhausted => remaining + charged = GasLimit
    /\ exhausted => status = "OutOfGasError"

\* Spec 4.5 rule 2 and 8.3: a memory-touching import whose span
\* [ptr, ptr + span_size) runs past the end of memory stops the guest with
\* MemoryOutOfBoundError, also when ptr + span_size overflows i64 (a release
\* build wraps it; the property is stated for that build).
OutOfRangeIsMemoryOutOfBound ==
    [][ HostCalled /\ last'.op \in MemoryImports /\ HasMemory
        /\ last'.len <= SpanSize /\ last'.ptr + SpanSize > MemBytes
        => status' = "MemoryOutOfBoundError" ]_vars

\* The buffer the Env receives from set_return_data or ask_external_data:
\* the last entry of the Env's log, if the step added one.
NewEnvBuffer ==
    IF Len(returned') > Len(returned) THEN Last(returned')
                                      ELSE Last(asks').data

\* What the host's Env receives through set_return_data and
\* ask_external_data (spec 4.5 rules 2-4): exactly the guest bytes
\* [ptr, ptr + len) at the time of the call, with len at most span_size and
\* the whole span [ptr, ptr + span_size) inside guest memory.
EnvReceivesGuestSpan ==
    [][ Len(returned') > Len(returned) \/ Len(asks') > Len(asks) =>
        /\ 0 <= last'.ptr /\ last'.ptr + SpanSize <= MemBytes
        /\ Len(NewEnvBuffer) = last'.len /\ last'.len <= SpanSize
        /\ \A i \in 1 .. Len(NewEnvBuffer) :
              NewEnvBuffer[i] = mem[last'.ptr + i - 1] ]_vars

\* In a release build the host panics only through the sign bug of the
\* memory imports (imports.rs lines 42, 63, 126): the last call touched
\* memory with a negative pointer or a negative length.  A call with both
\* non-negative either passes require_mem_range and stays within memory,
\* or traps with a typed error.
PanicOnlyOnNegativeArgs ==
    status = "Panic" =>
        /\ last.op \in MemoryImports
        /\ last.ptr < 0 \/ last.len < 0

\* Spec 7: a memory-bounds violation inside an import is turned into a
\* typed error; no import closure ever panics the host, whatever i64
\* arguments the guest passes.
HostNeverPanics == status # "Panic"

\* Spec 4.5 rule 1: when the instance exports no memory, a memory-touching
\* import (past the span-size check) fails with BadMemorySectionError.
NoMemoryIsBadMemorySection ==
    [][ HostCalled /\ last'.op \in MemoryImports /\ link /\ ~MemExported
        /\ last'.len <= SpanSize
        => status' = "BadMemorySectionError" ]_vars
-----------------------------------------------------------------------------
(* Refinement of the invocation's contract                                 *)

\* The host-call ABI seen through the contract of Invocation: the points
\* left as get_gas_left reads them, stopped once status leaves "running".
Invoked == INSTANCE Invocation WITH
    Budget <- GasLimit,
    Payloads <- BoundedSeq(Bytes, SpanSize),
    Requests <- [eid : Ids, did : Ids, data : BoundedSeq(Bytes, SpanSize)],
    left <- GasLeft,
    stopped <- status # "running",
    asked <- asks

\* Every behaviour of the imports and the metered guest is one the contract
\* allows: no import or block gives points back or charges after a stop,
\* exhaustion leaves get_gas_left at 0, the Env's logs only grow and only
\* by buffers within span_size, and no step follows the guest's end.
ImplementsInvocation == Invoked!ISpec
=============================================================================
