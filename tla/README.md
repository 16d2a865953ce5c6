# Formal models of the Owasm VM

TLA+ models of the Owasm virtual machine in `src/packages/vm/src`: the
host-call ABI (the twelve import closures of `imports.rs`), the
`Environment` and `VMLogic` of `vm.rs`, and the runner lifecycle around them,
composed with the guests of this repository (the fuzz target, the `silly`
chaintest) and the `execute` average of the `cryptocompare_price` example.
TLC model-checks them on small instances. TLAPS proves, for every value of
the constants, the type invariant and gas conservation of the host-call
model, that it implements an abstract invocation contract, that `run`
reports exactly the gas charged, and the `VMLogic` overrun invariant.

## 1. The system and its parts (inventory)

| Part | Source | State | Operations | Model |
|---|---|---|---|---|
| Env capability | `vm.rs` 10-33 (trait) | the host's data: span size, calldata, external data, what it received | 11 methods, 6 of them fallible | nondeterministic inside `HostCall` |
| VMLogic | `vm.rs` 35-67 | `gas_limit`, `gas_used` (u64) | `new`, `consume_gas`, `out_of_gas` | `VMLogic` |
| Environment / ContextData | `vm.rs` 69-193 | `Arc<Mutex<VMLogic>>`, `Arc<RwLock<ContextData>>`, which holds an `Option` link to the instance | `set_wasmer_instance`, `get_gas_left`, `set_gas_left`, `decrease_gas_left`, `memory` | `HostCall` (link, points), `Runner` (publishing) |
| Import closures | `imports.rs` 8-209 | none of their own; they read and write guest memory and call the Env | `do_gas` and 11 `do_*` closures; `require_mem_range` | `HostCall`, one action per import |
| Metering middleware | wasmer (not under `src/`) | the remaining-points and exhausted globals of the instance | debit per basic block; trap on exhaustion | `MeteredBlock`, from spec 4.3/4.5 |
| Runner `run` | `lib.rs` (not under `src/`) | phase of the invocation | steps 1-9 of spec 4.6; classification of spec 7 | `Runner`, from the spec |
| Cache | `cache.rs` (not under `src/`) | LRU map of instances | `new`, `get_instance` | not yet |
| Store / compiler | `store.rs`, `compile.rs` (not under `src/`) | none | `compile` | not modelled: validation and JIT are out of TLC's reach |
| Guests | `examples/.../logic.rs`, `chaintests/silly` | guest memory | `prepare`, `execute` | arbitrary in `HostCall`; `SillyGuest` for `silly`; `PriceAverage` for the example's `execute` |
| Fuzz target | `vm/fuzz/fuzz_targets/fuzz_target_1.rs` | the fuzzed `[u64; 30]` | one `run` per generated guest | `FuzzTarget` |

How the parts interact. `run` builds an `Environment` and its `ContextData`
with the link empty. It binds a clone of the `Environment` into every import
closure and instantiates the module from the cache. It then publishes the
instance into `ContextData` (`set_wasmer_instance`) and calls the entry.

While the entry runs, the guest makes two kinds of host step:

- The metering middleware debits every basic block from the instance's
  points. It also calls the `gas` import, which debits a fixed 12,500,000
  through `decrease_gas_left`: a read of the points, then a write.
- The memory imports resolve the memory through the link. They check the
  span with `require_mem_range`, and then either copy Env bytes into guest
  memory or copy guest bytes out to the Env.

Errors become traps carrying a typed cause. A Rust panic inside a closure
(an `expect`, an out-of-bounds index, or an overflow in a debug build) is
not a trap. It unwinds out of the host.

The behaviours that make this code hard to test:

- arithmetic at the edges of `i64` and `usize` in the range checks, for
  negative, huge and overflowing pointers and lengths;
- the ordering of the span check, the Env call and the write loop;
- gas kept in two places (the metering globals and `VMLogic`);
- the lifecycle order: the link is empty until after instantiation, so a
  start function runs without it;
- the classification priority of spec 7.

Execution is single-threaded within an invocation (spec 5). The mutexes are
uncontended, so there is no interleaving of threads to model. The
"interleaving" is the guest's free choice of host calls and metered blocks,
in any order.

## 2. Modules

- `MachineInt`: machine integers of width `Width` (2^Width plays the part of
  2^64). It provides `I64`, `U64`, the wrapping `i64` add, the `as usize`
  conversion, and the saturating add and subtract.
  - With `Width = 4`, `i64` is -8..7 and `usize` is 0..15. The sign,
    overflow and wrap cases of the real code all occur.
  - `OverflowChecks` chooses a debug build (overflow panics) or a release
    build (overflow wraps).
- `HostCall` is the core: one invocation of a running instance. Variables:
  - `remaining` and `exhausted`: the metering globals, read by
    `get_gas_left` and written by `set_gas_left`;
  - `link`: `ContextData.wasmer_instance` is `Some`;
  - `mem`: the guest's linear memory;
  - `status`: `"running"`, `"returned"`, a typed error, or `"Panic"`;
  - `returned` and `asks`: the buffers the Env received;
  - the bound counter `calls`, and the ghosts `charged` (gas charged so far)
    and `last` (the last host call and its arguments).

  Actions:
  - `DoGas`: `do_gas` and `decrease_gas_left`, including the `expect`
    panic when the link is empty;
  - `DoQuery`: the four infallible queries;
  - `DoFallibleQuery`: the three fallible queries, where an Env error
    becomes the trap cause;
  - `DoReadCalldata` and `DoReadExternalData`: `memory()`, then
    `require_mem_range` with the wrapped `ptr + span_size`, then the Env
    call, then the byte-by-byte write loop, which can panic part-way;
  - `DoSetReturnData` and `DoAskExternalData`: the `len > span_size`
    check, `memory()`, the range check, the slice read (which panics when
    start > end or end > size), then the Env call;
  - `MeteredBlock`, `GuestReturn` and `GuestTrap`: the guest's own steps.

  The guest chooses every pointer and length from all of `I64`.
- `Runner` extends `HostCall` with the lifecycle of spec 4.6:
  - `Instantiate`, which may run a start function;
  - `StartFinished`;
  - `SetWasmerInstance`;
  - `ResolveEntry`;
  - `GuestRuns`, which runs the `HostCall` steps while the start function
    or the entry runs;
  - `Classify`, which applies the priority of spec 7 and computes
    `gas_used = gas_limit - remaining`.
- `VMLogic` models `VMLogic::new` and `consume_gas` (with the saturating
  add at the word size) and `out_of_gas`. Nothing in `imports.rs` calls
  `consume_gas`, so it is a component on its own.
- `Invocation` is the abstract contract of one invocation. It has four
  variables: the points `left`, `stopped`, and the Env's logs `returned` and
  `asked`. Its actions:
  - `Charge` takes some points;
  - `Halt` stops the invocation, leaving either the points as they are or
    none;
  - `Return(p)` and `Request(r)` append a buffer of at most `span_size`
    bytes to a log, and may stop the invocation.

  `HostCall` instantiates it as `Invoked`, mapping:
  - `left` to `GasLeft`, the points as `get_gas_left` reads them (0 once
    exhausted);
  - `stopped` to `status # "running"`;
  - `asked` to `asks`.
- `FuzzTarget` extends `Runner` with the fuzz loop of `fuzz_target_1.rs`.
  - `fcase` is the generated guest, and `d` the fuzzed constants it
    uses.
  - `Args` computes the import's arguments, with the `i64.const` reading of
    a `u64` and wrapping `i64.mul` / `i64.sub`.
  - `ArgsTrap` is the `i64.div_s` trap on a zero divisor or on
    `i64::MIN / -1`.
  - `CallImport` calls the import on the `MockQuerier`, whose answers are
    fixed (`MockData`).
  - The `ecvrf_verify` guest imports a function the import object does not
    provide, so its instantiation always fails (`FInstantiate`).
  - `set_return_data` and `ask_external_data` always divide by a constant
    0, so their import is never reached.
- `SillyGuest` extends `Runner` with the two entries of
  `chaintests/silly`, written as straight-line programs of metered blocks
  and raw imports.
  - `prepare` makes two `ask_external_data` calls with slices of its data
    segment.
  - `execute` runs `oei::get_external_data(1, 0).unwrap()`:
    `get_external_data_status`, the unwrap trap, `get_span_size`, then
    `read_external_data`. It then calls `save_return_data`.
  - The `oei` wrappers are not in this repository; their import sequence is
    modelled from spec 6.
  - Each instruction is an action (`SillyAsk`, `SillyStatus`, `SillyUnwrap`,
    `SillyRead`, ...). Each one uses the `HostCall` action of its import
    unchanged.
- `PriceAverage` models `execute` of `cryptocompare_price/src/logic.rs`.
  - `AccStep` is one iteration of `time_stamp_acc += each.time_stamp`: a
    panic on u64 overflow with `OverflowChecks`, a wrap without it.
  - `TimeStampAcc` is the loop, written as `FoldLeft`.
  - `Execute` adds the division by `data.len()`, which panics on an empty
    data set.
  - The reports are every sequence of up to `MaxReports` records.
  - The f32 price path is left out: it cannot panic, because an empty
    average is NaN and the cast gives 0.
- The proof modules are:
  - `HostCallProofs`, `InvocationProofs` and `RunnerProofs` (TLAPS proofs
    about `HostCall` and `Runner`);
  - `SillyGuestProofs` and `FuzzTargetProofs` (about the two guest
    compositions, reusing the runner's invariant);
  - `VMLogicProofs`.
- `MCHostCall`, `MCRunner`, `MCVMLogic`, `MCFuzzTarget`, `MCSillyGuest` and
  `MCPriceAverage` give the constants TLC uses.

## 3. Runs

| Run | Expect | Checks |
|---|---|---|
| `hostcall` (`MCHostCall.cfg`) | pass | `TypeOK`; `GasConserved`; `PanicOnlyOnNegativeArgs`; `OutOfRangeIsMemoryOutOfBound`; `EnvReceivesGuestSpan` |
| `hostcall_panic` (`MCHostCallPanic.cfg`) | violation | `HostNeverPanics` |
| `hostcall_no_memory` (`MCHostCallNoMemory.cfg`) | violation | `NoMemoryIsBadMemorySection` |
| `hostcall_refinement` (`MCHostCallRefinement.cfg`) | pass | `ImplementsInvocation` |
| `runner` (`MCRunner.cfg`) | pass | `RTypeOK`; `ReportedGasIsCharged` |
| `vmlogic` (`MCVMLogic.cfg`) | pass | `LTypeOK`; `OverrunReported` |
| `fuzz` (`MCFuzzTarget.cfg`) | pass | `FuzzCrashOnlyOnBadPointer` |
| `fuzz_crash` (`MCFuzzTargetCrash.cfg`) | violation | `FuzzNeverCrashes` |
| `silly` (`MCSillyGuest.cfg`) | pass | `SillyAsksInOrder`; `SillyOkMeansComplete` |
| `silly_scenario` (`MCSillyScenario.cfg`) | pass | `SillyScenario6` |
| `price_average` (`MCPriceAverage.cfg`) | pass | `AverageMatchesReference`; `ExecutePanicsOnlyWhenUndefined` |
| `price_average_release` (`MCPriceAverageRelease.cfg`) | violation | `AverageWithinRange` |

The properties:

- `GasConserved`: while the points are not exhausted, the points left and
  the gas charged add up to `gas_limit`. Exhaustion always comes with
  `OutOfGasError`. A `do_gas` that underflows, saturates without its guard,
  or loses the write breaks it.
- `PanicOnlyOnNegativeArgs`: in a release build, the host panics only in
  a memory import called with a negative `ptr` or a negative `len`. This
  is the bug that `hostcall_panic` exhibits, and this property says it is
  the only way a guest can panic the host: with both non-negative, a call
  either passes `require_mem_range` and stays inside memory, or traps with
  a typed error. An off-by-one in `require_mem_range` would break it.
- `OutOfRangeIsMemoryOutOfBound` (spec 8.3): a memory import whose span
  runs past memory stops the guest with `MemoryOutOfBoundError`. This
  includes the case where `ptr + span_size` wraps (release build).
- `EnvReceivesGuestSpan`: whenever the Env receives a buffer, the buffer is
  exactly the guest bytes `[ptr, ptr+len)`, and that range lies inside
  memory and within the span.
- `ImplementsInvocation`: every behaviour of the host-call model, including
  the ones that panic, is a behaviour of `Invocation` under the mapping
  above. In particular:
  - no step gives points back;
  - exhaustion reads as 0 points left;
  - nothing happens after the guest stops;
  - the Env's logs grow only by appending buffers of at most `span_size`
    bytes.
- `ReportedGasIsCharged` (spec 8.2): `Ok(u)` implies that `u` is exactly
  the gas charged, across the start function and the entry, and that
  `u <= gas_limit`.
- `OverrunReported`: for `gas_limit < u64::MAX`, `consume_gas` answers Ok
  only if the total consumed is within the limit.
- `FuzzCrashOnlyOnBadPointer`: in the debug build that `cargo fuzz` uses,
  `run` panics only in a `read_calldata` or `read_external_data` guest.
  The pointer `prepare` computed for it must be negative, or
  `ptr + span_size` must overflow `i64` in `require_mem_range`. No query,
  no `div_s` trap and no pointer that passed the range check crashes the
  host. This says exactly which fuzz inputs libfuzzer reports (see
  `fuzz_crash`). A range check that looks only at where the span starts
  breaks it: a pointer of `d28 * d29 = memory size` then reaches the write
  loop and panics.
- `SillyAsksInOrder`: the Env's asks are always a prefix of the two
  expected asks, with the exact bytes of the data segment. This holds
  whatever trap cuts the run short.
- `SillyOkMeansComplete`: `run` returns Ok only after a complete entry.
  - For `prepare`, both asks were made.
  - For `execute`, the Env received exactly one of its own answers back.
- `SillyScenario6` (spec scenario 6): with enough gas and an Env that never
  fails, `prepare` returns Ok after exactly the two asks.
- `AverageMatchesReference`: when `execute` returns, its timestamp is the
  floor of the mathematical average.
- `ExecutePanicsOnlyWhenUndefined`: `execute` panics only in two cases:
  - on an empty data set;
  - when the true sum exceeds `u64::MAX`.

Every property of a passing run has a mutant in `PROJECT.json` that TLC
catches:

- `DoGas` without its guard, or saturating instead of failing;
- `require_mem_range` off by one, or without its span check;
- the `len > span_size` check dropped;
- the slice read shifted by one;
- the points reset when the instance is published;
- `consume_gas` wrapping, or unbounded;
- `require_mem_range` checking only where the span starts;
- `run`'s classification with errors reported as Ok;
- the timestamp loop one report short, or its overflow check off by one.

**Findings.**

1. `hostcall_panic` (code bug). With `ptr` in `[-span_size, 0)`,
   `(ptr + span_size) as usize` is at most the memory size, so
   `require_mem_range` passes. The write `memory.view()[ptr as usize + idx]`
   (`imports.rs:42`, `:159`) then panics. The slices at `:63` and `:126`
   panic for a negative `ptr` or a negative `len`; a negative `len` passes
   the `len > span_size` check. Spec 7 says bounds violations become typed
   traps. TLC's trace is a single `read_calldata(-2)`.
2. `hostcall_no_memory` (spec/code divergence). With no memory export,
   `Environment::memory` returns `MemoryOutOfBoundError` (`vm.rs:188`).
   Spec 4.5 rule 1 says `BadMemorySectionError`.
3. `fuzz_crash` (code bug, found by the fuzz target's own inputs). The
   `read_calldata` guest passes `ptr = d28 * d29`. That pointer can lie
   within `span_size` of `i64::MAX`, so `ptr + span_size` at
   `imports.rs:37` overflows, and a debug build panics in the host. TLC's
   trace uses `d28 = 1`, `d29 = 7` with a 4-bit word.
4. `price_average_release` (code bug). In a release build,
   `time_stamp_acc += each.time_stamp` (`logic.rs:30`) wraps. `execute` then
   returns an average outside the reported range: reports 1 and 15 average
   to 0 with a 4-bit word. The unit test (lines 44-53) reads the result as
   an average. A debug build panics instead (`price_average` shows that
   this is the only other failure).

**Bounds.** MCHostCall uses these constants:

- `Width = 4`; span 2; memory of 4 bytes; bytes {0, 1};
- gas limit 5; quantum 2; block costs {1, 2};
- one Env error; at most 2 host calls, plus any number of metered blocks.

These are enough to exercise every branch:

- negative pointers;
- `ptr + span` equal to the memory size, and one more;
- `i64` wrap;
- a `usize` write past memory;
- the `len > span`, `len = span`, `len < 0` and `len = 0` cases;
- exhaustion by a block or by `do_gas`;
- two calls in sequence, for example a write and then a read of the same
  bytes.

The refinement run uses the same instance (about 800,000 states).

The other instances:

- **MCRunner** has the same constants with one byte value, and every
  module shape (with and without a start function, with and without an
  entry).
- **MCVMLogic** uses width 5 and limits {0, 12, 30, 31}, so
  `u64::MAX` = 31 is among them.
- **MCFuzzTarget** uses:
  - a gas limit equal to `u64::MAX`, as the fuzz target passes it;
  - constants {0, 1, 7, 8, 14, 15}. These cover a zero divisor,
    `i64::MIN / -1`, a positive or negative wrap of a product, and a
    pointer next to `i64::MAX`.
- **MCSillyGuest** has a gas limit of 5 with block costs {1, 2}, so every
  block of either entry can exhaust the gas. It has one Env error and two
  data ids.
- **MCSillyScenario** gives every block cost 1 and no Env error. Its span
  is 3, so the answers of up to 3 bytes all fit.
- **MCPriceAverage** takes every sequence of up to 3 reports with 4-bit
  timestamps. This covers the empty set, a single report, and overflow on
  the second or the third report.

**Fairness.** `run` executes the entry synchronously to its end (spec 5).
Nothing else runs inside an invocation, and an enabled host or guest step is
taken. So the silly guest's specification `SSpec` assumes weak fairness
of its whole next-state relation, and `SillyScenario6` rests on it. The
fuzz target's properties are safety properties, so `FSpec` assumes no
fairness.

`CHECK_DEADLOCK FALSE` is set where an invocation really does stop:
- after `run` has returned its result;
- in `HostCall`, after a return, a trap, or reaching the call bound.

The `HostCall` and `Runner` runs check safety only: their guest is
arbitrary and may loop through blocks until the gas runs out.

## 4. What is proved

All the theorems hold for every width, span size, memory size and gas
constants that satisfy the `ASSUME`s of `MachineInt` and `HostCall`.

**`HostCallProofs`.**

- `TypeCorrect`: `Spec => []TypeOK`. Its step is the lemma `TypeStep`,
  which rests on lemmas about the helper operators:
  - the write loop stores only bytes (`WrittenType`);
  - the slice read yields a byte sequence when it does not panic
    (`GuestBytesType`);
  - Env buffers are byte sequences;
  - a trap, or a failed memory or span check, keeps the state well typed.
- `GasConservedInvariant`: `Spec => []GasConserved`. `GasConserved` is
  inductive relative to `TypeOK` (lemma `GasStep`). Every import and guest
  step needs `status = "running"`, and `GasConserved` makes that imply "not
  exhausted". So every step except `do_gas` and a metered block leaves the
  metering untouched (lemma `NeutralSteps`). The two metering steps keep
  `remaining + charged = gas_limit`, because they debit only when the
  points suffice.

**`InvocationProofs`.**

- `RefinesInvocation`: `Spec => Invoked!ISpec`. This is the refinement
  that `hostcall_refinement` checks.
- The proof has the usual form:
  - initial states map to `IInit`;
  - under `TypeOK /\ GasConserved`, each `HostCall` step is an
    `Invocation` step or a stutter.
- `GasConserved` is what makes a metered step a `Charge`. A debit happens
  only when the points suffice, and otherwise it exhausts them, which is a
  `Halt` to 0.
- A `do_gas` with quantum 0 is a stutter (lemma `HiddenStutters`).
- A trap, a panic, or a failed check is a `Halt` (lemmas `TrapHalts` and
  `MemoryCheckFailsHalts`, among others).
- `set_return_data` and `ask_external_data` are a `Return` and a `Request`.
  Their payload lies in `BoundedSeq(Bytes, SpanSize)` by the lemma
  `GuestBytesBounded`. That lemma rests on the mod-arithmetic lemmas
  `ModInRange`, `ModBelowRange` and `AsUsizeI64`, which say that for an
  in-range pointer the `as usize` conversions are the identity.
- `EnvReceivesGuestSpanHolds`: `Spec => EnvReceivesGuestSpan`, the action
  property of the `hostcall` run. The lemma `SliceWithinMemory` says a slice
  that passed the checks is `[ptr, ptr + len)` with `0 <= ptr`. The lemma
  `RangeEndExact` says `require_mem_range`'s end is then exactly
  `ptr + span_size` (no wrap, since `MemBytes + SpanSize < 2^(Width-1)`).
  `GuestSpanExact` combines them: the buffer has `len` bytes, namely
  `mem[ptr .. ptr + len - 1]`. Every other step, and the failing branches
  of the two imports, leave `returned` and `asks` alone
  (`SpanCheckFailsKeepsLogs`). Only `TypeOK` is needed as an invariant.
- `OutOfRangeIsMemoryOutOfBoundHolds`: `Spec => OutOfRangeIsMemoryOutOfBound`
  for a release build. The key lemma is `RangeEndOutOfMemory`: for every
  i64 `ptr` with `ptr + span_size > MemBytes`, the end that
  `require_mem_range` computes is also above `MemBytes`. Its proof splits
  into two cases:
  - no wrap: `ptr + span_size <= i64::MAX`. If the sum is negative,
    `as usize` adds `2^Width`;
  - a wrap: the i64 sum is negative, and `as usize` restores the true sum.
- `PanicOnlyOnNegativeArgsInvariant`: `Spec => []PanicOnlyOnNegativeArgs`
  for a release build. The invariant is inductive relative to `TypeOK`
  once it is strengthened with `link = TRUE` (`PanicInv`): the instance
  stays linked, so `do_gas` cannot panic on a missing link. The memory
  facts are three lemmas:
  - `RangeOKWithin`: a passed range check means
    `ptr + span_size <= MemBytes`, whatever the sign of `ptr`;
  - `WriteWithinMemory`: for `ptr >= 0`, the write loop never indexes past
    memory for any buffer within `span_size`;
  - `SliceNoPanic`: for `ptr, len >= 0`, the slice never panics.
  TLC checked the property on the `hostcall` run first.

**`RunnerProofs`.**

- `ReportedGasIsChargedInvariant`: `RSpec => []ReportedGasIsCharged`.
- The inductive invariant `RInv` is the conjunction of:
  - `TypeOK`;
  - `GasConserved`;
  - `NoEarlyResult` (no result before `run` has finished);
  - `ReportedGasIsCharged`.
- `NoEarlyResult` is needed because a guest step must not touch a result
  already reported.
- The guest's steps reuse `TypeStep` and `GasStep`.
- `Classify` computes `gas_limit - remaining`. By `GasConserved` this
  equals `charged`.
- TLC checked `RInv` as an invariant of the runner instance first.
- `RTypeCorrect`: `RSpec => []RTypeOK`, from `RInv /\ RunnerState`.
  `RInv` is needed for `Classify`: the `gasUsed` of an Ok result is
  `charged <= gas_limit` by `ReportedGasIsCharged`, hence a u64.

**`SillyGuestProofs`.**

- `SillyAsksInOrderInvariant` and `SillyOkMeansCompleteInvariant`.
- The inductive invariant is `SInv == RInv /\ SillyState`.
- The lemma `SillyIsRunner` shows that every step of the silly guest is a
  runner step, so `RInv` carries over from `RInvInductive`.
- `SillyState` ties the Env's logs to the guest's program counter:
  - in prepare, `asks` is the prefix of the expected asks that has
    `AsksIssued(gpc)` elements, or one fewer while an ask has just failed.
    Which one it is is fixed by the status.
  - in execute, nothing is asked, and `returned` holds one Env answer once
    past the return instruction.
  - `status = "returned"` only at the end of the program.
  - an Ok result only after the guest returned.
- `SillyAsksInOrder` alone is not inductive: without the link to `gpc`,
  a state with one ask issued could issue the first ask again.
- The memory facts rest on `SegmentSlices`: with the data segment in
  memory, the two slices the guest reads are `<<1, 1>>` and `<<0>>` and do
  not panic, for every width and memory size allowed.
- TLC checked `SInv` first, on the constants of both silly runs, without an
  exported memory, and with overflow checks.

**`FuzzTargetProofs`.**

- `FuzzCrashOnlyOnBadPointerInvariant`: `FSpec => []FuzzCrashOnlyOnBadPointer`.
  It holds for every width, memory size, span size and fuzzed value, and
  in both builds: `OverflowChecks` is left free.
- The inductive invariant is `FInv /\ FCrashInv`:
  - `FInv == RInv /\ RunnerState /\ FuzzState` carries the runner's
    invariant over. The lemma `FuzzIsRunner` shows every fuzz step is a
    runner step. It needs `ArgsType`: the pointers that `i64.mul` and
    `i64.sub` compute from the fuzzed constants are i64 values.
  - `FCrashInv` says that the generated module has no start function,
    that a host panic comes with its cause (`CrashCause`), and that `run`
    reports a panic only if the host panicked.
- `FCrashInv` is needed because the property speaks of `run`'s result,
  while the panic happens in the guest's one host call, several steps
  earlier. `NoEarlyResult` (from `RInv`) shows that no result exists yet
  when that call is made.
- The host-call fact is `CopyToGuestPanics` in `InvocationProofs`. When
  `read_calldata` or `read_external_data` panics, its pointer is negative
  or `RangePanics` holds. It rests on `WriteWithinMemory`: a non-negative
  pointer that passed the range check is written inside memory, and its
  usize adds do not overflow, in either build.
- TLC checked the property on the debug instance first.

**`VMLogicProofs`.**

- `LTypeCorrect` and `OverrunReportedInvariant`.
- The inductive invariant `LInv` is the conjunction of:
  - the type;
  - `Saturated`: `gas_used` is the true total, capped at `u64::MAX`;
  - `AnswerAgrees`: an Ok answer means `gas_used <= gas_limit`.
- `OverrunReported` follows from `LInv` for `gas_limit < u64::MAX`.

The word assumption `WordAssumption` (2^Width is an even natural) is stated
as an `ASSUME` because the provers cannot evaluate `2 ^ Width`. TLC checks
it on every run.

`EnvAssumption` says an Env error is never `"running"`, `"returned"`,
`"Ok"` or `"Panic"`. The Env's errors are variants of the `Error` enum,
which has none of these, so the assumption holds for the code. The silly
proofs need `"returned"`: an Env error must not read as the guest's own
return. `PanicOnlyOnNegativeArgsInvariant` needs `"Panic"`: an Env error
must not read as a host panic.

The two theorems about the release build, `OutOfRangeIsMemoryOutOfBoundHolds`
and `PanicOnlyOnNegativeArgsInvariant`, take `OverflowChecks = FALSE` as
a hypothesis. This is the build the `hostcall` run checks. In a debug
build both are false: the i64 add `ptr + span_size` panics instead of
wrapping.

Only model-checked:

- the `SillyScenario6` run and the violation runs (`FuzzNeverCrashes` and
  the others), which are about one instance;
- the `PriceAverage` properties: they are about what a fold computes for
  every input, which is induction over data;
- liveness of any kind, and anything that uses `ENABLED`, which is beyond
  TLAPS here.

## 5. Not modelled

- Cache (LRU) and its concurrent use by several runners: `cache.rs` is not
  under `src/`.
- Store and compiler: WASM validation and JIT.
- Wasmer internals: a guest other than the concrete ones is an arbitrary
  program.
- The f32 price average of `cryptocompare_price`, and the `decl_*` macros'
  decoding of the reports.
- An Env that breaks its contract (buffers longer than the span): assumed
  away.

## 6. Plan for later work

1. A spec-modelled `Cache` module (bounded LRU, `get_instance` under its
   guard, several runners), with spec property 8.5.
2. A determinism check (spec 8.6): two copies of the invocation with the
   same Env answers give equal `gas_used` and return data.
3. Proofs about a debug build for an arbitrary guest: `ptr + span_size`
   panics there when it overflows, so the release-build `HostCall`
   theorems need a counterpart that allows this one panic. The fuzz
   target's theorem already covers both builds.
4. Termination of an arbitrary guest by gas exhaustion: this needs a model
   in which every loop iteration costs a block.
