-------------------------- MODULE InvocationProofs --------------------------
(***************************************************************************)
(* The host-call ABI implements the invocation contract of Invocation      *)
(* under the refinement mapping Invoked of HostCall, for every value of    *)
(* the constants.  The step proof needs the type invariant and the half   *)
(* of GasConserved that says a running guest's points are not exhausted.  *)
(***************************************************************************)
EXTENDS HostCallProofs

\* A step that changes none of the contract's variables.
Hidden ==
    /\ GasLeft' = GasLeft
    /\ (status' # "running") = (status # "running")
    /\ returned' = returned
    /\ asks' = asks

LEMMA HiddenStutters == Hidden => UNCHANGED Invoked!ivars
BY DEF Hidden, Invoked!ivars

\* A trap stops the running guest and leaves the points as they are.
LEMMA TrapHalts ==
    ASSUME status = "running", NEW s, s # "running", Trap(s)
    PROVE  Invoked!Halt
BY DEF Trap, Invoked!Halt, GasLeft

LEMMA MemoryCheckFailsHalts ==
    ASSUME status = "running", NEW ptr, MemoryCheckFails(ptr)
    PROVE  Invoked!Halt
BY TrapHalts DEF MemoryCheckFails

LEMMA SpanCheckFailsHalts ==
    ASSUME status = "running", NEW ptr, NEW len, SpanCheckFails(ptr, len)
    PROVE  Invoked!Halt
BY TrapHalts, MemoryCheckFailsHalts DEF SpanCheckFails

\* An Env error traps the guest.
LEMMA EnvErrorHalts ==
    ASSUME status = "running", NEW e \in EnvErrors, Trap(e)
    PROVE  Invoked!Halt
<1>1. e # "running"
    BY EnvAssumption
<1>2. QED
    BY <1>1, TrapHalts

\* The remainder of a value one modulus below or within range.
LEMMA ModInRange ==
    ASSUME NEW w \in Nat \ {0}, NEW x \in 0 .. w - 1
    PROVE  x % w = x
BY SMT

LEMMA ModBelowRange ==
    ASSUME NEW w \in Nat \ {0}, NEW x \in -w .. -1
    PROVE  x % w = x + w
BY SMT

\* An i64 read as usize: a negative value wraps to the top of the range.
LEMMA AsUsizeI64 ==
    ASSUME NEW x \in I64
    PROVE  AsUsize(x) = IF x >= 0 THEN x ELSE x + WordSize
<1>1. WordSize \in Nat \ {0}
    BY ConstantFacts
<1>2. CASE x >= 0
  <2>1. x \in 0 .. WordSize - 1
      BY <1>2, ConstantFacts DEF I64
  <2>2. QED
      BY <1>1, <1>2, <2>1, ModInRange DEF AsUsize
<1>3. CASE x < 0
  <2>1. x \in -WordSize .. -1
      BY <1>3, ConstantFacts DEF I64
  <2>2. QED
      BY <1>1, <1>3, <2>1, ModBelowRange DEF AsUsize
<1>4. QED
    BY <1>2, <1>3 DEF I64

\* A slice the imports read without panicking, with len at most span_size,
\* lies inside memory: both usize conversions are the identity, so it is
\* [ptr, ptr + len) with 0 <= ptr and 0 <= len.
LEMMA SliceWithinMemory ==
    ASSUME NEW ptr \in I64, NEW len \in I64, len <= SpanSize,
           ~SlicePanics(ptr, len)
    PROVE  /\ ptr \in 0 .. MemBytes /\ len \in 0 .. SpanSize
           /\ ptr + len <= MemBytes
           /\ SliceStart(ptr) = ptr /\ SliceStop(ptr, len) = ptr + len
<1> DEFINE start == SliceStart(ptr)
           stop == SliceStop(ptr, len)
<1>1. MemBytes + SpanSize < HalfWord
    BY MemAssumption
<1>2. start \in 0 .. WordSize - 1 /\ stop \in 0 .. WordSize - 1
  <2>1. ptr \in Int /\ WrapI64(ptr + len) \in Int
      BY ConstantFacts DEF I64, WrapI64
  <2>2. QED
      BY <2>1, AsUsizeType DEF SliceStart, SliceStop
<1>3. start <= stop /\ stop <= MemBytes
    BY <1>2, ConstantFacts DEF SlicePanics
<1>4. ptr \in 0 .. MemBytes /\ start = ptr
  <2>1. start = IF ptr >= 0 THEN ptr ELSE ptr + WordSize
      BY AsUsizeI64 DEF SliceStart
  <2>2. QED
      BY <1>2, <1>1, <1>3, <2>1, ConstantFacts DEF I64
<1>5. ptr + len \in I64
    BY <1>1, <1>4, ConstantFacts DEF I64
<1>6. WrapI64(ptr + len) = ptr + len
    BY <1>5, ConstantFacts DEF WrapI64, I64
<1>7. stop = ptr + len
  <2>1. stop = IF ptr + len >= 0 THEN ptr + len ELSE ptr + len + WordSize
      BY <1>5, <1>6, AsUsizeI64 DEF SliceStop
  <2>2. QED
      BY <1>1, <1>3, <1>5, <2>1, ConstantFacts DEF I64
<1>8. QED
    BY <1>3, <1>4, <1>7, ConstantFacts

\* Such a slice is a buffer of at most span_size bytes.
LEMMA GuestBytesBounded ==
    ASSUME mem \in [Addr -> Bytes], NEW ptr \in I64, NEW len \in I64,
           len <= SpanSize, ~SlicePanics(ptr, len)
    PROVE  GuestBytes(ptr, len) \in BoundedSeq(Bytes, SpanSize)
<1>1. /\ ptr \in 0 .. MemBytes /\ len \in 0 .. SpanSize /\ ptr + len <= MemBytes
      /\ SliceStop(ptr, len) - SliceStart(ptr) = len
    BY SliceWithinMemory
<1>2. \A i \in 1 .. len : SliceStart(ptr) + i - 1 \in Addr
    BY <1>1, SliceWithinMemory, ConstantFacts DEF Addr
<1>3. GuestBytes(ptr, len) \in [1 .. len -> Bytes]
    BY <1>1, <1>2 DEF GuestBytes
<1>4. QED
    BY <1>1, <1>3 DEF BoundedSeq, SeqOf

\* Copying an Env buffer into guest memory is hidden, unless it panics.
LEMMA CopyToGuestRefines ==
    ASSUME status = "running", NEW ptr, CopyToGuest(ptr)
    PROVE  Invoked!Halt \/ UNCHANGED Invoked!ivars
<1>1. CASE MemoryCheckFails(ptr)
    BY <1>1, MemoryCheckFailsHalts
<1>2. ASSUME NEW e \in EnvErrors, Trap(e) PROVE Invoked!Halt
    BY <1>2, EnvErrorHalts
<1>3. ASSUME NEW data, CopyIn(ptr, data)
      PROVE  Invoked!Halt \/ UNCHANGED Invoked!ivars
  <2>1. CASE WritePanics(ptr, data)
      BY <1>3, <2>1 DEF CopyIn, Invoked!Halt, GasLeft
  <2>2. CASE ~WritePanics(ptr, data)
      BY <1>3, <2>2, HiddenStutters DEF CopyIn, Hidden, GasLeft
  <2>3. QED
      BY <2>1, <2>2
<1>4. QED
    BY <1>1, <1>2, <1>3 DEF CopyToGuest
\* set_return_data hands the Env a buffer within span_size, or traps.
LEMMA SetReturnDataRefines ==
    ASSUME TypeOK, NEW ptr \in I64, NEW len \in I64, DoSetReturnData(ptr, len)
    PROVE  Invoked!INext
<1>1. status = "running"
    BY DEF DoSetReturnData, HostCall
<1>2. CASE SpanCheckFails(ptr, len)
    BY <1>1, <1>2, SpanCheckFailsHalts DEF Invoked!INext
<1>3. CASE /\ SpanReadable(ptr, len)
           /\ returned' = Append(returned, GuestBytes(ptr, len))
           /\ EnvAnswers
           /\ UNCHANGED <<remaining, exhausted, link, mem, asks, charged>>
  <2>1. GuestBytes(ptr, len) \in BoundedSeq(Bytes, SpanSize)
      BY <1>3, GuestBytesBounded DEF SpanReadable, TypeOK
  <2>2. Invoked!Return(GuestBytes(ptr, len))
      BY <1>1, <1>3 DEF Invoked!Return, GasLeft, EnvAnswers
  <2>3. QED
      BY <2>1, <2>2 DEF Invoked!INext
<1>4. QED
    BY <1>2, <1>3 DEF DoSetReturnData

\* ask_external_data hands the Env a request within span_size, or traps.
LEMMA AskExternalDataRefines ==
    ASSUME TypeOK, NEW eid \in Ids, NEW did \in Ids, NEW ptr \in I64,
           NEW len \in I64, DoAskExternalData(eid, did, ptr, len)
    PROVE  Invoked!INext
<1>1. status = "running"
    BY DEF DoAskExternalData, HostCall
<1>2. CASE SpanCheckFails(ptr, len)
    BY <1>1, <1>2, SpanCheckFailsHalts DEF Invoked!INext
<1>3. CASE /\ SpanReadable(ptr, len)
           /\ asks' = Append(asks, [eid |-> eid, did |-> did,
                                    data |-> GuestBytes(ptr, len)])
           /\ EnvAnswers
           /\ UNCHANGED <<remaining, exhausted, link, mem, returned, charged>>
  <2> DEFINE r == [eid |-> eid, did |-> did, data |-> GuestBytes(ptr, len)]
  <2>1. r \in [eid : Ids, did : Ids, data : BoundedSeq(Bytes, SpanSize)]
      BY <1>3, GuestBytesBounded DEF SpanReadable, TypeOK
  <2>2. Invoked!Request(r)
      BY <1>1, <1>3 DEF Invoked!Request, GasLeft, EnvAnswers
  <2>3. QED
      BY <2>1, <2>2 DEF Invoked!INext
<1>4. QED
    BY <1>2, <1>3 DEF DoAskExternalData

-----------------------------------------------------------------------------
\* The imports and the metered guest implement the invocation contract:
\* every step of the entry call is a step of Invocation or leaves the
\* points left, the stop flag and the Env's logs alone.
THEOREM RefinesInvocation == Spec => ImplementsInvocation
<1>1. Init => Invoked!IInit
    BY DEF Init, Invoked!IInit, GasLeft
<1>2. TypeOK /\ GasConserved /\ [Next]_vars
        => [Invoked!INext]_Invoked!ivars
  <2> SUFFICES ASSUME TypeOK, GasConserved, [Next]_vars
               PROVE  Invoked!INext \/ UNCHANGED Invoked!ivars
      OBVIOUS
  <2>0. status = "running" => ~exhausted
      BY DEF GasConserved
  <2>1. CASE DoGas
    <3>1. status = "running" /\ ~exhausted /\ GasLeft = remaining
        BY <2>0, <2>1 DEF DoGas, HostCall, GasLeft
    <3>2. CASE ~link /\ Trap("Panic")
        BY <3>1, <3>2, TrapHalts DEF Invoked!INext
    <3>3. CASE link /\ GasQuantum > GasLeft /\ Trap("OutOfGasError")
        BY <3>1, <3>3, TrapHalts DEF Invoked!INext
    <3>4. CASE /\ link
               /\ GasQuantum <= GasLeft
               /\ remaining' = SaturatingSub(GasLeft, GasQuantum)
               /\ exhausted' = FALSE
               /\ charged' = charged + GasQuantum
               /\ UNCHANGED <<link, mem, status, returned, asks>>
      <4>1. GasLeft' = remaining - GasQuantum
          BY <3>1, <3>4, ConstantFacts DEF TypeOK, U64, SaturatingSub, GasLeft
      <4>2. CASE GasQuantum = 0
        <5>1. Hidden
            BY <3>1, <3>4, <4>1, <4>2 DEF Hidden, TypeOK, U64
        <5>2. QED
            BY <5>1, HiddenStutters
      <4>3. CASE GasQuantum # 0
        <5>1. GasLeft' \in 0 .. GasLeft - 1
            BY <3>1, <3>4, <4>1, <4>3, ConstantFacts DEF TypeOK, U64
        <5>2. QED
            BY <3>1, <3>4, <5>1 DEF Invoked!INext, Invoked!Charge
      <4>4. QED
          BY <4>2, <4>3
    <3>5. QED
        BY <2>1, <3>2, <3>3, <3>4 DEF DoGas
  <2>2. ASSUME NEW op, DoQuery(op) PROVE UNCHANGED Invoked!ivars
      BY <2>2, HiddenStutters DEF DoQuery, Hidden, GasLeft
  <2>3. ASSUME NEW op, DoFallibleQuery(op)
        PROVE  Invoked!INext \/ UNCHANGED Invoked!ivars
    <3>1. status = "running"
        BY <2>3 DEF DoFallibleQuery, HostCall
    <3>2. QED
        BY <2>3, <3>1, EnvErrorHalts, HiddenStutters
        DEF DoFallibleQuery, Hidden, GasLeft, Invoked!INext
  <2>4. ASSUME NEW ptr, DoReadCalldata(ptr) \/ DoReadExternalData(ptr)
        PROVE  Invoked!INext \/ UNCHANGED Invoked!ivars
    <3>1. status = "running" /\ CopyToGuest(ptr)
        BY <2>4 DEF DoReadCalldata, DoReadExternalData, HostCall
    <3>2. QED
        BY <3>1, CopyToGuestRefines DEF Invoked!INext
  <2>5. ASSUME NEW cost \in BlockCosts, MeteredBlock(cost)
        PROVE  Invoked!INext
    <3>1. status = "running" /\ ~exhausted /\ cost \in 1 .. WordSize - 1
        BY <2>0, <2>5, ConstantFacts DEF MeteredBlock, U64
    <3>2. CASE remaining < cost /\ exhausted' = TRUE
               /\ status' = "OutOfGasError" /\ UNCHANGED <<remaining, charged>>
        BY <2>5, <3>1, <3>2 DEF MeteredBlock, Invoked!INext, Invoked!Halt, GasLeft
    <3>3. CASE remaining >= cost /\ remaining' = remaining - cost
               /\ charged' = charged + cost /\ UNCHANGED <<exhausted, status>>
        <4>1. GasLeft' \in 0 .. GasLeft - 1
            BY <3>1, <3>3, ConstantFacts DEF TypeOK, U64, GasLeft
        <4>2. QED
            BY <2>5, <3>1, <3>3, <4>1
            DEF MeteredBlock, Invoked!INext, Invoked!Charge
    <3>4. QED
        BY <2>5, <3>2, <3>3 DEF MeteredBlock
  <2>6. CASE GuestReturn \/ GuestTrap
    BY <2>6 DEF GuestReturn, GuestTrap, Invoked!INext, Invoked!Halt, GasLeft
  <2>7. CASE UNCHANGED vars
    BY <2>7, HiddenStutters DEF vars, Hidden, GasLeft
  <2>8. QED
    BY <2>1, <2>2, <2>3, <2>4, <2>5, <2>6, <2>7, SetReturnDataRefines,
       AskExternalDataRefines
    DEF Next, GuestStep
<1>3. QED
    BY <1>1, <1>2, TypeCorrect, GasConservedInvariant, PTL
    DEF Spec, ImplementsInvocation, Invoked!ISpec

-----------------------------------------------------------------------------
(* The Env receives the guest's span                                        *)

\* require_mem_range's end for a pointer inside memory is ptr + span_size:
\* neither the i64 add nor the usize cast changes it.
LEMMA RangeEndExact ==
    ASSUME NEW ptr \in 0 .. MemBytes
    PROVE  RangeEnd(ptr) = ptr + SpanSize
<1>1. ptr + SpanSize \in I64 /\ ptr + SpanSize >= 0
    BY MemAssumption, ConstantFacts DEF I64
<1>2. WrapI64(ptr + SpanSize) = ptr + SpanSize
    BY <1>1, ConstantFacts DEF WrapI64, I64
<1>3. QED
    BY <1>1, <1>2, AsUsizeI64 DEF RangeEnd

\* A span that passes the checks of set_return_data and ask_external_data
\* starts in memory, its whole span_size window fits, and the bytes read
\* are the len bytes from ptr on.
LEMMA GuestSpanExact ==
    ASSUME NEW ptr \in I64, NEW len \in I64, SpanReadable(ptr, len)
    PROVE  /\ 0 <= ptr /\ ptr + SpanSize <= MemBytes
           /\ Len(GuestBytes(ptr, len)) = len /\ len <= SpanSize
           /\ \A i \in 1 .. Len(GuestBytes(ptr, len)) :
                 GuestBytes(ptr, len)[i] = mem[ptr + i - 1]
<1>1. /\ ptr \in 0 .. MemBytes /\ len \in 0 .. SpanSize
      /\ SliceStart(ptr) = ptr /\ SliceStop(ptr, len) = ptr + len
    BY SliceWithinMemory DEF SpanReadable
<1>2. ptr + SpanSize <= MemBytes
    BY <1>1, RangeEndExact DEF SpanReadable, MemoryCheckPasses, RangeOK
<1>3. GuestBytes(ptr, len) = [i \in 1 .. len |-> mem[ptr + i - 1]]
    BY <1>1 DEF GuestBytes
<1>4. QED
    BY <1>1, <1>2, <1>3

\* A failed check only stops the guest: the Env's logs are untouched.
LEMMA SpanCheckFailsKeepsLogs ==
    ASSUME NEW ptr, NEW len, SpanCheckFails(ptr, len)
    PROVE  UNCHANGED <<returned, asks>>
BY DEF SpanCheckFails, MemoryCheckFails, Trap

\* One step of EnvReceivesGuestSpan.
EnvSpanStep ==
    Len(returned') > Len(returned) \/ Len(asks') > Len(asks) =>
        /\ 0 <= last'.ptr /\ last'.ptr + SpanSize <= MemBytes
        /\ Len(NewEnvBuffer) = last'.len /\ last'.len <= SpanSize
        /\ \A i \in 1 .. Len(NewEnvBuffer) :
              NewEnvBuffer[i] = mem[last'.ptr + i - 1]

\* Only the success branches of set_return_data and ask_external_data
\* grow a log, and each appends the span its own checks passed.
LEMMA EnvSpanStepHolds ==
    ASSUME TypeOK, [Next]_vars
    PROVE  EnvSpanStep
<1> SUFFICES ASSUME Len(returned') > Len(returned) \/ Len(asks') > Len(asks)
             PROVE  EnvSpanStep
    BY DEF EnvSpanStep
<1>0. returned \in Seq(Seq(Bytes)) /\ asks \in Seq(Ask)
    BY DEF TypeOK
<1>1. CASE UNCHANGED <<returned, asks>>
    BY <1>0, <1>1
<1>2. ASSUME NEW ptr \in I64, NEW len \in I64, DoSetReturnData(ptr, len)
      PROVE  EnvSpanStep
  <2>1. CASE SpanCheckFails(ptr, len)
      BY <1>0, <2>1, SpanCheckFailsKeepsLogs
  <2>2. CASE /\ SpanReadable(ptr, len)
             /\ returned' = Append(returned, GuestBytes(ptr, len))
             /\ UNCHANGED <<remaining, exhausted, link, mem, asks, charged>>
    <3>1. Len(returned') > Len(returned) /\ NewEnvBuffer = GuestBytes(ptr, len)
        BY <1>0, <2>2 DEF NewEnvBuffer, Last
    <3>2. last'.ptr = ptr /\ last'.len = len
        BY <1>2 DEF DoSetReturnData, HostCall
    <3>3. QED
        BY <2>2, <3>1, <3>2, GuestSpanExact DEF EnvSpanStep
  <2>3. QED
      BY <1>2, <2>1, <2>2 DEF DoSetReturnData
<1>3. ASSUME NEW eid \in Ids, NEW did \in Ids, NEW ptr \in I64,
             NEW len \in I64, DoAskExternalData(eid, did, ptr, len)
      PROVE  EnvSpanStep
  <2>1. CASE SpanCheckFails(ptr, len)
      BY <1>0, <2>1, SpanCheckFailsKeepsLogs
  <2>2. CASE /\ SpanReadable(ptr, len)
             /\ asks' = Append(asks, [eid |-> eid, did |-> did,
                                      data |-> GuestBytes(ptr, len)])
             /\ UNCHANGED <<remaining, exhausted, link, mem, returned, charged>>
    <3>1. ~(Len(returned') > Len(returned))
          /\ NewEnvBuffer = GuestBytes(ptr, len)
        BY <1>0, <2>2 DEF NewEnvBuffer, Last
    <3>2. last'.ptr = ptr /\ last'.len = len
        BY <1>3 DEF DoAskExternalData, HostCall
    <3>3. QED
        BY <2>2, <3>1, <3>2, GuestSpanExact DEF EnvSpanStep
  <2>3. QED
      BY <1>3, <2>1, <2>2 DEF DoAskExternalData
<1>4. ASSUME NEW ptr, CopyToGuest(ptr) PROVE UNCHANGED <<returned, asks>>
    BY <1>4 DEF CopyToGuest, MemoryCheckFails, CopyIn, Trap
<1>5. QED
    BY <1>1, <1>2, <1>3, <1>4
    DEF Next, GuestStep, DoGas, DoQuery, DoFallibleQuery, DoReadCalldata,
        DoReadExternalData, MeteredBlock, GuestReturn, GuestTrap, Trap, vars

\* The Env receives from set_return_data and ask_external_data exactly the
\* guest bytes [ptr, ptr + len) of a span that lies in memory, for every
\* memory size, span_size and word width the assumptions allow.
THEOREM EnvReceivesGuestSpanHolds == Spec => EnvReceivesGuestSpan
<1>1. TypeOK /\ [Next]_vars => [EnvSpanStep]_vars
    BY EnvSpanStepHolds
<1>2. QED
    BY <1>1, TypeCorrect, PTL DEF Spec, EnvReceivesGuestSpan, EnvSpanStep


-----------------------------------------------------------------------------
(* A span past the end of memory is a MemoryOutOfBoundError               *)

\* In a release build, require_mem_range's end for any i64 pointer is
\* ptr + span_size modulo 2^Width: a span that ends past memory is never
\* mistaken for one within it, also when the i64 add wraps.
LEMMA RangeEndOutOfMemory ==
    ASSUME NEW ptr \in I64, ptr + SpanSize > MemBytes
    PROVE  RangeEnd(ptr) > MemBytes
<1> DEFINE sum == ptr + SpanSize
<1>1. /\ WordSize \in Nat \ {0} /\ HalfWord \in Nat \ {0}
      /\ WordSize = 2 * HalfWord /\ SpanSize \in Nat /\ MemBytes \in Nat
      /\ MemBytes + SpanSize < HalfWord
    BY ConstantFacts, MemAssumption
<1>2. CASE sum <= HalfWord - 1
  <2>1. sum \in I64
      BY <1>1, <1>2 DEF I64
  <2>2. sum + HalfWord \in 0 .. WordSize - 1
      BY <1>1, <2>1 DEF I64
  <2>3. WrapI64(sum) = sum
    <3>1. (sum + HalfWord) % WordSize = sum + HalfWord
        BY <1>1, <2>2, ModInRange
    <3>2. QED
        BY <1>1, <2>1, <3>1 DEF WrapI64, I64
  <2>4. RangeEnd(ptr) = IF sum >= 0 THEN sum ELSE sum + WordSize
      BY <2>1, <2>3, AsUsizeI64 DEF RangeEnd
  <2>5. QED
      BY <1>1, <1>2, <2>1, <2>4 DEF I64
<1>3. CASE sum >= HalfWord
  <2>1. sum + HalfWord \in WordSize .. 2 * WordSize - 1
      BY <1>1, <1>3 DEF I64
  <2>2. WrapI64(sum) = sum - WordSize
    <3>0. sum \in Int
        BY <1>1 DEF I64
    <3>1. (sum + HalfWord) % WordSize = sum + HalfWord - WordSize
        BY <1>1, <2>1, <3>0
    <3>2. QED
        BY <1>1, <3>0, <3>1 DEF WrapI64
  <2>3. sum - WordSize \in I64 /\ sum - WordSize < 0
      BY <1>1, <1>3 DEF I64
  <2>4. AsUsize(sum - WordSize) = sum - WordSize + WordSize
    <3>1. ASSUME NEW y \in I64, y < 0 PROVE AsUsize(y) = y + WordSize
        BY <3>1, AsUsizeI64, ConstantFacts DEF I64
    <3>2. QED
        BY <2>3, <3>1
  <2>5. RangeEnd(ptr) = sum
      BY <1>1, <2>2, <2>3, <2>4 DEF RangeEnd, I64
  <2>6. QED
      BY <1>1, <1>3, <2>5
<1>4. QED
    BY <1>1, <1>2, <1>3 DEF I64

\* With a memory and no overflow checks, a memory check on a pointer whose
\* span ends past memory can only fail, and fails with MemoryOutOfBoundError.
LEMMA MemoryCheckOutOfRange ==
    ASSUME OverflowChecks = FALSE, HasMemory, NEW ptr \in I64,
           ptr + SpanSize > MemBytes
    PROVE  /\ ~MemoryCheckPasses(ptr)
           /\ MemoryCheckFails(ptr) => status' = "MemoryOutOfBoundError"
<1>1. RangeEnd(ptr) > MemBytes
    BY RangeEndOutOfMemory
<1>2. RangeEnd(ptr) \in Int
    BY AsUsizeType, ConstantFacts DEF RangeEnd, WrapI64, I64
<1>3. ~RangeOK(ptr)
    BY <1>1, <1>2, ConstantFacts DEF RangeOK
<1>4. QED
    BY <1>3 DEF MemoryCheckPasses, MemoryCheckFails, HasMemory, RangePanics,
                Trap

\* One step of OutOfRangeIsMemoryOutOfBound.
OutOfRangeStep ==
    HostCalled /\ last'.op \in MemoryImports /\ HasMemory
    /\ last'.len <= SpanSize /\ last'.ptr + SpanSize > MemBytes
    => status' = "MemoryOutOfBoundError"

LEMMA OutOfRangeStepHolds ==
    ASSUME OverflowChecks = FALSE, TypeOK, [Next]_vars
    PROVE  OutOfRangeStep
<1> SUFFICES ASSUME HostCalled, last'.op \in MemoryImports, HasMemory,
                    last'.len <= SpanSize, last'.ptr + SpanSize > MemBytes
             PROVE  status' = "MemoryOutOfBoundError"
    BY DEF OutOfRangeStep
<1>1. ASSUME NEW ptr \in I64, NEW len \in I64, NEW op,
             HostCall(op, ptr, len)
      PROVE  ptr + SpanSize > MemBytes /\ len <= SpanSize
    BY <1>1 DEF HostCall
<1>2. ASSUME NEW ptr \in I64, CopyToGuest(ptr), ptr + SpanSize > MemBytes
      PROVE  status' = "MemoryOutOfBoundError"
    BY <1>2, MemoryCheckOutOfRange DEF CopyToGuest
<1>3. ASSUME NEW ptr \in I64, NEW len \in I64, len <= SpanSize,
             ptr + SpanSize > MemBytes,
             SpanCheckFails(ptr, len) \/ SpanReadable(ptr, len)
      PROVE  status' = "MemoryOutOfBoundError"
  <2>1. /\ ~MemoryCheckPasses(ptr)
        /\ MemoryCheckFails(ptr) => status' = "MemoryOutOfBoundError"
      BY <1>3, MemoryCheckOutOfRange
  <2>2. ~(len > SpanSize)
      BY <1>3, ConstantFacts DEF I64
  <2>3. QED
      BY <1>3, <2>1, <2>2 DEF SpanCheckFails, SpanReadable
<1>4. CASE \E ptr \in I64 : DoReadCalldata(ptr) \/ DoReadExternalData(ptr)
    BY <1>4, <1>1, <1>2, ConstantFacts DEF DoReadCalldata, DoReadExternalData
<1>5. CASE \E ptr, len \in I64 : DoSetReturnData(ptr, len)
    BY <1>5, <1>1, <1>3 DEF DoSetReturnData
<1>6. CASE \E eid, did \in Ids, ptr, len \in I64 :
              DoAskExternalData(eid, did, ptr, len)
    BY <1>6, <1>1, <1>3 DEF DoAskExternalData
<1>7. CASE \/ DoGas
           \/ \E op \in InfallibleQueries : DoQuery(op)
           \/ \E op \in FallibleQueries : DoFallibleQuery(op)
    BY <1>7 DEF DoGas, DoQuery, DoFallibleQuery, HostCall, MemoryImports,
                InfallibleQueries, FallibleQueries
<1>8. CASE \/ \E cost \in BlockCosts : MeteredBlock(cost)
           \/ GuestReturn \/ GuestTrap \/ UNCHANGED vars
    BY <1>8 DEF MeteredBlock, GuestReturn, GuestTrap, vars, HostCalled,
                TypeOK
<1>9. QED
    BY <1>4, <1>5, <1>6, <1>7, <1>8 DEF Next, GuestStep

\* In a release build, for every memory size, span size and width, an
\* import that touches memory with a span [ptr, ptr + span_size) running
\* past the end of memory stops the guest with MemoryOutOfBoundError, also
\* when the i64 add ptr + span_size wraps around.
THEOREM OutOfRangeIsMemoryOutOfBoundHolds ==
    ASSUME OverflowChecks = FALSE
    PROVE  Spec => OutOfRangeIsMemoryOutOfBound
<1>1. TypeOK /\ [Next]_vars => [OutOfRangeStep]_vars
    BY OutOfRangeStepHolds
<1>2. QED
    BY <1>1, TypeCorrect, PTL
    DEF Spec, OutOfRangeIsMemoryOutOfBound, OutOfRangeStep


-----------------------------------------------------------------------------
(* Host panics come only from negative pointers and lengths                *)

\* require_mem_range passes only for a span [ptr, ptr + span_size) that ends
\* within memory, whatever the sign of ptr (the contrapositive of
\* RangeEndOutOfMemory).
LEMMA RangeOKWithin ==
    ASSUME NEW ptr \in I64, RangeOK(ptr)
    PROVE  ptr + SpanSize <= MemBytes
<1>1. RangeEnd(ptr) \in Int /\ ptr + SpanSize \in Int
    BY AsUsizeType, ConstantFacts DEF RangeEnd, WrapI64, I64
<1>2. QED
    BY <1>1, RangeEndOutOfMemory, ConstantFacts DEF RangeOK

\* With a non-negative pointer that passed the check, the write loop of
\* read_calldata and read_external_data stays in memory for any buffer the
\* Env may hand back, and its usize adds do not overflow.
LEMMA WriteWithinMemory ==
    ASSUME NEW ptr \in I64, ptr >= 0, RangeOK(ptr),
           NEW data \in EnvData
    PROVE  ~WritePanics(ptr, data)
<1>1. ptr \in 0 .. MemBytes /\ ptr + SpanSize <= MemBytes
    BY RangeOKWithin, ConstantFacts DEF I64
<1>2. PICK m \in 0 .. SpanSize : data \in [1 .. m -> Bytes]
    BY DEF EnvData, BoundedSeq, SeqOf
<1>3. Len(data) = m
    BY <1>2, ConstantFacts
<1>4. AsUsize(ptr) = ptr
    BY <1>1, AsUsizeI64
<1>5. ASSUME NEW i \in 1 .. Len(data) PROVE ~WriteBad(ptr, i)
  <2>1. ptr + i - 1 \in 0 .. WordSize - 1 /\ ptr + i - 1 < MemBytes
      BY <1>1, <1>3, MemAssumption, ConstantFacts
  <2>2. WriteAddr(ptr, i) = ptr + i - 1
      BY <1>4, <2>1, ModInRange, ConstantFacts DEF WriteAddr
  <2>3. ~(WriteAddr(ptr, i) >= MemBytes) /\ ~(AsUsize(ptr) + i - 1 >= WordSize)
      BY <1>4, <2>1, <2>2, ConstantFacts DEF I64
  <2>4. QED
      BY <2>3, Zenon DEF WriteBad
<1>6. QED
    BY <1>5 DEF WritePanics

\* read_calldata and read_external_data panic only on a negative pointer,
\* or in require_mem_range when ptr + span_size overflows i64: a pointer
\* that passed the check is written within memory.
LEMMA CopyToGuestPanics ==
    ASSUME NEW ptr \in I64, CopyToGuest(ptr), status' = "Panic"
    PROVE  ptr < 0 \/ RangePanics(ptr)
<1>1. CASE MemoryCheckFails(ptr)
    BY <1>1 DEF MemoryCheckFails, Trap
<1>2. CASE MemoryCheckPasses(ptr) /\ \E e \in EnvErrors : Trap(e)
    BY <1>2, EnvAssumption DEF Trap
<1>3. CASE MemoryCheckPasses(ptr) /\ \E data \in EnvData : CopyIn(ptr, data)
  <2>1. PICK data \in EnvData : CopyIn(ptr, data)
      BY <1>3
  <2>2. ptr >= 0 => ~WritePanics(ptr, data)
      BY <1>3, WriteWithinMemory DEF MemoryCheckPasses
  <2>3. ptr \in Int
      BY ConstantFacts DEF I64
  <2>4. QED
      BY <2>1, <2>2, <2>3 DEF CopyIn
<1>4. QED
    BY <1>1, <1>2, <1>3 DEF CopyToGuest

\* With a non-negative pointer and length within span_size that passed the
\* check, the slice of set_return_data and ask_external_data is in memory.
LEMMA SliceNoPanic ==
    ASSUME OverflowChecks = FALSE, NEW ptr \in I64, NEW len \in I64,
           ptr >= 0, len >= 0, len <= SpanSize, RangeOK(ptr)
    PROVE  ~SlicePanics(ptr, len)
<1>1. ptr \in 0 .. MemBytes /\ ptr + SpanSize <= MemBytes
    BY RangeOKWithin, ConstantFacts DEF I64
<1>2. ptr + len \in I64 /\ ptr + len <= MemBytes
    BY <1>1, MemAssumption, ConstantFacts DEF I64
<1>3. SliceStart(ptr) = ptr
    BY <1>1, AsUsizeI64 DEF SliceStart
<1>4. WrapI64(ptr + len) = ptr + len
    BY <1>2, ConstantFacts DEF WrapI64, I64
<1>5. SliceStop(ptr, len) = ptr + len
    BY <1>2, <1>4, AsUsizeI64, ConstantFacts DEF SliceStop, I64
<1>6. QED
    BY <1>1, <1>2, <1>3, <1>5, ConstantFacts DEF SlicePanics

\* The inductive invariant, relative to TypeOK: the instance stays linked,
\* so do_gas never panics on the missing link.
PanicInv == link = TRUE /\ PanicOnlyOnNegativeArgs

LEMMA PanicInvStep ==
    ASSUME OverflowChecks = FALSE, TypeOK, PanicInv, [Next]_vars
    PROVE  PanicInv'
<1>1. TypeOK
    OBVIOUS
<1>2. CASE UNCHANGED vars
    BY <1>2 DEF PanicInv, PanicOnlyOnNegativeArgs, vars
<1> USE DEF PanicInv
<1>3. ASSUME NEW ptr \in I64, CopyToGuest(ptr)
      PROVE  link' = link /\ (status' = "Panic" => ptr < 0)
  <2>1. CASE MemoryCheckFails(ptr)
      BY <2>1 DEF MemoryCheckFails, RangePanics, Trap
  <2>2. CASE MemoryCheckPasses(ptr) /\ \E e \in EnvErrors : Trap(e)
      BY <2>2, EnvAssumption DEF Trap
  <2>3. CASE MemoryCheckPasses(ptr) /\ \E data \in EnvData : CopyIn(ptr, data)
    <3>1. PICK data \in EnvData : CopyIn(ptr, data)
        BY <2>3
    <3>2. ptr >= 0 => ~WritePanics(ptr, data)
        BY <2>3, WriteWithinMemory DEF MemoryCheckPasses
    <3>3. ptr \in Int
        BY ConstantFacts DEF I64
    <3>4. QED
        BY <3>1, <3>2, <3>3 DEF CopyIn
  <2>4. QED
      BY <1>3, <2>1, <2>2, <2>3 DEF CopyToGuest
<1>4. ASSUME NEW ptr \in I64, NEW len \in I64, SpanCheckFails(ptr, len)
      PROVE  link' = link /\ (status' = "Panic" => ptr < 0 \/ len < 0)
  <2>1. ASSUME ptr >= 0, len >= 0, len <= SpanSize, MemoryCheckPasses(ptr)
        PROVE  ~SlicePanics(ptr, len)
      BY <2>1, SliceNoPanic DEF MemoryCheckPasses
  <2>2. link' = link
      BY <1>4 DEF SpanCheckFails, MemoryCheckFails, Trap
  <2>3. status' = "Panic" =>
            len <= SpanSize /\ MemoryCheckPasses(ptr) /\ SlicePanics(ptr, len)
      BY <1>4 DEF SpanCheckFails, MemoryCheckFails, RangePanics, Trap
  <2>4. QED
      BY <2>1, <2>2, <2>3, ConstantFacts DEF I64
<1>5. CASE \E ptr \in I64 : DoReadCalldata(ptr) \/ DoReadExternalData(ptr)
  <2>1. PICK ptr \in I64 : DoReadCalldata(ptr) \/ DoReadExternalData(ptr)
      BY <1>5
  <2>2. /\ CopyToGuest(ptr)
        /\ last'.op \in MemoryImports /\ last'.ptr = ptr
      BY <2>1 DEF DoReadCalldata, DoReadExternalData, HostCall, MemoryImports
  <2>3. QED
      BY <1>3, <2>2 DEF PanicOnlyOnNegativeArgs
<1>6. ASSUME NEW op \in MemoryImports, NEW ptr \in I64, NEW len \in I64,
             HostCall(op, ptr, len),
             \/ SpanCheckFails(ptr, len)
             \/ /\ EnvAnswers
                /\ UNCHANGED link
      PROVE  PanicInv'
  <2>1. CASE SpanCheckFails(ptr, len)
      BY <1>4, <1>6, <2>1 DEF HostCall, PanicOnlyOnNegativeArgs
  <2>2. CASE EnvAnswers /\ UNCHANGED link
      BY <2>2, EnvAssumption DEF EnvAnswers, PanicOnlyOnNegativeArgs
  <2>3. QED
      BY <1>6, <2>1, <2>2
<1>7. CASE \E ptr, len \in I64 : DoSetReturnData(ptr, len)
  <2>1. PICK ptr, len \in I64 : DoSetReturnData(ptr, len)
      BY <1>7
  <2>2. "set_return_data" \in MemoryImports
      BY DEF MemoryImports
  <2>3. QED
      BY <2>1, <2>2, <1>6 DEF DoSetReturnData
<1>8. CASE \E eid, did \in Ids, ptr, len \in I64 :
              DoAskExternalData(eid, did, ptr, len)
  <2>1. PICK eid, did \in Ids, ptr, len \in I64 :
            DoAskExternalData(eid, did, ptr, len)
      BY <1>8
  <2>2. "ask_external_data" \in MemoryImports
      BY DEF MemoryImports
  <2>3. QED
      BY <2>1, <2>2, <1>6 DEF DoAskExternalData
<1>9. CASE DoGas
    BY <1>9 DEF DoGas, HostCall, Trap, PanicOnlyOnNegativeArgs
<1>10. CASE \E op \in InfallibleQueries : DoQuery(op)
    BY <1>10 DEF DoQuery, HostCall, PanicOnlyOnNegativeArgs
<1>11. CASE \E op \in FallibleQueries : DoFallibleQuery(op)
    BY <1>11, EnvAssumption DEF DoFallibleQuery, HostCall, Trap, PanicOnlyOnNegativeArgs
<1>12. CASE \/ \E cost \in BlockCosts : MeteredBlock(cost)
            \/ GuestReturn \/ GuestTrap
    BY <1>12
    DEF MeteredBlock, GuestReturn, GuestTrap, PanicOnlyOnNegativeArgs
<1>13. QED
    BY <1>2, <1>5, <1>7, <1>8, <1>9, <1>10, <1>11, <1>12 DEF Next, GuestStep

\* In a release build, for every memory size, span size and width, the
\* host panics only in a memory import called with a negative pointer or a
\* negative length: the imports' sign bug is the only way the guest can
\* crash the host.
THEOREM PanicOnlyOnNegativeArgsInvariant ==
    ASSUME OverflowChecks = FALSE
    PROVE  Spec => []PanicOnlyOnNegativeArgs
<1>1. Init => PanicInv
    BY DEF Init, PanicInv, PanicOnlyOnNegativeArgs
<1>2. TypeOK /\ PanicInv /\ [Next]_vars => PanicInv'
    BY PanicInvStep
<1>3. QED
    BY <1>1, <1>2, TypeCorrect, PTL DEF Spec, PanicInv

=============================================================================
