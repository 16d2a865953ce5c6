--------------------------- MODULE HostCallProofs ---------------------------
(***************************************************************************)
(* Proofs about the host-call ABI of HostCall, for every value of the      *)
(* constants: the type invariant, and that metering and do_gas never let   *)
(* the guest run on credit (GasConserved).                                 *)
(***************************************************************************)
EXTENDS HostCall, SequenceTheorems, TLAPS

\* The facts about the machine word and the constants the proofs use.
LEMMA ConstantFacts ==
    /\ WordSize \in Nat /\ HalfWord \in Nat \ {0} /\ WordSize = 2 * HalfWord
    /\ SpanSize \in Nat /\ MemBytes \in Nat
    /\ GasLimit \in U64 /\ GasQuantum \in U64
    /\ BlockCosts \subseteq U64 \ {0}
    /\ MaxCalls \in Nat
    /\ 0 \in I64 /\ 0 \in U64
BY WordAssumption, SpanAssumption, MemAssumption, GasAssumption,
   EnvAssumption DEF I64, U64

\* x as usize is an address-sized natural below 2^Width.
LEMMA AsUsizeType ==
    ASSUME NEW x \in Int
    PROVE  AsUsize(x) \in 0 .. WordSize - 1
BY ConstantFacts DEF AsUsize

\* Buffers an Env hands back are sequences of bytes.
LEMMA EnvDataType == EnvData \subseteq Seq(Bytes)
<1> SUFFICES ASSUME NEW d \in EnvData PROVE d \in Seq(Bytes)
    OBVIOUS
<1>1. PICK m \in 0 .. SpanSize : d \in [1 .. m -> Bytes]
    BY DEF EnvData, BoundedSeq, SeqOf
<1>2. m \in Nat
    BY ConstantFacts
<1>3. QED
    BY <1>1, <1>2, SeqDef

\* The write loop only stores Env bytes into guest memory.
LEMMA WrittenType ==
    ASSUME mem \in [Addr -> Bytes], NEW ptr \in I64, NEW data \in Seq(Bytes)
    PROVE  Written(ptr, data) \in [Addr -> Bytes]
<1> SUFFICES ASSUME NEW a \in Addr
             PROVE  LET i == ((a - AsUsize(ptr)) % WordSize) + 1
                    IN  (IF i <= Len(data) /\ WriteReaches(ptr, i)
                            THEN data[i] ELSE mem[a]) \in Bytes
    BY DEF Written
<1>1. ((a - AsUsize(ptr)) % WordSize) + 1 \in Nat \ {0}
    BY ConstantFacts DEF Addr, I64, AsUsize
<1>2. QED
    BY <1>1

\* A slice read that does not panic lies inside memory.
LEMMA GuestBytesType ==
    ASSUME mem \in [Addr -> Bytes], NEW ptr \in I64, NEW len \in I64,
           ~SlicePanics(ptr, len)
    PROVE  GuestBytes(ptr, len) \in Seq(Bytes)
<1> DEFINE start == SliceStart(ptr)
           stop == SliceStop(ptr, len)
<1>1. start \in Nat /\ stop \in Nat
    BY ConstantFacts DEF SliceStart, SliceStop, AsUsize, WrapI64, I64
<1>2. start <= stop /\ stop <= MemBytes
    BY <1>1, ConstantFacts DEF SlicePanics
<1>3. \A i \in 1 .. stop - start : start + i - 1 \in Addr
    BY <1>1, <1>2, ConstantFacts DEF Addr
<1>4. GuestBytes(ptr, len) \in [1 .. stop - start -> Bytes]
    BY <1>3 DEF GuestBytes
<1>5. stop - start \in Nat
    BY <1>1, <1>2
<1>6. QED
    BY <1>4, <1>5, SeqDef

\* The part of TypeOK about the two ghost counters of a host call.
CallTypeOK ==
    /\ calls \in 0 .. MaxCalls
    /\ last \in [op : Imports \cup {"none"}, ptr : I64, len : I64]

\* The rest of TypeOK.
StateTypeOK ==
    /\ remaining \in U64
    /\ exhausted \in BOOLEAN
    /\ link \in BOOLEAN
    /\ mem \in [Addr -> Bytes]
    /\ status \in Status
    /\ returned \in Seq(Seq(Bytes))
    /\ asks \in Seq(Ask)
    /\ charged \in Nat

LEMMA TypeOKSplit == TypeOK <=> CallTypeOK /\ StateTypeOK
BY DEF TypeOK, CallTypeOK, StateTypeOK

\* Entering an import counts the call and records it.
LEMMA HostCallType ==
    ASSUME TypeOK, NEW op \in Imports, NEW ptr \in I64, NEW len \in I64,
           HostCall(op, ptr, len)
    PROVE  CallTypeOK'
BY ConstantFacts DEF TypeOK, HostCall, CallTypeOK

\* A trap changes the status only.
LEMMA TrapType ==
    ASSUME TypeOK, NEW s \in Status, Trap(s)
    PROVE  StateTypeOK'
BY DEF TypeOK, Trap, StateTypeOK

\* The memory checks that fail stop the guest with a status.
LEMMA MemoryCheckFailsType ==
    ASSUME TypeOK, NEW ptr \in I64, MemoryCheckFails(ptr)
    PROVE  StateTypeOK'
<1>1. {"BadMemorySectionError", "MemoryOutOfBoundError", "Panic"}
        \subseteq Status
    BY DEF Status, TypedErrors
<1>2. CASE ~link /\ Trap("BadMemorySectionError")
    BY <1>1, <1>2, TrapType
<1>3. CASE link /\ ~MemExported /\ Trap("MemoryOutOfBoundError")
    BY <1>1, <1>3, TrapType
<1>4. CASE HasMemory /\ RangePanics(ptr) /\ Trap("Panic")
    BY <1>1, <1>4, TrapType
<1>5. CASE HasMemory /\ ~RangePanics(ptr) /\ ~RangeOK(ptr)
           /\ Trap("MemoryOutOfBoundError")
    BY <1>1, <1>5, TrapType
<1>6. QED
    BY <1>2, <1>3, <1>4, <1>5 DEF MemoryCheckFails

LEMMA SpanCheckFailsType ==
    ASSUME TypeOK, NEW ptr \in I64, NEW len \in I64, SpanCheckFails(ptr, len)
    PROVE  StateTypeOK'
<1>1. {"SpanTooSmallError", "Panic"} \subseteq Status
    BY DEF Status, TypedErrors
<1>2. CASE Trap("SpanTooSmallError")
    BY <1>1, <1>2, TrapType
<1>3. CASE MemoryCheckFails(ptr)
    BY <1>3, MemoryCheckFailsType
<1>4. CASE Trap("Panic")
    BY <1>1, <1>4, TrapType
<1>5. QED
    BY <1>2, <1>3, <1>4 DEF SpanCheckFails

\* The Env's answer to set_return_data or ask_external_data is a status.
LEMMA EnvAnswersType == EnvAnswers => status' \in Status
BY DEF EnvAnswers, Status, TypedErrors

\* Every step of the guest, and a stutter, keeps the type invariant.
LEMMA TypeStep == TypeOK /\ [Next]_vars => TypeOK'
<1> SUFFICES ASSUME TypeOK, [Next]_vars PROVE CallTypeOK' /\ StateTypeOK'
    BY DEF TypeOK, CallTypeOK, StateTypeOK
<1>0. /\ "gas" \in Imports /\ 0 \in I64
      /\ InfallibleQueries \subseteq Imports
      /\ FallibleQueries \subseteq Imports
      /\ {"read_calldata", "read_external_data", "set_return_data",
          "ask_external_data"} \subseteq Imports
    BY ConstantFacts DEF Imports, InfallibleQueries, FallibleQueries
<1>1. CASE DoGas
  <2>1. CallTypeOK'
      BY <1>0, <1>1, HostCallType DEF DoGas
  <2>2. ASSUME ~link, Trap("Panic") PROVE StateTypeOK'
      BY <2>2, TrapType DEF Status
  <2>3. ASSUME Trap("OutOfGasError") PROVE StateTypeOK'
      BY <2>3, TrapType DEF Status, TypedErrors
  <2>4. ASSUME remaining' = SaturatingSub(GasLeft, GasQuantum),
               exhausted' = FALSE,
               charged' = charged + GasQuantum,
               UNCHANGED <<link, mem, status, returned, asks>>
        PROVE  StateTypeOK'
    <3>1. GasLeft \in U64
        BY ConstantFacts DEF TypeOK, GasLeft, U64
    <3>2. SaturatingSub(GasLeft, GasQuantum) \in U64
        BY <3>1, ConstantFacts DEF SaturatingSub, U64
    <3>3. charged' \in Nat
        BY <2>4, ConstantFacts DEF TypeOK, U64
    <3>4. QED
        BY <2>4, <3>2, <3>3 DEF TypeOK, StateTypeOK
  <2>5. StateTypeOK'
      BY <1>1, <2>2, <2>3, <2>4 DEF DoGas
  <2>6. QED
      BY <2>1, <2>5
<1>2. ASSUME NEW op \in InfallibleQueries, DoQuery(op)
      PROVE  CallTypeOK' /\ StateTypeOK'
  <2>1. CallTypeOK'
      BY <1>0, <1>2, HostCallType DEF DoQuery
  <2>2. StateTypeOK'
      BY <1>2 DEF DoQuery, TypeOK, StateTypeOK
  <2>3. QED
      BY <2>1, <2>2
<1>3. ASSUME NEW op \in FallibleQueries, DoFallibleQuery(op)
      PROVE  CallTypeOK' /\ StateTypeOK'
  <2>1. CallTypeOK'
      BY <1>0, <1>3, HostCallType DEF DoFallibleQuery
  <2>2. ASSUME UNCHANGED <<remaining, exhausted, link, mem, status,
                           returned, asks, charged>>
        PROVE  StateTypeOK'
      BY <2>2 DEF TypeOK, StateTypeOK
  <2>3. ASSUME NEW e \in EnvErrors, Trap(e) PROVE StateTypeOK'
      BY <2>3, TrapType DEF Status, TypedErrors
  <2>4. QED
      BY <1>3, <2>1, <2>2, <2>3 DEF DoFallibleQuery
<1>4. ASSUME NEW ptr \in I64, CopyToGuest(ptr) PROVE StateTypeOK'
  <2>1. CASE MemoryCheckFails(ptr)
      BY <2>1, MemoryCheckFailsType
  <2>2. ASSUME NEW e \in EnvErrors, Trap(e) PROVE StateTypeOK'
      BY <2>2, TrapType DEF Status, TypedErrors
  <2>3. ASSUME NEW data \in EnvData, CopyIn(ptr, data)
        PROVE  StateTypeOK'
    <3>1. data \in Seq(Bytes)
        BY EnvDataType
    <3>2. mem' \in [Addr -> Bytes]
        BY <2>3, <3>1, WrittenType DEF TypeOK, CopyIn
    <3>3. status' \in Status
        BY <2>3 DEF Status, CopyIn
    <3>4. QED
        BY <2>3, <3>2, <3>3 DEF TypeOK, StateTypeOK, CopyIn
  <2>4. QED
      BY <1>4, <2>1, <2>2, <2>3 DEF CopyToGuest
<1>5. ASSUME NEW ptr \in I64, DoReadCalldata(ptr)
      PROVE  CallTypeOK' /\ StateTypeOK'
  BY <1>0, <1>5, <1>4, HostCallType DEF DoReadCalldata
<1>6. ASSUME NEW ptr \in I64, DoReadExternalData(ptr)
      PROVE  CallTypeOK' /\ StateTypeOK'
  BY <1>0, <1>6, <1>4, HostCallType DEF DoReadExternalData
<1>7. ASSUME NEW ptr \in I64, NEW len \in I64, DoSetReturnData(ptr, len)
      PROVE  CallTypeOK' /\ StateTypeOK'
  <2>1. CallTypeOK'
      BY <1>0, <1>7, HostCallType DEF DoSetReturnData
  <2>2. CASE SpanCheckFails(ptr, len)
      BY <2>1, <2>2, SpanCheckFailsType
  <2>3. CASE /\ SpanReadable(ptr, len)
             /\ returned' = Append(returned, GuestBytes(ptr, len))
             /\ EnvAnswers
             /\ UNCHANGED <<remaining, exhausted, link, mem, asks, charged>>
    <3>1. GuestBytes(ptr, len) \in Seq(Bytes)
        BY <2>3, GuestBytesType DEF SpanReadable, TypeOK
    <3>2. returned' \in Seq(Seq(Bytes))
        BY <2>3, <3>1, AppendProperties DEF TypeOK
    <3>3. QED
        BY <2>1, <2>3, <3>2, EnvAnswersType DEF TypeOK, StateTypeOK
  <2>4. QED
      BY <1>7, <2>1, <2>2, <2>3 DEF DoSetReturnData
<1>8. ASSUME NEW eid \in Ids, NEW did \in Ids, NEW ptr \in I64,
             NEW len \in I64, DoAskExternalData(eid, did, ptr, len)
      PROVE  CallTypeOK' /\ StateTypeOK'
  <2>1. CallTypeOK'
      BY <1>0, <1>8, HostCallType DEF DoAskExternalData
  <2>2. CASE SpanCheckFails(ptr, len)
      BY <2>1, <2>2, SpanCheckFailsType
  <2>3. CASE /\ SpanReadable(ptr, len)
             /\ asks' = Append(asks, [eid |-> eid, did |-> did,
                                      data |-> GuestBytes(ptr, len)])
             /\ EnvAnswers
             /\ UNCHANGED <<remaining, exhausted, link, mem, returned,
                            charged>>
    <3>1. GuestBytes(ptr, len) \in Seq(Bytes)
        BY <2>3, GuestBytesType DEF SpanReadable, TypeOK
    <3>2. [eid |-> eid, did |-> did, data |-> GuestBytes(ptr, len)] \in Ask
        BY <3>1 DEF Ask
    <3>3. asks' \in Seq(Ask)
        BY <2>3, <3>2, AppendProperties DEF TypeOK
    <3>4. QED
        BY <2>1, <2>3, <3>3, EnvAnswersType DEF TypeOK, StateTypeOK
  <2>4. QED
      BY <1>8, <2>1, <2>2, <2>3 DEF DoAskExternalData
<1>9. ASSUME NEW cost \in BlockCosts, MeteredBlock(cost)
      PROVE  CallTypeOK' /\ StateTypeOK'
  <2>1. cost \in U64
      BY ConstantFacts
  <2>2. CallTypeOK'
      BY <1>9 DEF MeteredBlock, TypeOK, CallTypeOK
  <2>3. ASSUME remaining < cost, exhausted' = TRUE,
               status' = "OutOfGasError", UNCHANGED <<remaining, charged>>
        PROVE  StateTypeOK'
      BY <1>9, <2>3 DEF MeteredBlock, TypeOK, StateTypeOK, Status,
                        TypedErrors
  <2>4. ASSUME remaining >= cost, remaining' = remaining - cost,
               charged' = charged + cost, UNCHANGED <<exhausted, status>>
        PROVE  StateTypeOK'
    <3>1. remaining' \in U64 /\ charged' \in Nat
        BY <2>1, <2>4, ConstantFacts DEF TypeOK, U64
    <3>2. QED
        BY <1>9, <2>4, <3>1 DEF MeteredBlock, TypeOK, StateTypeOK
  <2>5. QED
      BY <1>9, <2>2, <2>3, <2>4 DEF MeteredBlock
<1>10. CASE GuestReturn \/ GuestTrap
  BY <1>10 DEF GuestReturn, GuestTrap, TypeOK, CallTypeOK, StateTypeOK,
               Status, TypedErrors
<1>11. CASE UNCHANGED vars
  BY <1>11 DEF vars, TypeOK, CallTypeOK, StateTypeOK
<1>12. QED
  BY <1>1, <1>2, <1>3, <1>5, <1>6, <1>7, <1>8, <1>9, <1>10, <1>11
  DEF Next, GuestStep

-----------------------------------------------------------------------------
\* The type invariant holds in every reachable state of the entry call.
THEOREM TypeCorrect == Spec => []TypeOK
<1>1. Init => TypeOK
  <2> SUFFICES ASSUME Init PROVE CallTypeOK /\ StateTypeOK
      BY DEF TypeOK, CallTypeOK, StateTypeOK
  <2>1. CallTypeOK
    <3>1. "none" \in Imports \cup {"none"}
        OBVIOUS
    <3>2. last \in [op : Imports \cup {"none"}, ptr : I64, len : I64]
        BY <3>1, ConstantFacts DEF Init
    <3>3. QED
        BY <3>2, ConstantFacts DEF Init, CallTypeOK
  <2>2. StateTypeOK
    <3>1. returned \in Seq(Seq(Bytes)) /\ asks \in Seq(Ask)
        BY EmptySeq DEF Init
    <3>2. status \in Status
        BY DEF Init, Status
    <3>3. QED
        BY <3>1, <3>2, ConstantFacts DEF Init, StateTypeOK
  <2>3. QED
      BY <2>1, <2>2
<1>2. QED
    BY <1>1, TypeStep, PTL DEF Spec

-----------------------------------------------------------------------------
(* Gas conservation.  An import only runs while the guest is running, and  *)
(* exhaustion stops the guest, so every step but do_gas and a metered      *)
(* block starts with the metering untouched by exhaustion and leaves the   *)
(* remaining points and the charged total alone.                           *)

\* A step of the guest that neither charges nor exhausts the metering.
Neutral ==
    /\ status = "running"
    /\ UNCHANGED <<remaining, exhausted, charged>>

\* A failed memory check only sets the status.
LEMMA MemoryCheckFailsNeutral ==
    ASSUME NEW ptr, MemoryCheckFails(ptr)
    PROVE  UNCHANGED <<remaining, exhausted, charged>>
BY DEF MemoryCheckFails, Trap

LEMMA SpanCheckFailsNeutral ==
    ASSUME NEW ptr, NEW len, SpanCheckFails(ptr, len)
    PROVE  UNCHANGED <<remaining, exhausted, charged>>
BY MemoryCheckFailsNeutral DEF SpanCheckFails, Trap

\* Every import but do_gas, and the guest's own return or trap, is neutral.
LEMMA NeutralSteps ==
    ASSUME \/ \E op \in InfallibleQueries : DoQuery(op)
           \/ \E op \in FallibleQueries : DoFallibleQuery(op)
           \/ \E ptr \in I64 : DoReadCalldata(ptr) \/ DoReadExternalData(ptr)
           \/ \E ptr, len \in I64 : DoSetReturnData(ptr, len)
           \/ \E eid, did \in Ids, ptr, len \in I64 :
                  DoAskExternalData(eid, did, ptr, len)
           \/ GuestReturn \/ GuestTrap
    PROVE  Neutral
<1>1. ASSUME NEW ptr, CopyToGuest(ptr)
      PROVE  UNCHANGED <<remaining, exhausted, charged>>
    BY <1>1, MemoryCheckFailsNeutral DEF CopyToGuest, CopyIn, Trap
<1>2. ASSUME NEW op, NEW ptr, NEW len, HostCall(op, ptr, len)
      PROVE  status = "running"
    BY <1>2 DEF HostCall
<1>3. QED
    BY <1>1, <1>2, SpanCheckFailsNeutral
    DEF Neutral, DoQuery, DoFallibleQuery, Trap, DoReadCalldata,
        DoReadExternalData, DoSetReturnData, DoAskExternalData, GuestReturn,
        GuestTrap

\* Every step of the guest, and a stutter, keeps the gas conserved.
LEMMA GasStep == TypeOK /\ GasConserved /\ [Next]_vars => GasConserved'
<1> SUFFICES ASSUME TypeOK, GasConserved, [Next]_vars
             PROVE  GasConserved'
    OBVIOUS
<1>0. status = "running" => ~exhausted
    BY DEF GasConserved
<1>1. ASSUME Neutral PROVE GasConserved'
    BY <1>0, <1>1 DEF Neutral, GasConserved
<1>2. CASE DoGas
  <2>1. status = "running" /\ ~exhausted /\ GasLeft = remaining
      BY <1>0, <1>2 DEF DoGas, HostCall, GasLeft
  <2>2. CASE ~link /\ Trap("Panic")
      BY <1>1, <2>1, <2>2 DEF Trap, Neutral
  <2>3. CASE link /\ GasQuantum > GasLeft /\ Trap("OutOfGasError")
      BY <1>1, <2>1, <2>3 DEF Trap, Neutral
  <2>4. CASE /\ link
             /\ GasQuantum <= GasLeft
             /\ remaining' = SaturatingSub(GasLeft, GasQuantum)
             /\ exhausted' = FALSE
             /\ charged' = charged + GasQuantum
             /\ UNCHANGED <<link, mem, status, returned, asks>>
    <3>1. remaining' = remaining - GasQuantum
        BY <2>1, <2>4, ConstantFacts DEF TypeOK, U64, SaturatingSub
    <3>2. QED
        BY <2>1, <2>4, <3>1, ConstantFacts DEF TypeOK, U64, GasConserved
  <2>5. QED
      BY <1>2, <2>2, <2>3, <2>4 DEF DoGas
<1>3. ASSUME NEW cost \in BlockCosts, MeteredBlock(cost)
      PROVE  GasConserved'
  <2>1. ~exhausted /\ cost \in Nat
      BY <1>0, <1>3, ConstantFacts DEF MeteredBlock, U64
  <2>2. CASE remaining < cost /\ exhausted' = TRUE
             /\ status' = "OutOfGasError"
      BY <2>2 DEF GasConserved
  <2>3. CASE remaining >= cost /\ remaining' = remaining - cost
             /\ charged' = charged + cost /\ UNCHANGED <<exhausted, status>>
      BY <2>1, <2>3, ConstantFacts DEF TypeOK, U64, GasConserved
  <2>4. QED
      BY <1>3, <2>2, <2>3 DEF MeteredBlock
<1>4. CASE UNCHANGED vars
  BY <1>4 DEF vars, GasConserved
<1>5. QED
  BY <1>1, <1>2, <1>3, <1>4, NeutralSteps DEF Next, GuestStep

\* do_gas and the metering middleware keep the remaining points and the
\* charged total summing to gas_limit, and exhaustion stops the guest with
\* OutOfGasError: the guest never runs on credit.
THEOREM GasConservedInvariant == Spec => []GasConserved
<1>1. Init => GasConserved
    BY ConstantFacts DEF Init, GasConserved, U64
<1>2. QED
    BY <1>1, GasStep, TypeCorrect, PTL DEF Spec
=============================================================================
