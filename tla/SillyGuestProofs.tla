-------------------------- MODULE SillyGuestProofs --------------------------
(***************************************************************************)
(* Proofs about the silly chaintest guest run by the runner, for every     *)
(* span size, memory size, gas limit, block costs and Env errors: the Env  *)
(* receives prepare's asks in program order with the exact bytes of the    *)
(* data segment (SillyAsksInOrder), and run returns Ok only after a        *)
(* complete entry (SillyOkMeansComplete).  Every step of the guest is a    *)
(* step of Runner, so the runner invariant RInv carries over.              *)
(***************************************************************************)
EXTENDS SillyGuest, RunnerProofs, InvocationProofs

\* The number of asks prepare has issued before instruction g.
AsksIssued(g) == (IF g > 2 THEN 1 ELSE 0) + (IF g > 4 THEN 1 ELSE 0)

\* The first k asks scenario 6 expects.
ExpectedUpTo(k) == [i \in 1 .. k |-> Expected[i]]

\* What prepare has done: the data segment is never written, and the Env
\* holds the asks of the instructions passed, or one fewer when the last
\* of them trapped (an ask that fails records nothing).
PrepareState ==
    entry = "prepare" =>
        /\ mem = Segment
        /\ returned = <<>>
        /\ \E k \in {AsksIssued(gpc) - 1, AsksIssued(gpc)} :
              /\ k \in Nat
              /\ asks = ExpectedUpTo(k)
              /\ status \in {"running", "returned"} => k = AsksIssued(gpc)

\* What execute has done: no asks; nothing returned before save (index 8),
\* and after a save that did not trap, one buffer of at most span_size.
ExecuteState ==
    entry = "execute" =>
        /\ asks = <<>>
        /\ gpc <= 8 => returned = <<>>
        /\ gpc > 8 /\ status \in {"running", "returned"} =>
              returned \in {<<x>> : x \in EnvData}

\* The guest's position, its answer length, and how a run can end: only
\* the return instruction, the last one, sets "returned", and a result Ok
\* is only classified from it.
SillyState ==
    /\ module = [start |-> FALSE, entry |-> TRUE]
    /\ entry \in {"prepare", "execute"}
    /\ gpc \in 1 .. Len(Program(entry)) + 1
    /\ got \in 0 .. SpanSize
    /\ status = "returned" => gpc = Len(Program(entry)) + 1
    /\ pc = "done" /\ result.outcome = "Ok" => status = "returned"
    /\ PrepareState
    /\ ExecuteState

\* The inductive invariant of the silly guest.
SInv == RInv /\ SillyState

-----------------------------------------------------------------------------
(* Facts about the two programs and the data segment                       *)

LEMMA SillyConstants ==
    /\ SpanSize \in Nat /\ MemBytes \in Nat /\ SpanSize >= 2
    /\ MemBytes >= 2 + SpanSize /\ HalfWord > MemBytes + SpanSize
    /\ {0, 1, 2} \subseteq I64 /\ {1, 2} \subseteq Ids /\ {0, 1} \subseteq Bytes
BY SillyAssumption, ConstantFacts, MemAssumption DEF I64

\* prepare is block, ask 1, block, ask 2, block, return.
LEMMA PrepareTable ==
    /\ Len(Prepare) = 6
    /\ \A i \in 1 .. 6 :
          Prepare[i].op = IF i \in {2, 4} THEN "ask"
                          ELSE IF i = 6 THEN "return" ELSE "block"
    /\ Prepare[2].arg = Asked1 /\ Prepare[4].arg = Asked2
BY DEF Prepare, Block, AskInstr, Op

\* execute is block, status, unwrap, span, block, read, block, save, block,
\* return.
LEMMA ExecuteTable ==
    /\ Len(Execute) = 10
    /\ Execute[1].op = "block" /\ Execute[2].op = "status"
    /\ Execute[3].op = "unwrap" /\ Execute[4].op = "span"
    /\ Execute[5].op = "block" /\ Execute[6].op = "read"
    /\ Execute[7].op = "block" /\ Execute[8].op = "save"
    /\ Execute[9].op = "block" /\ Execute[10].op = "return"
BY DEF Execute, Block, Op

\* The slices prepare asks for: "band-protocol" at [0, 2) and "band-chain"
\* at [2, 3) of the data segment, with ptr + len far from an i64 wrap.
LEMMA SegmentSlices ==
    ASSUME mem = Segment
    PROVE  /\ GuestBytes(0, 2) = <<1, 1>> /\ GuestBytes(2, 1) = <<0>>
           /\ ~SlicePanics(0, 2) /\ ~SlicePanics(2, 1)
<1>1. /\ WordSize \in Nat \ {0} /\ HalfWord \in Nat
      /\ WordSize = 2 * HalfWord /\ HalfWord > 6
    BY SillyConstants, ConstantFacts
<1>2. /\ SliceStart(0) = 0 /\ SliceStart(2) = 2
      /\ SliceStop(0, 2) = 2 /\ SliceStop(2, 1) = 3
  <2>1. /\ (2 + HalfWord) % WordSize = 2 + HalfWord
        /\ (3 + HalfWord) % WordSize = 3 + HalfWord
      BY <1>1, ModInRange
  <2>2. /\ WrapI64(0 + 2) = 2 /\ WrapI64(2 + 1) = 3
      BY <1>1, <2>1 DEF WrapI64
  <2>3. 0 % WordSize = 0 /\ 2 % WordSize = 2 /\ 3 % WordSize = 3
      BY <1>1, ModInRange
  <2>4. QED
      BY <2>2, <2>3 DEF SliceStart, SliceStop, AsUsize
<1>3. {0, 1, 2} \subseteq Addr
    BY SillyConstants DEF Addr
<1>4. ~AddOverflowsI64(0, 2) /\ ~AddOverflowsI64(2, 1)
    BY <1>1 DEF AddOverflowsI64, I64
<1>5. GuestBytes(0, 2) = <<1, 1>> /\ GuestBytes(2, 1) = <<0>>
    BY <1>2, <1>3 DEF GuestBytes, Segment
<1>6. QED
    BY <1>2, <1>4, <1>5, SillyConstants DEF SlicePanics

\* Every k \in 0 .. 2 asks of scenario 6 form a prefix of all of them.
LEMMA ExpectedPrefixes ==
    ASSUME NEW k \in 0 .. 2
    PROVE  IsPrefix(ExpectedUpTo(k), Expected)
BY DEF IsPrefix, ExpectedUpTo, Expected

\* Issuing prepare's i-th ask extends the prefix of the first i - 1 by the
\* next expected one.
LEMMA ExpectedUpToAppend ==
    /\ ExpectedUpTo(0) = <<>>
    /\ Append(ExpectedUpTo(0), Expected[1]) = ExpectedUpTo(1)
    /\ Append(ExpectedUpTo(1), Expected[2]) = ExpectedUpTo(2)
    /\ ExpectedUpTo(2) = Expected
BY DEF ExpectedUpTo, Expected


-----------------------------------------------------------------------------
(* The silly run is a run of Runner                                        *)

LEMMA SInvInit == SInit => SInv
<1> SUFFICES ASSUME SInit PROVE SInv
    OBVIOUS
<1>1. RInv
    BY RInvInit DEF SInit
<1>2. AsksIssued(1) = 0 /\ ExpectedUpTo(0) = <<>>
    BY DEF AsksIssued, ExpectedUpTo
<1>3. Len(Program(entry)) \in {6, 10}
    BY PrepareTable, ExecuteTable DEF SInit, Program
<1>4. SillyState
    BY <1>2, <1>3, SillyConstants
    DEF SInit, RInit, SillyState, PrepareState, ExecuteState, NoResult
<1>5. QED
    BY <1>1, <1>4 DEF SInv

\* Each instruction of the guest is a GuestStep of the running entry (or,
\* for an unwrap of a zero status, no step at all); the runner steps are
\* those of Runner.
LEMMA SillyIsRunner ==
    ASSUME SInv, [SNext]_svars
    PROVE  [RNext]_rvars
<1>0. /\ {0, 1, 2} \subseteq I64 /\ {1, 2} \subseteq Ids
      /\ got \in I64
    BY SillyConstants, ConstantFacts DEF SInv, SillyState, I64
<1>1. CASE SInstantiate \/ SRunnerStep
    BY <1>1 DEF SInstantiate, SRunnerStep, RNext
<1>2. CASE SillyBlock
    BY <1>2 DEF SillyBlock, GuestDoes, GuestRuns, GuestStep, RNext
<1>3. CASE SillyAsk
  <2>1. PICK a \in {Asked1, Asked2} : Instr.arg = a
      BY <1>3, PrepareTable, ExecuteTable DEF SillyAsk, GuestDoes, Instr,
                                           Program, SInv, SillyState
  <2>2. /\ a.eid \in Ids /\ a.did \in Ids /\ a.ptr \in I64 /\ a.len \in I64
      BY <1>0 DEF Asked1, Asked2
  <2>3. QED
      BY <1>3, <2>1, <2>2 DEF SillyAsk, GuestDoes, GuestRuns, GuestStep, RNext
<1>4. CASE SillyStatus \/ SillySpan
    BY <1>4 DEF SillyStatus, SillySpan, GuestDoes, GuestRuns, GuestStep, RNext,
                FallibleQueries, InfallibleQueries
<1>5. CASE SillyUnwrap
    BY <1>5 DEF SillyUnwrap, GuestDoes, GuestRuns, GuestStep, RNext, rvars
<1>6. CASE SillyRead
    BY <1>0, <1>6 DEF SillyRead, GuestDoes, GuestRuns, GuestStep, RNext,
                      DoReadExternalData, CopyToGuest, Buf
<1>7. CASE SillySave \/ SillyReturn
    BY <1>0, <1>7 DEF SillySave, SillyReturn, GuestDoes, GuestRuns, GuestStep,
                      RNext, Buf
<1>8. CASE UNCHANGED svars
    BY <1>8 DEF svars, rvars
<1>9. QED
    BY <1>1, <1>2, <1>3, <1>4, <1>5, <1>6, <1>7, <1>8 DEF SNext


-----------------------------------------------------------------------------
(* The silly state is kept by every step                                   *)

\* Where each kind of instruction sits in the two programs.
LEMMA ProgramFacts ==
    ASSUME entry \in {"prepare", "execute"}, gpc \in DOMAIN Program(entry)
    PROVE  /\ gpc \in 1 .. Len(Program(entry))
           /\ entry = "prepare" =>
                 /\ Len(Program(entry)) = 6
                 /\ Instr.op \in {"block", "ask", "return"}
                 /\ Instr.op = "ask" =>
                       \/ gpc = 2 /\ Instr.arg = Asked1
                       \/ gpc = 4 /\ Instr.arg = Asked2
                 /\ Instr.op # "ask" => AsksIssued(gpc + 1) = AsksIssued(gpc)
                 /\ Instr.op = "return" => gpc = 6
           /\ entry = "execute" =>
                 /\ Len(Program(entry)) = 10
                 /\ Instr.op # "ask"
                 /\ Instr.op = "read" => gpc = 6
                 /\ gpc = 8 <=> Instr.op = "save"
                 /\ Instr.op = "return" => gpc = 10
<1>1. CASE entry = "prepare"
  <2>1. Program(entry) = Prepare /\ gpc \in 1 .. 6
      BY <1>1, PrepareTable DEF Program
  <2>2. Instr = Prepare[gpc]
      BY <2>1 DEF Instr
  <2>3. QED
      BY <1>1, <2>1, <2>2, PrepareTable DEF AsksIssued
<1>2. CASE entry = "execute"
  <2>1. Program(entry) = Execute /\ gpc \in 1 .. 10
      BY <1>2, ExecuteTable DEF Program
  <2>2. Instr = Execute[gpc]
      BY <2>1 DEF Instr
  <2>3. QED
      BY <1>2, <2>1, <2>2, ExecuteTable
<1>3. QED
    BY <1>1, <1>2

\* An instruction that leaves memory, the Env's logs and the answer length
\* alone (a block, the status query, unwrap, the span query, return) keeps
\* the silly state; only return may end the run normally.
LEMMA NeutralInstr ==
    ASSUME SInv, pc = "running", status = "running",
           gpc \in DOMAIN Program(entry), gpc' = gpc + 1,
           Instr.op \in {"block", "status", "unwrap", "span", "return"},
           status' = "returned" => Instr.op = "return",
           UNCHANGED <<module, pc, result, entry, mem, returned, asks, got>>
    PROVE  SillyState'
<1>1. entry \in {"prepare", "execute"}
    BY DEF SInv, SillyState
<1>2. (status = "returned" => gpc = Len(Program(entry)) + 1)'
    BY <1>1, ProgramFacts
<1>3. PrepareState'
  <2>1. SUFFICES ASSUME entry = "prepare" PROVE PrepareState'
      BY DEF PrepareState
  <2>2. AsksIssued(gpc + 1) = AsksIssued(gpc) /\ AsksIssued(gpc) \in Nat
      BY <1>1, <2>1, ProgramFacts DEF AsksIssued
  <2>3. asks = ExpectedUpTo(AsksIssued(gpc)) /\ mem = Segment /\ returned = <<>>
      BY <2>1, <2>2 DEF SInv, SillyState, PrepareState
  <2>4. QED
      BY <2>1, <2>2, <2>3 DEF PrepareState
<1>4. ExecuteState'
  <2>1. SUFFICES ASSUME entry = "execute" PROVE ExecuteState'
      BY DEF ExecuteState
  <2>2. gpc # 8 /\ gpc \in Nat
      BY <1>1, <2>1, ProgramFacts
  <2>3. QED
      BY <2>1, <2>2 DEF SInv, SillyState, ExecuteState
<1>5. QED
    BY <1>1, <1>2, <1>3, <1>4, ProgramFacts DEF SInv, SillyState

\* The neutral instructions, one by one.
LEMMA NeutralInstrKeep ==
    ASSUME SInv,
           SillyBlock \/ SillyStatus \/ SillyUnwrap \/ SillySpan \/ SillyReturn
    PROVE  SillyState'
<1>1. "returned" \notin EnvErrors
    BY EnvAssumption
<1>2. CASE SillyBlock
    BY <1>2, NeutralInstr DEF SillyBlock, GuestDoes, MeteredBlock
<1>3. CASE SillyStatus
    BY <1>1, <1>3, NeutralInstr
    DEF SillyStatus, GuestDoes, DoFallibleQuery, HostCall, Trap
<1>4. CASE SillyUnwrap
    BY <1>4, NeutralInstr DEF SillyUnwrap, GuestDoes, GuestTrap, vars
<1>5. CASE SillySpan
    BY <1>5, NeutralInstr DEF SillySpan, GuestDoes, DoQuery, HostCall
<1>6. CASE SillyReturn
    BY <1>6, NeutralInstr DEF SillyReturn, GuestDoes, GuestReturn
<1>7. QED
    BY <1>2, <1>3, <1>4, <1>5, <1>6

\* read_external_data in execute (instruction 6): memory and the answer
\* length change; the Env's logs do not.
LEMMA ReadKeep ==
    ASSUME SInv, SillyRead
    PROVE  SillyState'
<1>1. /\ entry \in {"prepare", "execute"} /\ gpc \in DOMAIN Program(entry)
      /\ Instr.op = "read" /\ gpc' = gpc + 1
      /\ UNCHANGED <<module, pc, result, entry, returned, asks>>
    BY DEF SillyRead, GuestDoes, SInv, SillyState, HostCall, MemoryCheckFails,
           Trap, CopyIn
<1>2. entry = "execute" /\ gpc = 6
    BY <1>1, ProgramFacts
<1>3. got' \in 0 .. SpanSize
  <2>1. CASE UNCHANGED got
      BY <2>1 DEF SInv, SillyState
  <2>2. ASSUME NEW data \in EnvData, got' = Len(data)
        PROVE  got' \in 0 .. SpanSize
      BY <2>2 DEF EnvData, BoundedSeq, SeqOf
  <2>3. QED
      BY <2>1, <2>2 DEF SillyRead, GuestDoes
<1>4. status' # "returned"
    BY EnvAssumption DEF SillyRead, GuestDoes, MemoryCheckFails, Trap, CopyIn
<1>5. QED
    BY <1>1, <1>2, <1>3, <1>4, ProgramFacts
    DEF SInv, SillyState, PrepareState, ExecuteState

\* save_return_data in execute (instruction 8): the Env receives one buffer
\* of at most span_size bytes, or the guest traps.
LEMMA SaveKeep ==
    ASSUME SInv, SillySave
    PROVE  SillyState'
<1>1. /\ entry \in {"prepare", "execute"} /\ gpc \in DOMAIN Program(entry)
      /\ Instr.op = "save" /\ gpc' = gpc + 1
      /\ UNCHANGED <<module, pc, result, entry, got, mem, asks>>
      /\ DoSetReturnData(Buf, got)
    BY DEF SillySave, GuestDoes, SInv, SillyState, DoSetReturnData,
           SpanCheckFails, MemoryCheckFails, Trap
<1>2. entry = "execute" /\ gpc = 8 /\ returned = <<>>
    BY <1>1, ProgramFacts DEF SInv, SillyState, ExecuteState
<1>3. got \in I64 /\ got <= SpanSize /\ mem \in [Addr -> Bytes]
    BY SillyConstants, ConstantFacts DEF SInv, SillyState, RInv, TypeOK, I64
<1>4. CASE SpanCheckFails(Buf, got)
  <2>1. status' \notin {"running", "returned"} /\ returned' = returned
      BY <1>4 DEF SpanCheckFails, MemoryCheckFails, Trap
  <2>2. QED
      BY <1>1, <1>2, <2>1, ProgramFacts DEF SInv, SillyState, ExecuteState,
                                            PrepareState
<1>5. CASE SpanReadable(Buf, got) /\ returned' = Append(returned, GuestBytes(Buf, got))
           /\ EnvAnswers
  <2>1. GuestBytes(Buf, got) \in EnvData
      BY <1>3, <1>5, GuestBytesBounded, SillyConstants
      DEF SpanReadable, Buf, EnvData
  <2>2. returned' \in {<<x>> : x \in EnvData}
      BY <1>2, <1>5, <2>1
  <2>3. status' # "returned"
      BY <1>5, EnvAssumption DEF EnvAnswers
  <2>4. QED
      BY <1>1, <1>2, <2>2, <2>3, ProgramFacts
      DEF SInv, SillyState, ExecuteState, PrepareState
<1>6. QED
    BY <1>1, <1>4, <1>5 DEF DoSetReturnData

\* ask_external_data in prepare (instructions 2 and 4): the Env receives
\* the next expected ask with its exact bytes, or the guest traps and the
\* Env's log stays one short.
LEMMA AskKeep ==
    ASSUME SInv, SillyAsk
    PROVE  SillyState'
<1> DEFINE a == Instr.arg
<1>1. /\ entry \in {"prepare", "execute"} /\ gpc \in DOMAIN Program(entry)
      /\ Instr.op = "ask" /\ gpc' = gpc + 1 /\ status = "running"
      /\ UNCHANGED <<module, pc, result, entry, got, mem, returned>>
      /\ DoAskExternalData(a.eid, a.did, a.ptr, a.len)
    BY DEF SillyAsk, GuestDoes, SInv, SillyState, DoAskExternalData,
           SpanCheckFails, MemoryCheckFails, Trap, HostCall
<1>2. /\ entry = "prepare" /\ mem = Segment /\ returned = <<>>
      /\ \/ gpc = 2 /\ a = Asked1
         \/ gpc = 4 /\ a = Asked2
    BY <1>1, ProgramFacts DEF SInv, SillyState, PrepareState
<1>3. asks = ExpectedUpTo(AsksIssued(gpc))
    BY <1>1, <1>2 DEF SInv, SillyState, PrepareState
<1>4. AsksIssued(gpc + 1) = AsksIssued(gpc) + 1 /\ AsksIssued(gpc) \in {0, 1}
    BY <1>2 DEF AsksIssued
<1>5. CASE SpanCheckFails(a.ptr, a.len)
  <2>1. status' \notin {"running", "returned"} /\ asks' = asks
      BY <1>5 DEF SpanCheckFails, MemoryCheckFails, Trap
  <2>2. PrepareState'
      BY <1>1, <1>2, <1>3, <1>4, <2>1 DEF PrepareState
  <2>3. QED
      BY <1>1, <1>2, <2>1, <2>2, ProgramFacts
      DEF SInv, SillyState, ExecuteState
<1>6. CASE /\ asks' = Append(asks, [eid |-> a.eid, did |-> a.did,
                                   data |-> GuestBytes(a.ptr, a.len)])
           /\ EnvAnswers
  <2>1. [eid |-> a.eid, did |-> a.did, data |-> GuestBytes(a.ptr, a.len)]
          = Expected[AsksIssued(gpc) + 1]
      BY <1>2, SegmentSlices DEF AsksIssued, Asked1, Asked2, Expected
  <2>2. asks' = ExpectedUpTo(AsksIssued(gpc + 1))
      BY <1>3, <1>4, <1>6, <2>1, ExpectedUpToAppend
  <2>3. status' # "returned"
      BY <1>6, EnvAssumption DEF EnvAnswers
  <2>4. PrepareState'
      BY <1>1, <1>2, <1>4, <2>2 DEF PrepareState
  <2>5. QED
      BY <1>1, <1>2, <2>3, <2>4, ProgramFacts
      DEF SInv, SillyState, ExecuteState
<1>7. QED
    BY <1>1, <1>5, <1>6 DEF DoAskExternalData

\* The runner's own steps move pc and result only; Ok is classified from
\* a normal return alone.
LEMMA RunnerKeep ==
    ASSUME SInv, SInstantiate \/ SRunnerStep
    PROVE  SillyState'
<1>1. UNCHANGED <<module, entry, gpc, got, mem, status, returned, asks>>
    BY DEF SInstantiate, SRunnerStep, Instantiate, SetWasmerInstance,
           ResolveEntry, Classify, vars
<1>2. (pc = "done" /\ result.outcome = "Ok" => status = "returned")'
  <2>1. "Ok" \notin Status
      BY EnvAssumption DEF Status, TypedErrors
  <2>2. status \in Status
      BY DEF SInv, RInv, TypeOK
  <2>3. QED
      BY <1>1, <2>1, <2>2
      DEF SInv, SillyState, SInstantiate, SRunnerStep, Instantiate,
          SetWasmerInstance, ResolveEntry, Classify, Finish
<1>3. QED
    BY <1>1, <1>2 DEF SInv, SillyState, PrepareState, ExecuteState

LEMMA SInvInductive == SInv /\ [SNext]_svars => SInv'
<1> SUFFICES ASSUME SInv, [SNext]_svars PROVE SInv'
    OBVIOUS
<1>1. RInv'
    BY SillyIsRunner, RInvInductive DEF SInv
<1>2. SillyState'
  <2>1. CASE SInstantiate \/ SRunnerStep
      BY <2>1, RunnerKeep
  <2>2. CASE SillyBlock \/ SillyStatus \/ SillyUnwrap \/ SillySpan \/ SillyReturn
      BY <2>2, NeutralInstrKeep
  <2>3. CASE SillyAsk
      BY <2>3, AskKeep
  <2>4. CASE SillyRead
      BY <2>4, ReadKeep
  <2>5. CASE SillySave
      BY <2>5, SaveKeep
  <2>6. CASE UNCHANGED svars
      BY <2>6 DEF svars, rvars, vars, SInv, SillyState, PrepareState,
                  ExecuteState
  <2>7. QED
      BY <2>1, <2>2, <2>3, <2>4, <2>5, <2>6 DEF SNext
<1>3. QED
    BY <1>1, <1>2 DEF SInv

-----------------------------------------------------------------------------
(* The theorems                                                            *)

\* Whatever traps, Env errors or gas exhaustion cut a run of the silly
\* guest short, the Env receives prepare's asks in program order, each
\* with the exact bytes of its slice of the data segment, and execute asks
\* nothing.
THEOREM SillyAsksInOrderInvariant == SSpec => []SillyAsksInOrder
<1>1. SInv => SillyAsksInOrder
  <2> SUFFICES ASSUME SInv PROVE SillyAsksInOrder
      OBVIOUS
  <2>1. CASE entry = "prepare"
    <3>1. PICK k \in {AsksIssued(gpc) - 1, AsksIssued(gpc)} :
                k \in Nat /\ asks = ExpectedUpTo(k)
        BY <2>1 DEF SInv, SillyState, PrepareState
    <3>2. k \in 0 .. 2
        BY <3>1 DEF AsksIssued
    <3>3. QED
        BY <3>1, <3>2, ExpectedPrefixes DEF SillyAsksInOrder
  <2>2. CASE entry = "execute"
    <3>1. asks = ExpectedUpTo(0)
        BY <2>2, ExpectedUpToAppend DEF SInv, SillyState, ExecuteState
    <3>2. QED
        BY <3>1, ExpectedPrefixes DEF SillyAsksInOrder
  <2>3. QED
      BY <2>1, <2>2 DEF SInv, SillyState
<1>2. QED
    BY <1>1, SInvInit, SInvInductive, PTL DEF SSpec

\* run returns Ok from the silly guest only after a complete entry: both
\* of prepare's asks made, or execute's one answer handed back to the Env.
THEOREM SillyOkMeansCompleteInvariant == SSpec => []SillyOkMeansComplete
<1>1. SInv => SillyOkMeansComplete
  <2> SUFFICES ASSUME SInv, pc = "done", result.outcome = "Ok"
               PROVE  /\ entry = "prepare" => asks = Expected
                      /\ entry = "execute" => returned \in {<<x>> : x \in EnvData}
      BY DEF SillyOkMeansComplete
  <2>1. status = "returned" /\ gpc = Len(Program(entry)) + 1
      BY DEF SInv, SillyState
  <2>2. ASSUME entry = "prepare" PROVE asks = Expected
    <3>0. Len(Program(entry)) = 6
        BY <2>2, PrepareTable DEF Program
    <3>1. gpc = 7 /\ AsksIssued(gpc) = 2
        BY <2>1, <3>0 DEF AsksIssued
    <3>2. asks = ExpectedUpTo(2)
        BY <2>1, <2>2, <3>1 DEF SInv, SillyState, PrepareState
    <3>3. QED
        BY <3>2, ExpectedUpToAppend
  <2>3. ASSUME entry = "execute" PROVE returned \in {<<x>> : x \in EnvData}
    <3>0. Len(Program(entry)) = 10
        BY <2>3, ExecuteTable DEF Program
    <3>1. gpc = 11
        BY <2>1, <3>0
    <3>2. QED
        BY <2>1, <2>3, <3>1 DEF SInv, SillyState, ExecuteState
  <2>4. QED
      BY <2>2, <2>3
<1>2. QED
    BY <1>1, SInvInit, SInvInductive, PTL DEF SSpec
=============================================================================
