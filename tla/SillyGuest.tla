----------------------------- MODULE SillyGuest -----------------------------
(***************************************************************************)
(* The chaintest guest chaintests/silly composed with the runner and the   *)
(* host-call ABI.  prepare asks two data sources for two byte strings of   *)
(* its data segment; execute reads validator 0's answer to source 1 and    *)
(* returns it.  Each entry is a straight-line program of metered blocks   *)
(* and imports; the owasm oei wrappers it calls (not in this repository)   *)
(* are spelled out as the raw imports they make.                           *)
(***************************************************************************)
EXTENDS Runner

ASSUME SillyAssumption ==
    /\ SpanSize >= 2 /\ MemBytes >= 2 + SpanSize
    /\ {0, 1} \subseteq Bytes /\ {1, 2} \subseteq Ids

VARIABLES
    entry,  \* the export run invokes: "prepare" or "execute"
    gpc,    \* index of the guest's next instruction
    got     \* the length read_external_data returned to the guest

svars == <<rvars, entry, gpc, got>>

\* The data segment: "band-protocol" at 0 and "band-chain" after it, here
\* the byte strings <<1, 1>> and <<0>>.  The memory check of each ask needs
\* span_size bytes past its pointer, hence MemBytes >= 2 + SpanSize.
Segment == [a \in Addr |-> IF a < 2 THEN 1 ELSE 0]
Asked1 == [eid |-> 1, did |-> 1, ptr |-> 0, len |-> 2]
Asked2 == [eid |-> 2, did |-> 2, ptr |-> 2, len |-> 1]

\* The buffer oei::get_external_data allocates for the answer.
Buf == 0

Block == [op |-> "block"]
AskInstr(a) == [op |-> "ask", arg |-> a]
Op(name) == [op |-> name]

\* prepare: oei::ask_external_data(1, 1, "band-protocol") and (2, 2,
\* "band-chain"); a call ends a metered block.
Prepare == <<Block, AskInstr(Asked1), Block, AskInstr(Asked2), Block, Op("return")>>

\* execute: oei::get_external_data(1, 0) checks get_external_data_status and
\* returns Err on a nonzero status, which unwrap turns into a trap; then it
\* reads the answer into a span-size buffer; save_return_data sends it back.
Execute == <<Block, Op("status"), Op("unwrap"), Op("span"), Block,
             Op("read"), Block, Op("save"), Block, Op("return")>>

Program(e) == IF e = "prepare" THEN Prepare ELSE Execute

Instr == Program(entry)[gpc]

SInit ==
    /\ RInit
    /\ module = [start |-> FALSE, entry |-> TRUE]
    /\ mem = Segment
    /\ entry \in {"prepare", "execute"}
    /\ gpc = 1
    /\ got = 0

\* The silly module instantiates: it imports only functions the import
\* object provides.
SInstantiate ==
    /\ Instantiate
    /\ pc' # "done"
    /\ UNCHANGED <<entry, gpc, got>>

SRunnerStep ==
    /\ SetWasmerInstance \/ ResolveEntry \/ Classify
    /\ UNCHANGED <<entry, gpc, got>>

\* One guest instruction: the import or block it is, then the next one.
GuestDoes(A) ==
    /\ pc = "running"
    /\ gpc \in DOMAIN Program(entry)
    /\ A
    /\ gpc' = gpc + 1
    /\ UNCHANGED <<module, pc, result, entry>>

SillyBlock ==
    GuestDoes(Instr.op = "block" /\ \E c \in BlockCosts : MeteredBlock(c)
              /\ UNCHANGED got)

SillyAsk ==
    GuestDoes(/\ Instr.op = "ask"
              /\ DoAskExternalData(Instr.arg.eid, Instr.arg.did,
                                   Instr.arg.ptr, Instr.arg.len)
              /\ UNCHANGED got)

SillyStatus ==
    GuestDoes(/\ Instr.op = "status"
              /\ DoFallibleQuery("get_external_data_status")
              /\ UNCHANGED got)

\* The status the Env returned is zero (go on) or not (unwrap panics).
SillyUnwrap ==
    GuestDoes(/\ Instr.op = "unwrap"
              /\ \/ GuestTrap
                 \/ status = "running" /\ UNCHANGED vars
              /\ UNCHANGED got)

SillySpan ==
    GuestDoes(Instr.op = "span" /\ DoQuery("get_span_size") /\ UNCHANGED got)

\* read_external_data(1, 0, Buf): the guest keeps the returned length.
SillyRead ==
    GuestDoes(/\ Instr.op = "read"
              /\ HostCall("read_external_data", Buf, 0)
              /\ \/ MemoryCheckFails(Buf) /\ UNCHANGED got
                 \/ /\ MemoryCheckPasses(Buf)
                    /\ \/ \E e \in EnvErrors : Trap(e) /\ UNCHANGED got
                       \/ \E data \in EnvData :
                             CopyIn(Buf, data) /\ got' = Len(data))

SillySave ==
    GuestDoes(/\ Instr.op = "save"
              /\ DoSetReturnData(Buf, got)
              /\ UNCHANGED got)

SillyReturn ==
    GuestDoes(Instr.op = "return" /\ GuestReturn /\ UNCHANGED got)

SNext ==
    \/ SInstantiate
    \/ SRunnerStep
    \/ SillyBlock
    \/ SillyAsk
    \/ SillyStatus
    \/ SillyUnwrap
    \/ SillySpan
    \/ SillyRead
    \/ SillySave
    \/ SillyReturn

\* run executes the guest synchronously to its end (spec 5): an enabled
\* step is taken.
SSpec == SInit /\ [][SNext]_svars /\ WF_svars(SNext)

-----------------------------------------------------------------------------
\* The asks scenario 6 expects the Env to record, payloads included.
Expected == <<[eid |-> 1, did |-> 1, data |-> <<1, 1>>],
              [eid |-> 2, did |-> 2, data |-> <<0>>]>>

\* The Env sees prepare's asks in program order, each with the exact bytes
\* of its slice of guest memory, whatever traps cut the run short.
SillyAsksInOrder == IsPrefix(asks, Expected)

\* run returns Ok only for a complete run of the entry: prepare made both
\* asks, and execute handed exactly one answer of the Env back unchanged.
SillyOkMeansComplete ==
    pc = "done" /\ result.outcome = "Ok" =>
        /\ entry = "prepare" => asks = Expected
        /\ entry = "execute" => returned \in {<<x>> : x \in EnvData}

\* Scenario 6: with an Env that never fails and gas for every block,
\* prepare returns Ok after the two asks in order.
SillyScenario6 ==
    entry = "prepare" => <>(pc = "done" /\ result.outcome = "Ok"
                            /\ asks = Expected)
=============================================================================
