---------------------------- MODULE PriceAverage ----------------------------
(***************************************************************************)
(* execute of the cryptocompare_price example oracle script (logic.rs):    *)
(* the average of the validators' reports.  Each report is a Data record   *)
(* decoded from one validator's external data, so its fields are whatever *)
(* that validator sent.  The u64 timestamp path is modelled exactly: a     *)
(* u64 accumulator, += per report (a panic on overflow in a build with     *)
(* overflow checks, a wrap otherwise), then a u64 division by the number   *)
(* of reports, which panics on zero.  The f32 price path cannot panic (an  *)
(* empty average is NaN, cast to 0) and is left out.                       *)
(***************************************************************************)
EXTENDS MachineInt, SequencesExt

CONSTANTS
    Stamps,          \* u64 time_stamp values a report may carry
    MaxReports,      \* bound on the number of reports
    OverflowChecks   \* TRUE: += panics on u64 overflow (debug build)

ASSUME PriceAverageAssumption ==
    /\ Stamps \subseteq U64
    /\ MaxReports \in Nat
    /\ OverflowChecks \in BOOLEAN

VARIABLES
    data,    \* data: Vec<Data>, the reports execute is given
    result   \* returned: execute returned (did not panic), and its time_stamp

pvars == <<data, result>>

\* decl_data!: the timestamp field of a report.
Data == [time_stamp : Stamps]

\* The accumulator after a panicking +=: no u64 value.
Panicked == -1

\* Variant whose overflow check is off by one (a plausible bug).
AccStepEarly(acc, each) ==
    IF acc = Panicked \/ (OverflowChecks /\ acc + each.time_stamp >= WordSize - 1)
    THEN Panicked
    ELSE (acc + each.time_stamp) % WordSize

\* One iteration of the loop: time_stamp_acc += each.time_stamp.
AccStep(acc, each) ==
    IF acc = Panicked \/ (OverflowChecks /\ acc + each.time_stamp > WordSize - 1)
    THEN Panicked
    ELSE (acc + each.time_stamp) % WordSize

\* Variant of the loop that stops one report short (a plausible bug).
TimeStampAccShort(reports) ==
    FoldLeft(AccStep, 0, SubSeq(reports, 1, Len(reports) - 1))

\* let mut time_stamp_acc: u64 = 0; for each in &data { ... }
TimeStampAcc(reports) == FoldLeft(AccStep, 0, reports)

\* execute(_params, data): the loop, then time_stamp_acc / data.len().
Execute(reports) ==
    LET acc == TimeStampAcc(reports) IN
    IF acc = Panicked \/ Len(reports) = 0
    THEN [returned |-> FALSE, time_stamp |-> 0]
    ELSE [returned |-> TRUE, time_stamp |-> acc \div Len(reports)]

PInit ==
    /\ data \in BoundedSeq(Data, MaxReports)
    /\ result = Execute(data)

\* execute is a pure function of its input: nothing else happens.
PNext == UNCHANGED pvars

PSpec == PInit /\ [][PNext]_pvars

-----------------------------------------------------------------------------
(* Reference definitions                                                   *)

\* The mathematical sum of the reported timestamps, and their bounds.
TrueSum(reports) == FoldLeft(LAMBDA s, d : s + d.time_stamp, 0, reports)
Stamp(reports) == {reports[i].time_stamp : i \in DOMAIN reports}

\* When execute returns, its time_stamp is the floor of the true average
\* of the reports: the u64 loop never lost or wrapped a report.
AverageMatchesReference ==
    result.returned =>
        result.time_stamp = TrueSum(data) \div Len(data)

\* execute fails only where the average is undefined or does not fit: no
\* reports (the division by data.len()), or a sum beyond u64::MAX (the +=
\* of the loop).  A single validator can cause the second.
ExecutePanicsOnlyWhenUndefined ==
    ~result.returned =>
        Len(data) = 0 \/ TrueSum(data) > WordSize - 1

\* The unit test reads execute as an average: the timestamp it returns lies
\* between the smallest and the largest timestamp reported.
AverageWithinRange ==
    result.returned =>
        \E lo, hi \in Stamp(data) :
            /\ \A s \in Stamp(data) : lo <= s /\ s <= hi
            /\ lo <= result.time_stamp /\ result.time_stamp <= hi
=============================================================================
