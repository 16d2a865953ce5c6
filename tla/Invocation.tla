----------------------------- MODULE Invocation -----------------------------
(***************************************************************************)
(* What one invocation of a guest entry promises the host, whatever the    *)
(* guest does (spec 4.4, 4.5 and 7): the points left only go down, and an  *)
(* exhausted budget reads as none left; the Env's logs of return data and *)
(* data requests only grow, by buffers of at most span_size bytes; once   *)
(* the invocation has stopped, nothing more happens to it.                 *)
(***************************************************************************)
EXTENDS Naturals, Sequences

CONSTANTS
    Budget,    \* the gas limit
    Payloads,  \* the buffers set_return_data may hand the Env
    Requests   \* the requests ask_external_data may hand the Env

VARIABLES
    left,      \* points left
    stopped,   \* the invocation has stopped (returned or trapped)
    returned,  \* the Env's log of return data
    asked      \* the Env's log of data requests

ivars == <<left, stopped, returned, asked>>

IInit ==
    /\ left = Budget
    /\ stopped = FALSE
    /\ returned = <<>>
    /\ asked = <<>>

\* Metering or the gas import takes some points.
Charge ==
    /\ ~stopped
    /\ left' \in 0 .. left - 1
    /\ UNCHANGED <<stopped, returned, asked>>

\* The invocation stops; when the budget is what stopped it, none is left.
Halt ==
    /\ ~stopped
    /\ stopped' = TRUE
    /\ left' \in {left, 0}
    /\ UNCHANGED <<returned, asked>>

\* The Env receives a buffer; its answer may end the invocation.
Return(p) ==
    /\ ~stopped
    /\ returned' = Append(returned, p)
    /\ stopped' \in BOOLEAN
    /\ UNCHANGED <<left, asked>>

Request(r) ==
    /\ ~stopped
    /\ asked' = Append(asked, r)
    /\ stopped' \in BOOLEAN
    /\ UNCHANGED <<left, returned>>

INext ==
    \/ Charge
    \/ Halt
    \/ \E p \in Payloads : Return(p)
    \/ \E r \in Requests : Request(r)

ISpec == IInit /\ [][INext]_ivars
=============================================================================
