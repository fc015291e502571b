------------------------------ MODULE ChainLog ------------------------------
(***************************************************************************)
(* The chain as the subgraph reads it: the events that contracts emitted   *)
(* and the index has not handled yet, oldest first, each with the          *)
(* timestamp of its block.  The index handles every event once, in the     *)
(* order of emission, at any time after its block.                         *)
(***************************************************************************)
EXTENDS Integers, Sequences

CONSTANTS
    Backlog,        \* bound: how many events the index is behind when a call is made
    MaxTime         \* bound: timestamps of blocks

VARIABLES
    time,           \* the timestamp of the block being built
    log             \* pairs <<event, timestamp>>

ASSUME ChainAssumption == Backlog \in Nat /\ MaxTime \in Nat

chain == <<time, log>>

ChainInit == time = 1 /\ log = << >>

\* A call that emits the events, in this order.
Emit(events) ==
    /\ Len(log) <= Backlog
    /\ log' = log \o [i \in 1..Len(events) |-> <<events[i], time>>]
    /\ UNCHANGED time

NextBlock ==
    /\ time < MaxTime
    /\ time' = time + 1
    /\ UNCHANGED log

CaughtUp == log = << >>
=============================================================================
