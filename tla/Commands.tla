------------------------------ MODULE Commands ------------------------------
(***************************************************************************)
(* What the frame relies on when it sends a command to the board: a command*)
(* that says it succeeded has been done, one that says it failed has at    *)
(* most stored some of its own bytes in its own place.  Session is written *)
(* on this promise.                                                        *)
(*                                                                         *)
(* The promise is only made while the two ends of the link are in step     *)
(* (trust).  A step that loses a clock or a transfer may end it, without   *)
(* an effect of its own; a new connection may renew it.                    *)
(***************************************************************************)
EXTENDS Integers

CONSTANTS
    Cells,      \* places of the board's memory that hold a chunk
    Slots,      \* bytes of a chunk
    Byte,       \* values of a byte
    Addrs,      \* addresses that commands are given
    Where       \* the cell of each of them

Ops    == {"read", "write", "read16", "write16"}
Writes == {"write", "write16"}

VARIABLES
    mem,        \* the board's memory
    op,         \* the command that runs, or "none"
    addr, data, \* its arguments
    got,        \* the caller's buffer
    told,       \* result of the last command: "none", "ok" or "failed"
    trust       \* the two ends are in step

vars == <<mem, op, addr, data, got, told, trust>>

\* The slots of a chunk that a command transfers.
Used(o) == IF o \in {"read", "write"} THEN {0} ELSE Slots

Init ==
    /\ mem \in [Cells -> [Slots -> Byte]]
    /\ op = "none" /\ told = "none"
    /\ addr \in Addrs /\ data \in [Slots -> Byte] /\ got \in [Slots -> Byte]
    /\ trust \in BOOLEAN

Call ==
    /\ op = "none" /\ op' \in Ops
    /\ addr' \in Addrs /\ data' \in [Slots -> Byte]
    /\ told' = "none"
    /\ got' \in [Slots -> Byte]
    /\ UNCHANGED <<mem, trust>>

\* A byte of a write is stored.
Store ==
    /\ op \in Writes
    /\ \E s \in Used(op) : mem' = [mem EXCEPT ![Where[addr]][s] = data[s]]
    /\ UNCHANGED <<op, addr, data, got, told, trust>>

\* Part of an answer comes in.
Receive ==
    /\ op \in Ops \ Writes
    /\ got' \in [Slots -> Byte]
    /\ UNCHANGED <<mem, op, addr, data, told, trust>>

Return(result) ==
    /\ op # "none" /\ op' = "none"
    /\ told' = result
    /\ got' \in [Slots -> Byte] /\ data' \in [Slots -> Byte]
    /\ UNCHANGED <<mem, addr>>

Succeed ==
    /\ Return("ok")
    /\ \A s \in Used(op) :
          mem[Where[addr]][s] = IF op \in Writes THEN data[s] ELSE got'[s]
    /\ UNCHANGED trust

Fail == Return("failed") /\ UNCHANGED trust

\* A clock or a transfer is lost: the command goes on, fails, or ends with the
\* program.
Lose ==
    /\ trust /\ trust' = FALSE
    /\ \/ got' \in [Slots -> Byte] /\ UNCHANGED <<mem, op, addr, data, told>>
       \/ Return("failed")

\* Out of step nothing is promised.
Stray == ~trust /\ ~trust'

\* A new connection is made.
Renew ==
    /\ op = "none" /\ op' = "none" /\ told' = "none"
    /\ trust' \in BOOLEAN
    /\ UNCHANGED <<mem, addr, data, got>>

Next == Call \/ Store \/ Receive \/ Succeed \/ Fail \/ Lose \/ Stray \/ Renew

Spec == Init /\ [][Next]_vars

=============================================================================
