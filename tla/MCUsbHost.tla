----------------------------- MODULE MCUsbHost -----------------------------
(* UsbHost on a drive of one sector of two cells: commands with no data,   *)
(* with data each way, past the end, unknown, and asking for more than     *)
(* there is; requests that are answered, refused, and refused with data.   *)
EXTENDS UsbHost

Cmd(op, lba, cells, in, fill) ==
    [op |-> op, lba |-> lba, count |-> 1, cells |-> cells, in |-> in, fill |-> fill]

SomeCommands ==
    {Cmd("read", 0, 2, TRUE, Blank), Cmd("read", 1, 2, TRUE, Blank),
     Cmd("inquiry", 0, 2, TRUE, Blank),
     Cmd("sense", 0, 1, TRUE, Blank), Cmd("ready", 0, 0, FALSE, Blank),
     Cmd("unknown", 0, 0, FALSE, Blank)}
    \cup {Cmd("write", lba, 2, FALSE, v) : lba \in 0 .. 1, v \in Data \ {Blank}}

SomeRequests ==
    {[name |-> "describe", in |-> TRUE, cells |-> 1],
     [name |-> "refused", in |-> TRUE, cells |-> 1],
     [name |-> "refused", in |-> FALSE, cells |-> 1]}

FewCommands == {Cmd("write", 0, 2, FALSE, Blank), Cmd("ready", 0, 0, FALSE, Blank)}
FewRequests == {[name |-> "describe", in |-> TRUE, cells |-> 1]}
=============================================================================
