--------------------------- MODULE MCHostRuntimes ---------------------------
(* Small instances of HostRuntimes for TLC.                                *)
EXTENDS HostRuntimes, TLC

(* GPUs whose names contain several table entries, and one that only looks *)
(* like an Apple GPU.                                                      *)
A4000  == [tuple |-> 7, contains |-> {"rtx a4000", "a40"},
           model |-> "rtx a4000"]
A100   == [tuple |-> 1, contains |-> {"a100", "a10"}, model |-> "a100"]
Ti3090 == [tuple |-> 2, contains |-> {"3090", "3090 ti"}, model |-> "3090 ti"]
L40S   == [tuple |-> 3, contains |-> {"l4", "l40", "l40s"}, model |-> "l40s"]
Ti3090Swapped == [Ti3090 EXCEPT !.tuple = 4]
TeslaM40 == [tuple |-> 5, contains |-> {"m4"}, model |-> "none"]
M4Max == [tuple |-> 6, contains |-> {"apple", "m4", "m4 max"},
          model |-> "m4 max"]

HostInventories ==
    [docker |-> { {}, {A100, Ti3090, L40S}, {A100, Ti3090Swapped},
                  {A100, Ti3090}, {TeslaM40}, {A4000} },
     metal  |-> { {M4Max} }]

Symmetric == Permutations(Calls)
=============================================================================
