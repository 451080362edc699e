------------------------------ MODULE Benchmark ------------------------------
(***************************************************************************)
(* What vgpu-agent says of its hardware when it registers: the inventory,  *)
(* its fingerprint and its dlperf score.                                   *)
(*                                                                         *)
(* A GPU is a record: `tuple` stands for the string of its name, uuid and  *)
(* PCI bus id, an integer ordered as the string is; `contains` is the set  *)
(* of table entries that occur in its lower-cased name; `model` is the     *)
(* most specific of them in the table it is looked up in, or "none".       *)
(* Scores are in tenths.                                                   *)
(***************************************************************************)
EXTENDS FiniteSets, Integers, Sequences, Functions

Table ==
    << <<"h200", 3200>>, <<"h100", 3000>>, <<"a100", 1600>>, <<"l40s", 950>>,
       <<"l40", 900>>, <<"a40", 740>>, <<"a30", 550>>, <<"a10g", 320>>,
       <<"a10", 300>>, <<"l4", 240>>, <<"v100", 280>>, <<"t4", 160>>,
       <<"rtx 6000 ada", 900>>, <<"rtx a6000", 780>>, <<"rtx a5000", 550>>,
       <<"rtx a4000", 400>>,
       <<"4090", 420>>, <<"4080", 300>>, <<"4070 ti", 260>>, <<"4070", 200>>,
       <<"3090 ti", 310>>, <<"3090", 270>>, <<"3080", 240>>, <<"3070", 170>>,
       <<"2080 ti", 160>> >>
Unknown == 180

AppleTable ==
    << <<"m3 ultra", 130>>, <<"m2 ultra", 110>>, <<"m1 ultra", 100>>,
       <<"m4 max", 90>>, <<"m3 max", 80>>, <<"m2 max", 70>>, <<"m1 max", 60>>,
       <<"m4 pro", 60>>, <<"m3 pro", 50>>, <<"m2 pro", 45>>, <<"m1 pro", 40>>,
       <<"m4", 40>>, <<"m3", 30>>, <<"m2", 25>>, <<"m1", 20>> >>
UnknownApple == 30

First(rows) == CHOOSE i \in rows : \A j \in rows : i <= j

(* The first row whose needle the name contains.                           *)
FirstMatch(table, contains, default) ==
    LET hits == {i \in DOMAIN table : table[i][1] \in contains}
    IN  IF hits = {} THEN default ELSE table[First(hits)][2]

(* Mutation of Lookup: no table of their own for Apple's GPUs.             *)
LookupOneTable(contains) == FirstMatch(Table \o AppleTable, contains, Unknown)

(* lookup_dlperf and apple_dlperf                                          *)
Lookup(contains) ==
    IF "apple" \in contains THEN FirstMatch(AppleTable, contains, UnknownApple)
                            ELSE FirstMatch(Table, contains, Unknown)

(* dlperf: no GEMM is measured in any build; the lookups are summed.       *)
Dlperf(gpus) ==
    SumFunction([i \in DOMAIN gpus |-> Lookup(gpus[i].contains)])

(* sort: the permutation of s that is in order                             *)
Sort(s) ==
    CHOOSE t \in {[i \in DOMAIN s |-> s[p[i]]] :
                     p \in Bijection(DOMAIN s, DOMAIN s)} :
        \A i, j \in DOMAIN s : i < j => t[i] <= t[j]

(* Mutation of Fingerprint: the tuples are hashed as NVML enumerates them. *)
FingerprintUnsorted(gpus) == [i \in DOMAIN gpus |-> gpus[i].tuple]

(* fingerprint: the digest of the sorted tuples, each with a separator,    *)
(* stands for the sequence it digests.                                     *)
Fingerprint(gpus) == Sort([i \in DOMAIN gpus |-> gpus[i].tuple])

(* The orders in which the GPUs may be enumerated.                         *)
Enumerations(hardware) == Bijection(1 .. Cardinality(hardware), hardware)

(* probe: an empty inventory is an error.                                  *)
Probe(hardware) ==
    IF hardware = {} THEN {}
    ELSE {[fingerprint |-> Fingerprint(gpus), dlperf |-> Dlperf(gpus)] :
             gpus \in Enumerations(hardware)}

-----------------------------------------------------------------------------
(* The table a GPU is looked up in, and the entries of a table.            *)
TableOf(g) == IF "apple" \in g.contains THEN AppleTable ELSE Table
Entries(table) == {table[i][1] : i \in DOMAIN table}

(* <<d, e>>: the entry d occurs in the longer entry e of its table.        *)
OccursIn ==
    {<<"a10", "a100">>, <<"a10", "a10g">>, <<"l40", "l40s">>, <<"l4", "l40s">>,
     <<"l4", "l40">>, <<"a40", "rtx a4000">>, <<"4070", "4070 ti">>,
     <<"3090", "3090 ti">>,
     <<"m4", "m4 max">>, <<"m4", "m4 pro">>, <<"m3", "m3 ultra">>,
     <<"m3", "m3 max">>, <<"m3", "m3 pro">>, <<"m2", "m2 ultra">>,
     <<"m2", "m2 max">>, <<"m2", "m2 pro">>, <<"m1", "m1 ultra">>,
     <<"m1", "m1 max">>, <<"m1", "m1 pro">>}

(* What the strings of a GPU are: of its table, its name contains the entry*)
(* that names it with what occurs in that entry, and no other.             *)
IsGpu(g) ==
    LET entries == Entries(TableOf(g))
    IN  /\ g.tuple \in Int
        /\ g.model \in entries \cup {"none"}
        /\ g.contains \cap entries =
             {d \in entries : d = g.model \/ <<d, g.model>> \in OccursIn}

(* What a GPU scores by the row that names it.                             *)
ScoreByName(g) ==
    LET rows == {i \in DOMAIN TableOf(g) : TableOf(g)[i][1] = g.model}
    IN  IF rows # {} THEN TableOf(g)[First(rows)][2]
        ELSE IF "apple" \in g.contains THEN UnknownApple ELSE Unknown
=============================================================================
