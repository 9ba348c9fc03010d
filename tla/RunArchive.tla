------------------------------ MODULE RunArchive ------------------------------
(***************************************************************************)
(* The backtester's command line: a plain test, or a sweep over parameters *)
(* whose best result is kept, saved as a snapshot and entered in an index. *)
(* Several may run at a time, and each may be stopped between two writes.  *)
(* Metrics are what the parameters and the costs of the test give.         *)
(***************************************************************************)
EXTENDS Integers, Sequences, SequencesExt, FiniteSetsExt

CONSTANTS
    Processes,
    Keys, Values,   \* of the sweep: a sequence of parameters, and of each one's values
    Sharpes         \* a test may come to

VARIABLES
    sharpe,         \* [combinations -> Sharpe ratio, or -1 where the test fails]
    step, work,     \* of each process
    loaded,         \* of each process: the index it has read
    snapshots,      \* the files, by id: the process that wrote it
    index           \* index.json: its runs, and whether it can be read

archiveVars == <<sharpe, step, work, loaded, snapshots, index>>

Broken == [ok |-> FALSE, runs |-> << >>]
DefaultCosts == "default"
Default == [k \in Range(Keys) |-> Values[k][1]]

-----------------------------------------------------------------------------
(* Of runParamSweep(): every combination, the later keys varying faster.   *)
extended(combo, key, value) ==
    [k \in DOMAIN combo \union {key} |-> IF k = key THEN value ELSE combo[k]]

grown(combos, n) ==
    LET vals == Values[Keys[n]]
    IN  [i \in 1..(Len(combos) * Len(vals)) |->
            extended(combos[((i - 1) \div Len(vals)) + 1], Keys[n], vals[((i - 1) % Len(vals)) + 1])]
combinations ==
    LET upTo[n \in 0..Len(Keys)] == IF n = 0 THEN << << >> >> ELSE grown(upTo[n - 1], n)
    IN  upTo
cartesian == combinations[Len(Keys)]

(* Those that ran, in that order, and the best of them: of equals the last. *)
tried(before, c) == IF sharpe[c] >= 0 THEN Append(before, c) ELSE before
ran ==
    LET upTo[i \in 0..Len(cartesian)] == IF i = 0 THEN << >> ELSE tried(upTo[i - 1], cartesian[i])
    IN  upTo
results == ran[Len(cartesian)]

better(a, b) == IF sharpe[a] > sharpe[b] THEN a ELSE b
bests ==
    LET upTo[i \in 1..Len(results)] == IF i = 1 THEN results[1] ELSE better(upTo[i - 1], results[i])
    IN  upTo
bestBySharpe_First == results[1]                            \* mutant
bestBySharpe == bests[Len(results)]

warning == \E k \in Range(Keys) : bestBySharpe[k] \in {Values[k][1], Values[k][Len(Values[k])]}

Init ==
    /\ sharpe \in [Range(cartesian) -> Sharpes \union {-1}]
    /\ step = [p \in Processes |-> "idle"] /\ work = [p \in Processes |-> << >>]
    /\ loaded = [p \in Processes |-> Broken]
    /\ snapshots = << >> /\ index = [ok |-> TRUE, runs |-> << >>]

-----------------------------------------------------------------------------
goes(p, from, to) == step[p] = from /\ step' = [step EXCEPT ![p] = to]

(* What is measured, and the configuration it will be saved with.  A sweep *)
(* passes on neither the costs nor the dates that were asked for.          *)
Test(p, costs) ==
    /\ goes(p, "idle", "tested")
    /\ sharpe[Default] >= 0
    /\ work' = [work EXCEPT ![p] = [sweep |-> FALSE, params |-> Default, costs |-> costs,
                                    measured |-> [params |-> Default, costs |-> costs]]]
    /\ UNCHANGED <<sharpe, loaded, snapshots, index>>

bestConfig_Asked == Default                                 \* mutant
bestConfig ==
    [k \in DOMAIN bestBySharpe \union DOMAIN Default |->
        IF k \in DOMAIN bestBySharpe THEN bestBySharpe[k] ELSE Default[k]]

Sweep(p, costs) ==
    /\ goes(p, "idle", "tested")
    /\ results # << >>
    /\ work' = [work EXCEPT ![p] = [sweep |-> TRUE, params |-> bestConfig, costs |-> costs, warned |-> warning,
                                    measured |-> [params |-> bestBySharpe, costs |-> DefaultCosts]]]
    /\ UNCHANGED <<sharpe, loaded, snapshots, index>>

NothingRan(p) ==
    /\ goes(p, "idle", "failed")
    /\ sharpe[Default] < 0 \/ results = << >>
    /\ UNCHANGED <<sharpe, work, loaded, snapshots, index>>

(* saveSnapshot(): the file, then the index, read before it is written.    *)
stored_Lost(p) == snapshots                                 \* mutant
stored(p) == [q \in DOMAIN snapshots \union {p} |-> IF q = p THEN work[p] ELSE snapshots[q]]

WriteSnapshot(p) ==
    /\ goes(p, "tested", "saved")
    /\ snapshots' = stored(p)
    /\ UNCHANGED <<sharpe, work, loaded, index>>

LoadIndex(p) ==
    /\ goes(p, "saved", IF index = Broken THEN "failed" ELSE "loaded")
    /\ loaded' = [loaded EXCEPT ![p] = index]
    /\ UNCHANGED <<sharpe, work, snapshots, index>>

EmptyIndex(p) ==
    /\ goes(p, "loaded", "writing")
    /\ index' = Broken
    /\ UNCHANGED <<sharpe, work, loaded, snapshots>>

WriteIndex(p) ==
    /\ goes(p, "writing", "done")
    /\ index' = [ok |-> TRUE, runs |-> Append(loaded[p].runs, p)]
    /\ UNCHANGED <<sharpe, work, loaded, snapshots>>

Stop(p) ==
    /\ step[p] \notin {"idle", "done", "failed"}
    /\ step' = [step EXCEPT ![p] = "failed"]
    /\ UNCHANGED <<sharpe, work, loaded, snapshots, index>>

Next == \E p \in Processes :
    \/ NothingRan(p) \/ WriteSnapshot(p) \/ LoadIndex(p) \/ EmptyIndex(p) \/ WriteIndex(p) \/ Stop(p)
    \/ \E costs \in {DefaultCosts, "raised"} : Test(p, costs) \/ Sweep(p, costs)

Spec == Init /\ [][Next]_archiveVars

-----------------------------------------------------------------------------
(* Every run the index lists can be loaded and compared, once, whoever     *)
(* else writes the index or is stopped.                                    *)
IndexLoads == Range(index.runs) \subseteq DOMAIN snapshots /\ IsInjective(index.runs)
(* Only a sweep is saved with costs other than those it was measured with. *)
CostsKept ==
    \A p \in DOMAIN snapshots : snapshots[p].costs # snapshots[p].measured.costs => snapshots[p].sweep
(* Both; and what a snapshot says it was measured with is what it was, but *)
(* for those costs, and no combination that ran beats the one a sweep has  *)
(* kept.                                                                   *)
ArchiveSound ==
    /\ IndexLoads /\ CostsKept
    /\ \A p \in DOMAIN snapshots :
           /\ snapshots[p].params = snapshots[p].measured.params
           /\ snapshots[p].sweep => \A c \in Range(results) : sharpe[c] <= sharpe[snapshots[p].params]
=============================================================================
