------------------------------- MODULE MCFanOut -------------------------------
(***************************************************************************)
(* FanOut with the worker commands a deployment may configure.             *)
(***************************************************************************)
EXTENDS FanOut

CommandWords ==
    {Word("batch-worker"), Flag("inspect"), FlagWith("execution-id", "other"), Flag("job-id")}

\* defaultRange tiles the input: the slices of an even split are disjoint and cover
\* every record, also when the count exceeds the records or does not divide them.
ASSUME DefaultRangeTiles ==
    \A n \in 1..6, all \in 0..6 : \A r \in 0 .. all - 1 :
        Cardinality({i \in 0 .. n - 1 : LET range == DefaultRange(i, n, all)
                                       IN  range[1] <= r /\ r < range[2]}) = 1

MCCommands == UNION {[1..n -> CommandWords] : n \in 0..2}
=============================================================================
