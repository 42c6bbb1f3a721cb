-------------------------- MODULE IntervalStream --------------------------
(***************************************************************************)
(* What the collection pipeline promises the reader of its output: the     *)
(* intervals printed are intervals perf has measured, each is printed at   *)
(* most once, in the order of measurement, and nothing is printed once the *)
(* output is complete.  Intervals may be missing.                          *)
(*                                                                         *)
(* An interval is a pair <<s, i>>: the i-th interval of the s-th run of    *)
(* perf.                                                                   *)
(***************************************************************************)
EXTENDS Integers, Sequences

VARIABLES measured,  (* the last interval of which perf has printed a line  *)
          output,    (* the intervals printed, in order                     *)
          complete   (* the output will not change any more                 *)

streamVars == <<measured, output, complete>>

Earlier(a, b) == a[1] < b[1] \/ (a[1] = b[1] /\ a[2] < b[2])

Init == measured = <<0, 0>> /\ output = <<>> /\ complete = FALSE

\* perf prints the first line of a later interval, or is started again.
Measure ==
    /\ measured' \in Nat \X Nat
    /\ measured'[1] \in {measured[1], measured[1] + 1}
    /\ Earlier(measured, measured')
    /\ UNCHANGED <<output, complete>>

\* A measured interval later than all those printed is printed.
Publish ==
    /\ ~complete
    /\ Len(output') = Len(output) + 1
    /\ LET k == output'[Len(output')] IN
       /\ k \in Nat \X Nat
       /\ ~Earlier(measured, k)
       /\ output # <<>> => Earlier(output[Len(output)], k)
       /\ output' = Append(output, k)
    /\ UNCHANGED <<measured, complete>>

Finish == complete' = TRUE /\ UNCHANGED <<measured, output>>

Next == Measure \/ Publish \/ Finish

Spec == Init /\ [][Next]_streamVars
============================================================================
