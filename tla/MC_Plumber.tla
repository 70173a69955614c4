----------------------------- MODULE MC_Plumber -----------------------------
(* Small instances of Plumber for TLC: the host and two workers, w1        *)
(* provisioned and active, w2 inactive and without a deal; three         *)
(* signatures, k3 with a bad signature; pools of one VM.                   *)
EXTENDS Plumber

CONSTANTS k1, k2, k3

MCSigs == {k1, k2, k3}

\* k1 expires between two whole seconds of now_ms, k2 on one.
MCDeadline == [k \in MCSigs |-> IF k = k1 THEN 3 ELSE 4]

\* The instance of the liveness runs: k3, whose only fate is to be refused,
\* is left out.
MCSigsLive == {k1, k2}
MCDeadlineLive == [k \in MCSigsLive |-> MCDeadline[k]]

=============================================================================
