------------------------------ MODULE MCManager ------------------------------
(****************************************************************************)
(* Every configuration of up to four jobs, regular or not, the jobs of      *)
(* input_6, and a name nobody has.                                          *)
(****************************************************************************)
EXTENDS Manager, SequencesExt

CONSTANTS alpha, bravo, charlie, ghost, beta, gamma, delta

MCClient == {alpha, bravo, charlie}
MCWord == {ghost, beta, gamma, delta}

J(k, x) == [kind |-> k, arg |-> x]
MCJob == {J("store", beta), J("store", gamma), J("search", beta), J("end_client", bravo),
          J("kill_client", alpha), J("kill_client", bravo), J("kill_client", charlie)}

Input6 == <<J("store", beta), J("store", gamma), J("store", delta), J("kill_client", charlie),
            J("store", gamma), J("store", beta), J("search", beta), J("search", delta)>>

Ghost == <<J("store", beta), J("kill_client", ghost), J("search", beta)>>

MCConfigs == BoundedSeq(MCJob, 4) \cup {Input6, Ghost}
=============================================================================
