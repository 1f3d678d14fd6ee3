---------------------------- MODULE MCConsensus ----------------------------
(***************************************************************************)
(* Instances of Consensus. Storage and execution are asynchronous; the     *)
(* kinds in Slow may be overtaken by any other event, the others complete  *)
(* before the next event of any replica but a crash, which keeps the       *)
(* longer runs small.                                                      *)
(***************************************************************************)
EXTENDS Consensus

CONSTANT Slow

ASSUME SlowAssumption == Slow \subseteq {"append", "commit", "persist", "repair"}

Outstanding(s) ==
    {kind \in {"append", "commit", "persist", "repair"} \ Slow :
        \/ kind = "append" /\ \E i \in DOMAIN s.pipe : ~s.pipe[i].durable
        \/ kind = "commit" /\ s.inflight
        \/ kind = "persist" /\ s.viewIO.busy
        \/ kind = "repair" /\ s.repairWrite # Blank}

Completes(s, t, kind) ==
    \/ kind = "append" /\ \E i \in DOMAIN s.pipe \cap DOMAIN t.pipe : ~s.pipe[i].durable /\ t.pipe[i].durable
    \/ kind = "commit" /\ Len(t.executed) > Len(s.executed)
    \/ kind = "persist" /\ t.viewIO # s.viewIO
    \/ kind = "repair" /\ t.repairWrite = Blank

\* The action constraint of the runs: prompt I/O first.
Prompt ==
    \/ crashes' # crashes
    \/ \A r \in Replicas :
        rep[r].status # "Failed" /\ Outstanding(rep[r]) # {}
            => \E kind \in Outstanding(rep[r]) : Completes(rep[r], rep'[r], kind)
=============================================================================
