----------------------------- MODULE Detection ------------------------------
(***************************************************************************)
(* agent::detect: which conversation a pane is running, and whether anyone *)
(* holds a conversation, both read off the process table.  Operators over  *)
(* a table of processes, each                                              *)
(*   [pid, above, name, opens, lost, argv, hidden, ours]                   *)
(* where `above` holds its ancestors and itself, `opens` the conversations *)
(* whose transcript it has open, `lost` those whose transcript was         *)
(* replaced under it, `argv` those its command line names by a flag,       *)
(* `hidden` whether its descriptors can not be read and `ours` whether it  *)
(* runs as this user.                                                      *)
(***************************************************************************)
EXTENDS FiniteSets

Descendants(table, pid) == {q \in table : pid \in q.above}

\* The agent's own processes under a pane, and everything below those: a
\* bystander in the pane is in neither.
Agents(table, pid, kind) == {q \in Descendants(table, pid) : q.name = kind}

Lineage(table, pid, kind) ==
    UNION {Descendants(table, a.pid) : a \in Agents(table, pid, kind)}

\* What cannot be read is no evidence here.
Held(processes) == UNION {q.opens : q \in {r \in processes : ~r.hidden}}

Replaced(processes) == UNION {q.lost : q \in {r \in processes : ~r.hidden}}

Named(processes) == UNION {q.argv : q \in processes}

Owned(table, pid, kind, known) ==
    (Held(Lineage(table, pid, kind)) \union Named(Agents(table, pid, kind))) \intersect known

\* The kinds under which a pane reaches the threshold: its foreground command is
\* the agent and exactly one conversation is its own.
Candidates(table, pid, foreground, kinds, known) ==
    {k \in kinds : /\ foreground = k
                   /\ Cardinality(Owned(table, pid, k, known[k])) = 1}

\* bind: the set of what the pane is bound to, with at most one element.
Bind(table, pid, foreground, kinds, known) ==
    LET found == Candidates(table, pid, foreground, kinds, known)
    IN  IF Cardinality(found) = 1
        THEN UNION {Owned(table, pid, k, known[k]) : k \in found}
        ELSE {}

\* A process that hides its descriptors and may be the agent.
CouldHold(q, kind) == q.hidden /\ q.ours /\ q.name = kind

\* live_process_ownership: any process counts, whatever its name.
Liveness(table, kind, id) ==
    IF id \in Held(table) THEN "active"
    ELSE IF id \in Replaced(table) \/ \E q \in table : CouldHold(q, kind) THEN "unknown"
    ELSE "inactive"
=============================================================================
