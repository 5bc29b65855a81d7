------------------------------ MODULE MCSupervisor ------------------------------
(* Instances of Supervisor for TLC. *)
EXTENDS Supervisor
CONSTANTS q1, q2, t1, t2, i1, i2, env

Order == <<q1, q2>>
TwoTags == {t1, t2}
TwoImages == {i1, i2}
OneSetting == {env}
Pulled == [t \in Tags |-> IF t = t1 THEN i1 ELSE i2]

\* container_name keeps the two queues apart.
Distinct == [q \in {q1, q2} |-> q]

Entry(tag, settings, replicas) ==
    [tag |-> tag, settings |-> settings, replicas |-> replicas]

\* The second configuration adds a replica, an env entry and another image.
ChangingConfigs ==
    {[q \in {q1, q2} |-> IF q = q1 THEN Entry(t1, {}, 1) ELSE Entry(t1, {env}, 1)],
     [q \in {q1, q2} |-> IF q = q1 THEN Entry(t1, {env}, 2) ELSE Entry(t2, {}, 1)]}
=============================================================================
