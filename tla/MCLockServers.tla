--------------------------- MODULE MCLockServers ---------------------------
(* Instances of LockServers for TLC: the client programs of each run.       *)
EXTENDS LockServers, TLC

CONSTANTS c1, c2, a, b

None == [c \in Clients |-> {}]
Shared   == [c \in Clients |-> {a}]
Own      == [c \in Clients |-> IF c = c1 THEN {a} ELSE {b}]
FirstHas(names) == [c \in Clients |-> IF c = c1 THEN names ELSE {}]

Program(reqs, locks, conds, mvs, nine, careful, maxCalls) ==
    [calls |-> reqs, locks |-> locks, conds |-> conds, mvs |-> mvs,
     nine |-> nine, careful |-> careful, maxCalls |-> maxCalls]

(* One lock that both clients create, use and destroy with any index; a lock *)
(* and a condition of the first client that both use; monitor variables and  *)
(* conditions of the first client, that the second uses from mailbox 9.      *)
TwoServerPrograms ==
    {Program({"CL", "AQ", "RL", "DL"}, Shared, None, None, {}, FALSE, 5),
     Program({"CL", "CC", "AQ", "RL", "WT", "SG", "BC"},
             FirstHas({a}), FirstHas({a}), None, {}, TRUE, 7),
     Program({"CM", "DM", "GM", "SM", "CC", "DC"},
             None, FirstHas({a, b}), FirstHas({a, b}), {c2}, TRUE, 4)}

ThreeServerPrograms ==
    {Program({"CL", "DL", "RL"}, Own, None, None, {}, TRUE, 3)}

(* The programs for which section 5 of the README gives a counterexample:   *)
(* two clients create the same lock; the second client has mailbox 9 and    *)
(* releases what the first acquired.                                        *)
TwoCreators == {Program({"CL"}, Shared, None, None, {}, TRUE, 2)}
MailboxNine == {Program({"CL", "AQ", "RL"}, FirstHas({a}), None, None, {c2}, TRUE, 3)}

(* The clients are interchangeable, together with the names.                 *)
Symmetry == {f \in Permutations({c1, c2, a, b}) : {f[c1], f[c2]} = {c1, c2}}

=============================================================================
