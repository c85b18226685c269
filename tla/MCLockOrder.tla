---------------------------- MODULE MCLockOrder ----------------------------
(* Instances of LockOrder for TLC: the calls that are in progress together. *)
EXTENDS LockOrder

CallsOnly == {<<"getValueNoMdel", 1>>, <<"putValue", 1>>, <<"disconnectPVs", 1>>}
OneTeardown == {<<"unreserved", 1>>, <<"getValue", 2>>, <<"putValue", 2>>}
WithCallback == {<<"unreserved", 1>>, <<"disconnectPVs", 1>>, <<"connectionChanged", 1>>}
AllJobs == CallsOnly \cup OneTeardown \cup WithCallback
AllLoads == {CallsOnly, OneTeardown, WithCallback}

ASSUME LoadsCompatible == \A L \in AllLoads : Compatible(L)
=============================================================================
