------------------------------ MODULE MCEngine ------------------------------
EXTENDS Engine, TLC

ClientSymmetry == Permutations(Clients)

\* A value that is set, grows and is deleted.
SetIt == <<"set", 1, <<1, "v">>>>
GrowIt == <<"cas", 1, <<3, "v">>>>
DeleteIt == <<"del", 1, <<1, "v">>>>
MCRequests == {SetIt, GrowIt, DeleteIt}

Mix(d, a, c, m, w) == [direct |-> d, attaches |-> a, commands |-> c, mishaps |-> m, which |-> w]

\* The table alone; sessions that come, go and are swept; one with several
\* commands, and one with commands that is swept; two with one command.
MCMixes == {Mix(7, 0, 0, 0, {}), Mix(0, 2, 0, 1, {}), Mix(0, 1, 3, 0, {SetIt, GrowIt}),
            Mix(0, 1, 2, 1, {SetIt, DeleteIt}), Mix(0, 2, 1, 0, {GrowIt})}

=============================================================================
