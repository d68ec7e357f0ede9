------------------------------ MODULE MCTuiApp ------------------------------
\* Instance of TuiApp: each report fills other tables, so that every table is
\* once empty, once smaller and once larger than the window.
EXTENDS TuiApp

MCTurn(id, calls) == [id |-> id, calls |-> calls]
MCTurns == [i \in 1..5 |-> MCTurn(i, (3 * i) % 4)]
MCReports ==
    {[turns |-> << >>, work |-> 0, blocking |-> 2, models |-> 0, servers |-> 0],
     [turns |-> MCTurns, work |-> 1, blocking |-> 0, models |-> 1, servers |-> 0],
     [turns |-> <<MCTurn(1, 0)>>, work |-> 3, blocking |-> 2, models |-> 0, servers |-> 1],
     [turns |-> << >>, work |-> 1, blocking |-> 1, models |-> 3, servers |-> 3]}
=============================================================================
