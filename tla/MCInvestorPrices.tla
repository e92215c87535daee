--------------------------- MODULE MCInvestorPrices ---------------------------
(* The price of a row is there, or between two others, or the first, or it    *)
(* is not there at all: with both rows and nothing failing, and with one row  *)
(* and a failure, or a correction.                                            *)
EXTENDS InvestorPrices
Smooth == [published : {{}, {0}, {1}, {2}, {0, 2}}, rows : {{0, 1}},
           corrections : {0}, faults : {0}]
Failing == [published : {{}, {1}, {0, 2}}, rows : {{1}}, corrections : {0}, faults : {1}]
Corrections == [published : {{1}}, rows : {{1}}, corrections : {1}, faults : {0}]
MCScenarios == Smooth \cup Failing \cup Corrections
=============================================================================
