------------------------------ MODULE MCWatcher ------------------------------
EXTENDS Watcher
\* provider: both rows; worker: one row, loaded before registration
MCInterest == [c \in Consumers |-> IF c \in LoadFirst THEN {CHOOSE k \in Keys : TRUE} ELSE Keys]
=============================================================================
