------------------------------ MODULE MCDrive -------------------------------
(***************************************************************************)
(* Drives of a small peak and a short time limit, and two boards: any call *)
(* of board 0 may fail, and of board 1 those of its watchdog.              *)
(***************************************************************************)
EXTENDS ControlLoop
MotorDrive     == [mode |-> "Accumulate", continuous |-> 1, peak |-> 2, time |-> 2]
AmplifierDrive == [mode |-> "Accumulate", continuous |-> 1, peak |-> 3, time |-> 1]
FailingBoards  == [b \in {0, 1} |-> {"watchdog"} \cup
                                    IF b = 0 THEN {"detect", "module", "write", "factor"} ELSE {}]
=============================================================================
