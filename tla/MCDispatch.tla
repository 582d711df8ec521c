------------------------------ MODULE MCDispatch ------------------------------
(***************************************************************************)
(* A small instance of Dispatch: of the operations that ask the same       *)
(* planes in the same way one stands for all of them.                      *)
(***************************************************************************)
EXTENDS Dispatch

MCOperations ==
  {"State", "Record", "Remove", "Collect", "ObserveTopics",
   "WatchState", "UnwatchState", "WatchRecords", "Tap"}
===============================================================================
