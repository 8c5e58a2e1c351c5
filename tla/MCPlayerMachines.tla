---------------------------- MODULE MCPlayerMachines ---------------------------
(* An uninitialised record that is paused, one that runs and one that is    *)
(* full: the three ways the code can take one.                              *)
EXTENDS PlayerMachines

MCGarbage == {[left |-> 0, need |-> 0, status |-> Running],
              [left |-> 0, need |-> 2, status |-> Paused],
              [left |-> 1, need |-> 2, status |-> Full]}
================================================================================
