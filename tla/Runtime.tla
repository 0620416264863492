------------------------------- MODULE Runtime --------------------------------
(***************************************************************************)
(* The two parts of package runtime that keep state, in one process: the   *)
(* identity store and the executions with their traces and receipts.  No   *)
(* step of one reads or changes the other, so that an order between their  *)
(* steps means nothing: the executions begin in a process whose store is   *)
(* empty and idle, and from then on it stays so.                           *)
(***************************************************************************)
EXTENDS IdentityStore, Receipts

runtimeVars == <<vars, receiptVars>>

RuntimeInit == Init /\ ReceiptInit

StoreStep == Next /\ ReceiptInit /\ UNCHANGED receiptVars

ReceiptStep == Init /\ ReceiptNext /\ UNCHANGED vars

(* The fairness is that of the store; executions may stop at any time.     *)
RuntimeSpec ==
  /\ RuntimeInit /\ [][StoreStep \/ ReceiptStep]_runtimeVars
  /\ \A c \in Clients : WF_vars(Working(c)) /\ SF_vars(Lock(c))
===============================================================================
