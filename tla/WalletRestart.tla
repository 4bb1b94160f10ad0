---------------------------- MODULE WalletRestart ----------------------------
(***************************************************************************)
(* The wallet application started again over the ledger file an earlier    *)
(* run left (CMA_LEDGER_OPEN_ONLY, app.cpp:1234-1243): the ledger is in    *)
(* the file, the id of ether is in the process and has to be found again.  *)
(***************************************************************************)
EXTENDS WalletApp

\* The process ends between two requests and main runs from the start.
Restart ==
  /\ phase = "idle"
  /\ phase' = "starting"
  /\ ether_id' = 0
  /\ ForgetLocals /\ asset_type' = "BASE"
  /\ vouchers' = <<>>
  /\ result' = "SUCCESS"
  /\ UNCHANGED <<ledger, request, todo, saved>>

RestartSpec == AppInit /\ [][AppNext \/ Restart]_appvars

\* "create ether asset in ledger lib" (app.cpp:1259) with FIND_OR_CREATE:
\* whether the ledger already has it or not, a start ends with the base asset
\* as the one ether is kept under.
StartFindsEther ==
  phase # "starting" =>
    /\ phase # "halted"
    /\ ether_id \in Assets
    /\ lassid_to_asset[ether_id].type = "BASE"
=============================================================================
