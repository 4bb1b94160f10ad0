----------------------------- MODULE DriveReader -----------------------------
(***************************************************************************)
(* account-driver-reader (src/tools/account-driver-reader.cpp): a program  *)
(* that opens the ledger's file between two calls of the application,      *)
(* prints balances or proofs of them, and ends.  The application's calls   *)
(* are those of LedgerMemory.                                              *)
(*                                                                         *)
(* The reader is given the offset, length and limits that the ledger was   *)
(* made with (LedgerOpen says what happens otherwise), and whole addresses.*)
(* Texts are left out.  Indexes count from 1.                              *)
(***************************************************************************)
EXTENDS LedgerMemory

CONSTANTS
  OptionLists,   \* what comes before the file name on the command line
  Ids            \* what an uninitialized asset id can be

ASSUME ReaderAssumption == AssetIds \subseteq Ids

VARIABLE run     \* the last run: its command, operation and output

readerVars == <<vars, run>>

Output(kind, index, records) == [kind |-> kind, index |-> index, records |-> records]

NoOutput == Output("none", 0, <<>>)

NoRun == [operation |-> "NOP", params |-> <<>>, index |-> 0, output |-> NoOutput]

ReaderInit == Init /\ run = NoRun

-----------------------------------------------------------------------------
(* The command line. *)

SetsOperation ==
  [option \in {"--total", "--dump", "--initialize", "--balance-index"} |->
     CASE option = "--total"         -> "TOTAL"
       [] option = "--dump"          -> "DUMP"
       [] option = "--initialize"    -> "INITIALIZE_DRIVE"
       [] option = "--balance-index" -> "FIND_INDEX"]

\* These end the program where they stand.
Ends == {"--help", "--dump-custom-full-proof"}

Finds == <<"FIND_BASE", "FIND_TOKEN_ADDRESS", "FIND_TOKEN_ADDRESS_ID">>

\* The last option that sets the operation decides.
OperationOf(options) ==
  LET setting == SelectSeq(options, LAMBDA o : o \in DOMAIN SetsOperation)
  IN  IF setting = <<>> THEN "NOP" ELSE SetsOperation[Last(setting)]

\* The file name ends the options.  What follows it are the balance params, and
\* how many there are says what to find.
Operation(options, named, params) ==
  LET set == OperationOf(options) IN
  IF \E o \in Ends : Contains(options, o) THEN "ENDED"
  ELSE IF ~named THEN "ERROR"
  ELSE IF set # "NOP" THEN (IF params = <<>> THEN set ELSE "ERROR")
  ELSE IF Len(params) \in DOMAIN Finds THEN Finds[Len(params)]
  ELSE "ERROR"

-----------------------------------------------------------------------------
(* The operations. *)

Prints(operation, params, index, output) ==
  run' = [operation |-> operation, params |-> params, index |-> index, output |-> output]

\* --initialize truncates the file, fills it with zeros and creates a ledger.
Initialize ==
  /\ lassid_to_asset' = <<>> /\ asset_to_lassid' = <<>>
  /\ next_asset_id' = 0
  /\ base_asset_id' = 0 /\ base_asset_id_defined' = FALSE
  /\ laccid_to_account' = <<>> /\ account_to_laccid' = <<>>
  /\ next_account_id' = 0
  /\ table' = EmptyTable
  /\ result' = "SUCCESS"
  /\ Prints("INITIALIZE_DRIVE", <<>>, 0, NoOutput)

Dump ==
  /\ Prints("DUMP", <<>>, 0,
            Output("list", 0, SubSeq(table.balances, 1, Len(table.last_balances))))
  /\ UNCHANGED vars

Total ==
  /\ Prints("TOTAL", <<>>, 0, Output("total", Len(table.last_balances), <<>>))
  /\ UNCHANGED vars

\* A record, its proof up to the root of the drive, or one up to the root of the
\* machine that --dump-full-proof names.
Shown(options, index) ==
  Output(IF Contains(options, "--dump-proof") THEN "proof"
         ELSE IF Contains(options, "--dump-full-proof") THEN "machine_proof"
         ELSE "record",
         index, <<table.balances[index]>>)

Failed == Output("error", 0, <<>>)

\* The index is not compared with the number of balances: a free record is known
\* by its type, which is zero.
FindIndex(options, index) ==
  /\ Prints("FIND_INDEX", <<>>, index,
            IF table.balances[index].header.type = "ID" THEN Failed
            ELSE Shown(options, index))
  /\ UNCHANGED vars

\* retrieve_account, FIND, by the wallet's address.
AccountsFound(owner) ==
  IF owner \in DOMAIN account_to_laccid THEN {account_to_laccid[owner]} ELSE {}

FoundByToken(key) ==
  IF key \in DOMAIN asset_to_lassid THEN {asset_to_lassid[key]} ELSE {}

\* Fault: base_asset_id is not used.
CallersId == Ids

\* Without a base asset it looks for the id it was given: an uninitialized one.
BaseIds == IF base_asset_id_defined THEN {base_asset_id} ELSE Ids

\* retrieve_asset, FIND: the assets it may find.  The token id is always an
\* uninitialized one, as b32_from_string writes to a copy.
AssetsFound(operation, params) ==
  CASE operation = "FIND_BASE" -> BaseIds \cap Assets
    [] operation = "FIND_TOKEN_ADDRESS" ->
         FoundByToken(AssetKey("TOKEN_ADDRESS", params[2], Zero))
    [] operation = "FIND_TOKEN_ADDRESS_ID" ->
         UNION {FoundByToken(AssetKey("TOKEN_ADDRESS_ID", params[2], token_id)) :
                  token_id \in TokenIds \cup {Zero}}

\* What look-ups that must find may fail to find.
MayMiss(operation) ==
  \/ operation = "FIND_BASE" /\ ~base_asset_id_defined
  \/ operation = "FIND_TOKEN_ADDRESS_ID"

HasRecord(a, u) == <<a, u>> \in Entries(table) /\ ~IsVirtual(table, <<a, u>>)

Find(options, operation, params) ==
  LET assets   == AssetsFound(operation, params)
      accounts == AccountsFound(params[1])
  IN
  /\ \/ \E a \in assets, u \in accounts :
          Prints(operation, params, 0,
                 IF HasRecord(a, u) THEN Shown(options, At(table, <<a, u>>)) ELSE Failed)
     \/ /\ assets = {} \/ accounts = {} \/ MayMiss(operation)
        /\ Prints(operation, params, 0, Failed)
  /\ UNCHANGED vars

Params ==
  {<<>>} \cup (Wallets \X Tokens \X TokenIds) \cup (Wallets \X Tokens)
    \cup {<<owner>> : owner \in Wallets}

Read ==
  /\ run = NoRun
  /\ \E options \in OptionLists, named \in BOOLEAN, params \in Params :
       LET operation == Operation(options, named, params) IN
       \/ operation = "INITIALIZE_DRIVE" /\ Initialize
       \/ operation = "DUMP" /\ Dump
       \/ operation = "TOTAL" /\ Total
       \/ operation = "FIND_INDEX" /\ \E index \in 1..MaxBalances : FindIndex(options, index)
       \/ operation \in Range(Finds) /\ Find(options, operation, params)
       \/ /\ operation \in {"ENDED", "ERROR"}
          /\ Prints(operation, <<>>, 0, IF operation = "ERROR" THEN Failed ELSE NoOutput)
          /\ UNCHANGED vars

Exit == run # NoRun /\ run' = NoRun /\ UNCHANGED vars

\* A call of the application; those that change nothing are of no interest here.
LedgerCall == run = NoRun /\ Next /\ ledger' # ledger /\ UNCHANGED run

ReaderNext == Read \/ Exit \/ LedgerCall

ReaderSpec == ReaderInit /\ [][ReaderNext]_readerVars

-----------------------------------------------------------------------------
Shows == run.output.kind \in {"record", "proof", "machine_proof"}

Found == run.operation \in Range(Finds)

TheRecord == run.output.records[1]

FoundIsTheOwners ==
  Found /\ Shows =>
    \E a \in Assets, u \in Accounts :
      /\ laccid_to_account[u].account_id = run.params[1]
      /\ Len(run.params) > 1 => lassid_to_asset[a].token_address = run.params[2]
      /\ TheRecord = [header |-> HeaderFor(a, u), amount |-> Balance(a, u)]
      /\ table.last_balances[run.output.index] = <<a, u>>

MissingHasNone ==
  run.output.kind = "error" /\ run.operation \in {"FIND_BASE", "FIND_TOKEN_ADDRESS"} =>
    \A a \in Assets, u \in Accounts :
      /\ laccid_to_account[u] = [type |-> "WALLET_ADDRESS", account_id |-> run.params[1]]
      /\ IF run.operation = "FIND_BASE" THEN lassid_to_asset[a].type = "BASE"
         ELSE /\ lassid_to_asset[a].type = "TOKEN_ADDRESS"
              /\ lassid_to_asset[a].token_address = run.params[2]
      => ~HasRecord(a, u)

\* What a search shows is the owner's: the record of an asset of the token asked for,
\* at its index, with the balance that the ledger has for that owner.  And a wallet's
\* balance of the base asset or of a token without ids is never missed: a search that
\* fails was for a pair without a record.
SearchFindsTheRecord == FoundIsTheOwners /\ MissingHasNone

\* By index just the records in use are shown, which is decided by their type
\* alone: no index shows what an entry that was dropped, or a ledger that was
\* reset, left behind.
IndexShowsRecordsInUse ==
  run.operation = "FIND_INDEX" =>
    (Shows <=> run.index <= Len(table.last_balances))

\* What the records of a list that have a header add up to.
AmountUnder(header, list) ==
  SumFunctionOnSet([i \in DOMAIN list |-> list[i].amount],
                   {i \in DOMAIN list : list[i].header = header})

\* In the list that --dump prints the amounts under an owner and an asset add up to
\* that owner's balance, although a removed asset may have left a record of its own.
DumpAddsUp ==
  run.operation = "DUMP" =>
    \A a \in Assets, u \in Accounts :
      IsWithdrawable(a, u) =>
        Balance(a, u) = AmountUnder(HeaderFor(a, u), run.output.records)
=============================================================================
