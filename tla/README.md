# TLA+ models of machine-asset-tools

libcma is a library for applications that run inside a Cartesi machine and
keep assets for their users: a *ledger* of assets, accounts and balances, and a
*parser* of the inputs such an application receives.  The repository also has
two sample applications built on it and a tool that reads the ledger back from
outside and proves balances to others.  This directory models the ledger with
all its faces (storage, calls, opening, growth, stops), the parser, both
applications, the Merkle trees and the reader, and proves the central
properties of the ledger's storage and of the trees for every size.

Line numbers are those of the sources next to this directory.  `ledger_impl.cpp`
stands for `src/src/ledger_impl.cpp` (so do the other names of `src/src/`),
`app.cpp` for `src/sample_apps/wallet_app/app.cpp`, `echo_voucher/app.cpp` for
the other application, `parser.h` for `src/include/libcma/parser.h`, the names
of trees and proofs for those in `src/misc/`, and `account-driver-reader.cpp`
for the one in `src/tools/`.

## 1. The system

| Part | State it keeps | Operations | Right when |
|---|---|---|---|
| File/buffer ledger, `cma_ledger_memory` (ledger_impl.cpp:597-1723) | in a memory-mapped file or a caller's buffer: two maps of assets (by id, by token key), two of accounts (by id, by 32 bytes), next ids, the base asset's id and flag, and the balance storage | retrieve asset/account (find, create, find or create, find and remove), deposit, withdraw, transfer, get balance, reset | the maps describe one registry; supply covers the balances; a failed call changes nothing; ids never come back; what the array of records says is true |
| Balance storage (ledger_impl.cpp:1313-1579) | a map from (asset, account) to a position, a packed array of records for balances a wallet owner can prove outside, a vector for the others, a key list per array, a counter per account | get, set, clear | it is a map from pairs to amounts, whatever swaps happen inside |
| In-process ledger, `cma_ledger_basic` (ledger_impl.cpp:50-583) | five maps; the size of a map is the next id | the same calls | the same promises, without limits |
| 256-bit amounts (utils.cpp) | none | checked add, checked subtract, is zero | exact result, or the flag false |
| C API (ledger.cpp) | the caller's `cma_ledger_t`: a magic number and a ledger constructed in place | construct in process, in a buffer, in a file; finish; pass a call on; exceptions to error codes | only a constructed ledger is used, and it has the memory its limits need |
| Wallet application (app.cpp) | the ledger, the id of ether, the request being processed | deposits from five portals, withdrawals with a voucher, transfers, inspect | an accepted request does all it says and pays the right amounts to its sender; a refused one does nothing |
| Voucher echo application (echo_voucher/app.cpp) | the verdict on the request before | decodes a deposit, sends a voucher back | an accepted deposit is repaid just once; every request is answered |
| Parser and encoder (parser_impl.cpp) | none; it fills the caller's structures | decode advance and inspect inputs, encode vouchers | each input reaches its decoder or is refused; a voucher says what was requested |
| Merkle trees (complete-merkle-tree.cpp, pristine-merkle-tree.cpp) | the leaves and, per level, the hashes above them | build, push a leaf, root, proof of a node | every node is the hash of its children |
| Proofs (hash-tree-proof.h) | target, siblings, root | verify, root with another target, slice | valid just when target and siblings are the tree's |
| Account drive reader (account-driver-reader.cpp) | one run: options, params, the file | total, dump, search, read by index, prove, initialize | shows the records the ledger has, and the owner's |

**Interactions.**  The rollup device gives the application one request at a
time (`cmt_rollup_finish`).  The application decodes it with the parser, makes
several ledger calls, maybe emits a voucher, and answers the next
`cmt_rollup_finish` with accepted or not; on "not" the machine is reverted to
the state before the request.  The echo application does the same without a
ledger.  Ledger calls end in an error code; in the
application the first error is an exception that ends the handler.  Outside,
a verifier sees the array of records only: not the maps, not the key lists.
The drive reader opens the file as a ledger, between two calls of the
application, finds a record with the ledger's own look-ups, and proves it with a
tree over the bytes of the drive.  Everything is single threaded.

**What is hard.**  Nothing runs concurrently, so the hard behaviour is long
sequences of legal calls, limits, and failures half way:

* each balance lives in four structures that a removal rearranges (swap with
  the last position), and an error in one shows calls later;
* `transfer` writes twice, and the second write can fail when the map is full;
* `remove_asset` decides on the supply, `remove_account` on a counter of
  entries, and an entry of zero is an entry;
* `clear` resets the maps but not the next ids and not the base asset's flag;
* ids, keys and types are shared: two kinds of token ids share a key, a wallet
  address and an account id share their 32 bytes;
* the wallet's handlers make up to a dozen calls, and keep ids and types of
  earlier calls in locals while accounts and assets are created and removed;
* a file-backed ledger outlives the process that keeps the id of ether, and
  may be left between any two writes of a call;
* the memory a ledger is created in may hold an older one, be shorter than the
  sizes given, or be opened with other sizes;
* pointers into a vector are kept in the map, and the vector may move;
* sizes, offsets and room are computed apart from the reads and writes that
  rely on them;
* the verdict on a request is given with the next call, which may fail;
* the tree's loops start from half-done levels, and a slice cuts a proof at
  both ends.

`hazards` in PROJECT.json lists each with its line and the properties that
catch it.

## 2. Modules

```
LedgerTypes              ids, amounts, records, map insert and erase
 +- BalanceTable         the balance storage as operators on a record
 |   +- BalanceStore     any sequence of sets and clears      --> BalanceMap
 |   |   +- VirtualGrowth    where the virtual balances lie
 |   |   +- LedgerCrash      a stop between the writes of a call, used memory
 |   +- LedgerMemory     the calls of cma_ledger_memory       --> LedgerSpec
 |       +- WalletApp    the wallet over that ledger          --> WalletSpec
 |       |   +- WalletRestart   a new start over an old ledger file
 |       +- DriveReader  the reader between the ledger's calls
 +- LedgerBasic          the calls of cma_ledger_basic        --> LedgerSpec
LedgerOpen               which memory a ledger gets, which calls reach it
Amounts                  amount_checked_add, amount_checked_sub
Parser                   what is decoded and encoded, as operators
 +- ParserInputs         payloads as senders write them, vouchers as contracts read them
     +- ParserApi        calls of the parser one after the other
     +- EchoVoucher      the echo application and the rollup device
         +- ParserClients    a process that is one of the two
TreeSizes                levels, and the hash of two hashes
 +- MerkleTree           complete_merkle_tree over pristine_merkle_tree
 +- HashTreeProof        get_proof, verify, bubble_up, slice
     +- TreeAndProof     proofs of the tree that the other one builds
```

`-->` means "is shown to implement", with the mapping at the end of the module
on the left.  `MC*` modules and their `.cfg` files are the small instances;
`*Proofs` modules hold the proofs.  A definition whose comment starts with
*Fault* is a plausible bug of the definition that follows it and is used by no
specification; putting it in place of that definition must break the property
PROJECT.json names under `mutants`.

**BalanceTable / BalanceStore / BalanceMap.**  A table is a record of
`account_asset_balance`, `balances`, `last_balances`, `virtual_balances`,
`last_virtual_balances` and the accounts' `n_balances`, named as in the code.  A
`cma_balance_t` pointer is the position it points to, counted from 1.
`SetBalance` is `set_account_asset_balance` with its six paths: a new record, a
new virtual balance, an overwrite of each kind, a removal of each kind (with
the swap, the repointing, the zeroing and the counter).  The operators are pure
so that `transfer` can apply two of them.  BalanceStore makes the storage a
specification of its own; BalanceMap is the map it implements.

**LedgerMemory.**  One action per API call.  The guards of `DepositError`,
`WithdrawError`, `TransferError` stand in the order of the code's checks.
`RetrieveAsset` and `RetrieveAccount` are the operation switch after the
look-up; branches the code marks "shouldn't be here" have no disjunct, and
`Registry` is the reason they cannot be taken.  Exceptions leave the state as
the statements before them left it: that is only visible in `Transfer`.

**LedgerBasic.**  The same calls over five maps, without limits; the ids the
model may give out are bounded, and a creation beyond the bound is not enabled.
It has no FIND_AND_REMOVE for assets and no base asset, as in the code.

**LedgerSpec.**  What both promise: live assets and accounts, a total map of
balances, atomic calls, and no supply at all: where the code tests its stored
supply, the specification tests the total of the balances.

**Amounts.**  The loop of each function, a step per byte, for any base and
width.  `weight`, `done_a`, `done_b` and `done_res` are history variables: the
numbers the bytes done so far make up.  The ledgers use `+` and `-` on numbers
up to `MaxAmount` with an overflow check, which is what `Checked` justifies.

**WalletApp / WalletSpec.**  `Calls(request)` is the handler as a list of
calls; each call is an action (`RetrieveSender`, `DepositItem`, `EmitVoucher`,
...) that is the ledger's own action plus the handler's locals.  An error
empties the list and sets `phase` to `failed`; `Reject` then reverts the ledger
to `saved`, as the machine does (the one external definition), and `Accept`
ends a request whose list is done.  A voucher can fail to encode or emit.
WalletSpec is a bank: claims of owners on tokens, a request that is performed
as a whole or refused.  Its mapping finds the claim of an owner through the
key maps, so ids do not matter.  Inspect requests only read and are left out.

**WalletRestart** adds the end of the process between requests and a new `main`
over the same ledger file.

**LedgerOpen.**  One slot of a process (`cma_ledger_t`), files of given lengths
and buffers.  `cma_ledger_init`, `_init_buffer`, `_init_file` and `_fini` follow
ledger.cpp check by check; sizes are `size_t`, so `filesize - offset` is taken
modulo `Word`.  Every constructor is placement new over whatever the slot holds:
a refusal before it leaves the old ledger at work, an exception inside it leaves
none, as the base's destructor resets the magic number.  `made` remembers the
sizes a file's ledger was created with: opening it with others reads other bytes
as its structures, and any outcome is allowed.  Touching mapped memory that the
file does not have ends the process (`faulted`).  The other calls are `Use`:
passed on, or refused by the magic number.

**VirtualGrowth** adds to BalanceStore the capacity of `virtual_balances` and the
set of keys whose pointers went stale when it moved.  A larger block may or may
not be at the same place; after a stale pointer nothing more is said of the
storage.

**LedgerCrash.**  `SetWrites` is `set_account_asset_balance` as the sequence of
tables its statements make, and `deposit`, `withdraw` and `transfer` queue these
and the write of the supply.  `Stop` ends the process between two of them; the
file has what was written, in program order, which a process that is killed
leaves to the kernel (a machine that loses power is another matter, and
not modelled).  `Create` makes a new ledger over the memory of an old one, stopped
or not: maps and lists are built anew, the array of records stays as it was.
`CallsEndWhole` ties the sequence to `SetBalance`.

**Parser / ParserInputs / ParserApi.**  A payload is its parts: a selector,
packed addresses, words; an offset or a length is a number, any other word a
value that only equals itself.  The fifteen decoders differ in a table of which
fields they read, where their frame begins and what is packed, and so do the
five encoders; `DecodeAs` and `EncodeVoucher` are the reader and the writer over
that table, with the code's order of reads, checks and writes, so that a refused
input leaves exactly the fields written by then.  ParserInputs is the other
side: blocks in either order, cut anywhere, and the contract that reads the
voucher.  In ParserApi a client passes one structure to call after call.
ParserClients is a process that is such a client or the echo application, so
that one run checks the operators of Parser under both.

**EchoVoucher.**  `main`'s loop, `rollup_process_next_request` and the handlers;
each call to the device fails or not.  `outputs.failed` remembers that one did.
Reading an advance request that fails ends the process (`ForceExit`,
echo_voucher/app.cpp:141).  The device is external: it takes a verdict, keeps the
vouchers of accepted requests, and brings a request when it likes.

**MerkleTree.**  The constructor of the pristine tree and `bubble_up` take a
step per level; the hash of two nodes is their pair.  The properties are about
the tree at rest.  `PristineLevel` and `BubbleUpLevel` are those steps.
**HashTreeProof** takes proofs from a tree `node` and tries
them on a tree `later`, the same memory at another time; an address is the index
it has at each level.  `get_proof`, `verify`, `bubble_up` and the two loops of
`slice` take a step per level.  `slice` does not verify its input: `SliceIsValid`
shows that its own final check cannot fail all the same.  In **TreeAndProof**
`node` and `later` are what `get_node_hash` gives at two times of a tree that
MerkleTree builds and grows, or that is built again when a record has changed.

**DriveReader.**  A run of the reader is an action on the state of LedgerMemory:
options, in their order, decide the operation, the number of params what to
find.  Look-ups are those of the ledger with what the reader passes them,
uninitialized ids included.

## 3. Runs

Programs here are sequential: next-state relations without fairness, except
for the echo application.  Its `Fairness` (in ParserClients) is weak fairness of
`Finish` and of `Handle`: the loop runs as long as the process does and its
handlers have no loops, and a device that can be asked to finish is not failing
for ever.  Nothing is assumed of the arrival of requests.  For the others no
liveness is claimed: each call ends after the steps it has, and waits for nothing.

Deadlock is checked in every run but `amounts`, where a function returns and
there is nothing more to do.

| Run | Instance | Question |
|---|---|---|
| `store` | a token with an id (3 records) and an asset without a token (3 virtual balances), 3 wallets; 3 entries for 6 pairs, 2 virtual balances reserved, amounts 0..2 | is the storage packed, counted, truthful, and a map, and when do its pointers hold? |
| `ledger_full` | base asset and two kinds of token ids; one wallet: as address, as the 32 bytes of an account id that hold it, and accounts asked for by id; 2 asset ids, 2 account ids, 2 entries for 4 pairs, amounts 0..2 | what survives when every limit is hit? |
| `drive_reader` | base asset, a token without and with an id; two wallets, or accounts by id; 4 entries for 4 pairs, amounts 0..1 | with room, does the ledger implement LedgerSpec, and is what the reader shows the ledger's? |
| `ledger_basic` | 2 assets of any type, 2 accounts, amounts 0..2 | does the in-process ledger implement the same LedgerSpec? |
| `ledger_open` | sizes below 16; a large, a short, a read-only and a missing file | when is a slot a ledger, and has it its memory? |
| `ledger_crash` | 2 assets, 2 accounts (one with records), 3 entries for 4 pairs, amounts 0..2 | what does a stop between two writes leave, and a new ledger over old records? |
| `wallet` | ether, ERC-721 and batches of up to 2; two wallets, a vault; 2 account ids, 2 entries, amounts 0..2 | is the wallet a bank when accounts come and go, the ledger is full, and batches fail half way? |
| `parser` | every type, lists of up to two items, inputs cut at every part and sent to other decoders; buffers of 0 to 14 words, or none; 2 requests to the echo application, failing calls | does each input reach its decoder or none, does each voucher say what was asked, is every deposit repaid or refused, and every request answered? |
| `trees` | up to 4 leaves of two hashes, words half the size of leaves; every address and one past the end | is every node right after each push, and does verify accept just the right proofs, before and after a change, and slices too? |
| `amounts` | all pairs of 3-digit numbers in base 3 | exact sums and differences, right flag? |
| `ledger_base_after_reset` | base asset only | violation, see 5 |
| `wallet_restart` | ether and a token | violation, see 5 |

**Bounds, and why they are enough.**  `MaxAssets`, `MaxAccounts`, `MaxBalances`
are the code's own limits, made small enough to be reached; a model value more
than the limit is always asked for.  Two entries for four pairs is the smallest
table where a transfer debits and then finds no room (two accounts, two
assets, the receiver's pair missing); three entries and three pairs of each kind
let the swap take the last position, a middle one, and the only one.  Amounts up
to 2 distinguish nothing, one unit and more, and let sums overflow; where one is
enough (`drive_reader`) two holders of one asset overflow the supply.  Two batch
items give repeated ids, a second item that fails after the first took effect,
and a type learnt from the first item.  In the wallet the two users are only
compared with each other, so TLC takes them as symmetric.  Three digits give a
byte without, with and after a carry.  `MaxBatch` bounds the model only.  ERC-20
and single ERC-1155 requests are modelled (`Kinds` may contain `"ERC20"` and
`"ERC1155_SINGLE"`) but in no run: their lists of calls are that of ether with a
token's key, and that of a batch of one item.

Four leaves give levels whose last entry was made with a pristine neighbour, one
level up or two, a push that fills the tree, and slices that cut either end of a
proof, both and none; the theorems of section 4 take care of larger trees.  Two
items are the least for which a length, an offset and a position in a
list differ; a batch voucher of two items with data takes the 14 words of the largest
buffer.  Two requests show what the first leaves to the second (`MaxRequests`
bounds the model only, the device is silent afterwards).  Offsets of 4 in a file
of 3 and a `size_t` of 16 let the subtraction wrap around and the check pass.
`INIT_BALANCE` is 2048 in the code and 2 in the model, so that the third virtual
balance passes it.

**Properties that carry the weight.**

* `StorePacked`, `TableOK`: map, arrays and key lists point at each other,
  free records are zero, no more records than the array has.
* `RecordsDescribe`, `RecordsMatchRegistry`: the record a wallet owner proves
  outside has the owner, type and token of the pair it belongs to.
* `WithinReserveReadBack`: pointers are good until the reserve is passed, and
  those to records always.
* `Registry`: the two maps of assets and of accounts agree, next ids are free,
  one base asset.
* `SupplyCoversBalances`, `NoOrphanBalance`: supply against balances, in the
  file/buffer ledger with failures, in the other one exactly.
* `TokenIdIsSingle`: an ERC-721 token in one hand, although `transfer` does not
  check.
* `IdsNeverReused`, `FailureChangesNothing`: what a step may never do.
  `FailureChangesNothing` states the exception: a transfer that finds the map full
  keeps its debit (ledger_impl.cpp:1704-1705), which burns value: supply then
  exceeds the balances for good.
* `ConservedAtRest`: in the wallet the machine's revert undoes that too.
* `RefinesMap`, `RefinesLedger`, `RefinesBank`: the three refinements.
* `OldOrNew`: what a balance reads as wherever a call stops: its old or its new
  amount, with the two windows that a removal opens named in the property.
  `SupplyCoversStopped`: only a deposit can leave more balances than supply, or a
  dropped entry that reads as another.
  `CallsEndWhole`: the writes end where `SetBalance` says, also over used memory.
* `MagicTellsLiveLedgers`, `LedgerHasItsMemory`, `FaultsAreForeseen`: a slot passes
  for a ledger just when it is one, no call succeeds without one, and which sizes
  can end the process.
* `DecodesJustTheInput`: success just for a whole input at its own decoder,
  fields exactly those sent.  `RefusedKeepsType`: half-written fields never pass
  for an input.  `InspectsJustTheParams`: the same for inspect requests; the
  length of the data is the caller's capacity until a decoder sets it, and
  with one or two params of a balance none does.
* `VoucherPaysRequest`, `DepositsAreRepaid`, `EveryRequestIsAnswered`: the encoder
  by itself, then the application around it: accepted just when good, repaid
  once, refused without a voucher.
* `NodesMatch`, `RootIsReference`; `VerifyDecides`, `NewRootFits`, `SliceIsValid`,
  `ProofsFit`: the tree, then what is said about it with a proof only.
* `SearchFindsTheRecord`, `IndexShowsRecordsInUse`, `DumpAddsUp`: the reader shows a
  record just when there is one, and the owner's.

## 4. Proofs

Checked by TLAPS for every value of the constants, under the assumptions the
modules name:

* `TypesAssumption` (limits are naturals; the zero field is no address, token or
  id), `TableAssumption`, `LedgerAssumption` and, for BalanceStore,
  `StoreAssumption` (a record's header has no token fields its type has not);
  `ReserveAssumption` for VirtualGrowth.
* `AmountAssumption` (base above 1, width above 0), MerkleTree's
  `SizesAssumption` (word, leaf and root sizes in this order), `ProofAssumption`
  (the trees are trees), `WalletAssumption`, `ReaderAssumption` (ids fit in the
  numbers a reader's options can give).
* `ApiAssumption` (what a client passes as a list is one, a buffer has a size or is
  not there), `RequestsAssumption` (what portals send is what they encode),
  `JunkAssumption` (unwritten memory is no selector).
* `LimitsFit` bounds LedgerOpen: limits whose bytes a `size_t` cannot count are
  left out.  The code does not refuse them, so this is a limit of the model and
  not a fact about callers; with 2^64 for `Word` it leaves out ledgers of more
  than some 10^16 entries.
* `RoomForAll`, an entry for every pair, is the hypothesis of three theorems
  (`ConservationHolds` and the two refinements of LedgerSpec by the file/buffer
  ledger) and an assumption of no module.  Without it they are false, since
  `transfer` debits before it finds the map full; `SupplyHolds` says what is left
  then, and the wallet needs no such hypothesis.

*SumLemmas*: sums of a function over a finite set.  The library defines them by a
recursion over subsets that takes elements in an unknown order; the lemmas show
that the order does not matter, that a sum follows a change at one element, and
how sums compare.  Induction over the subsets of a finite set is made from
well-foundedness (`SubsetInduction`): the collection of the subsets for which the
claim holds is a set here, so that no operator is passed.

*BalanceTableProofs* has the lemmas on the storage.  The inductive predicate is
`WellFormed`: types, `Packed`, `WithinLimit`, `FreeRecordsZero`, `CountsMatch`.
`Packed` alone is not inductive: a new record goes to position
`Len(last_balances) + 1`, which is in the array only because the lists hold
each entry once and the map is not full (`WithinLimit`), and its unwritten
fields are right only because the free record is zero.  Each path of
`SetBalance` is a lemma saying that it keeps a table well formed, is an
assignment to one pair (`Assigned`), and leaves other records alone
(`OthersKept`); `SetBalanceKeeps` joins them.

*BalanceStoreProofs*, the storage: with `IInv == WellFormed(table) /\
RecordsDescribe` the theorems `TypeCorrect`, `Packing`, `Counting`, `Describing`,
and `Refinement` (the storage implements BalanceMap).

*BalanceStoreProofs*, growth: `PointersHold` is `WithinReserveReadBack` for every
reserve.  A pointer can be stale only when the block is larger than the reserve,
and never one of a withdrawable pair, since `RecordsDescribe` says that those are
in the array; `GrowthInv` adds this to `IInv`.  `GrowthIsStore` carries the
theorems of BalanceStore over to the specification that the run `store` checks
(`StorageHolds`).

*BalanceStoreProofs*, stops (LedgerCrash): `StopsReadOldOrNew`, `StopsStayCovered`,
`CallsEnd`.  `Whole` is `WellFormed` without zeros in free records, which used
memory need not have, and it is what a table is between two calls.  `Stage` is what one
table among the writes of a set reads for every pair: a lemma per path of
`SetBalance` goes through its writes one by one, and the last is `Whole`
again.  `CrashInv` says that each table still in the queue is such a stage between
the call's `from` and `to`, so that it does not matter after which write the
process stops.  A transfer is two sets in a row: the first one's end is between
`from` and `to` too.

*LedgerMemoryProofs*, registry and table: the invariant is `AssetsOK /\ AccountsOK
/\ TableFits /\ OneHand /\ ResultOK`.  `AssetsOK` and `AccountsOK` are the two halves of
`Registry` with the types and one addition each: fields a type lacks are zero
(what `WriteRecord` needs), and a WALLET_ADDRESS account holds an address (what
a record's owner needs).  `TableFits` says that the table is well formed and
every entry has a live account, an id that was given out, and the record the
registry asks for; that an account is removed only without entries comes from
`CountsMatch`.  `OneHand` strengthens `TokenIdIsSingle` with "no balance beyond
the supply", so that a deposit which finds supply zero finds no holder.  One
lemma per call; a transfer is two applications of `SetKeepsFit`.  Theorems:
`TypeCorrect`, `RegistryHolds`, `TableHolds`, `RecordsHold`, `OneHandHolds`,
and the action properties `IdsHold` and `FailureHolds`.

*LedgerMemoryProofs*, sums: every call has one of ten effects on supplies and
balances (`Effect`), the only ones that sums have to be followed through.
`Covers`, the sum of an asset's row of balances is at most its supply and zero
without the asset, is inductive with `IInv`; the half-done transfer (`Stopped`)
is where a sum falls below its supply for good, and a removal asks for supply
zero, hence for an empty row.  That gives `SupplyHolds`.  Under `RoomForAll` that
effect cannot happen and `Exact`, with an equality, takes its place:
`ConservationHolds`.  `Refinement` maps each effect to a step of LedgerSpec; the
tests that the code makes on the stored supply are those LedgerSpec makes on the
total of the balances because of `Exact`.

*LedgerBasicProofs*: `RegistryHolds`, `BalancesHaveOwners` and `Refinement`.  An id is
the size of the map it goes into, so the ids of a map must be the numbers below
its size (`Dense`): that is what makes the insert by id, which comes after the
insert of the key, one that cannot fail, and it survives resets because they empty
all maps.  `Owned` says that balances belong to ids in use, which matters as ids
come again here, and `Exact` is as above, without a limit that could be hit.

*FormatProofs*, amounts: the invariant is the schoolbook one, what is stored
plus the carry at the weight of the next byte is the sum of what was read (for
subtraction, the borrow).  `ArithmeticIsExact` proves `Checked` and `Types` the
type invariant for every base and width, 256 and 32 included.  `BytesHold` says
that those numbers are the sums of the bytes at their weights, and that a
difference has only zero bytes just when the operands are equal: byte by byte,
equal bytes give zero and no borrow, and zeros so far mean equal bytes so far
(`ZeroIfSame`).

*FormatProofs*, opening: `MagicHolds`, `MemoryHolds`, `FaultsHold`.  The three
properties of LedgerOpen are inductive together with the shape of the slot; they
rest on an estimate that is exact when it does not wrap around (`EstimateIsExact`).

*LedgerClientProofs*, wallet: `ConservedHolds`.  `Exact` holds as long as no call of
the handler failed; after a failure the ledger may be short of it, and the
machine goes back to `saved`.  So the invariant is about two ledgers: `Sound` says
of `saved` all that `IInv` and `Exact` say of the present one, and `Handling` types
the calls that are left, so that amounts and ids passed on are ones the lemmas
of LedgerMemoryProofs speak of.

*LedgerClientProofs*, reader: `ReaderRefinement`, `IndexHolds`, `SearchHolds`,
`DumpHolds`.  A run of the reader is calls of the ledger (`ReaderStep`), so `IInv` and
`Covers` carry over.  The reader tells records in use from free ones by their
type only, and a removed asset leaves records which nothing in the registry
describes any more: `Typed` is what is still true of them, that their type is not the
zero that marks a free one.  A dump lists such records next to those of a later asset
with the same token; it adds up because they are worth nothing (`Covers`).

*TreeAndProofProofs*, tree: `NodesHold`, that every node is the hash of its
children.  `bubble_up` starts each level at its last entry; it may because of
`AlmostSettled`, what is invariant of a level that is still to be done: it has
at most the entries it will have, and all but the last are right.  Redoing a
level from its last entry on changes nothing before it, so the level above is
almost settled too, and `Settled` levels follow each other to the root.
`RootHolds`: the reference is a recursion over the levels, and so are the pristine
hashes; what the tree holds at rest obeys both, and each has one solution
(`NodesAgree`, `ZeroHashesAgree`).

*TreeAndProofProofs*, proofs: `VerifyHolds`, `NewRootHolds`, `SliceValid`,
`ProofsGood`, for trees of any height.  The lemma all rest on is `ClimbIsExact`: a
turn of the loop takes a node to its parent, and the parent can be made from that
node and its sibling only.  So the hash at hand in `verify` is the tree's just
when target and siblings so far are (`VerifyInv`), and a slice verifies because its
own loop made the same chain of hashes, which the code does not store
(`ChainInv` keeps it).

*FormatProofs*, parser: `VouchersHold`, `InspectHolds`, `RefusalHolds`, for lists
and params of any length and buffers of any size.  What is invariant besides the
property is only which calls a client makes (`ApiTypes`); the work is in the
operators.  `PaysWith` follows a voucher put by put: the static parameters and the
blocks put so far are what the called contract reads, whatever is put after
them, as a block goes at the end and an offset changes one word of the
head (`PutKeeps`, `AllPut`).  A put without room fails, so an encoding that succeeds
was cut nowhere (`EncoderPays`).  For the inspect decoders the bad params
decide: the first of them is where decoding stops (`MinFound`, `ParamsInspected`).

*FormatProofs*, parser, decoders: `DecodesHold`.  `FlattenSeq` is a recursion of
the library over a list of blocks, and its equation has one solution
(`FlattensAgree`, `FlattenIs`); from it comes where each block of a payload begins, in
either order (`BlockPlace`, `BothOrders`), and so each word of an input (`InputWords`).
A cut payload holds the first words (`CutParts`), and a field can be read from it just
when its block is among them (`BlocksThere`, `AllThere`).  The decoders' tables are
compared with what portals and users send type by type (`HeadsAreSent`).
`StopsAtEnd` says that decoding ends after the last field only when all can be
read and the lists of a batch match.

*FormatProofs*, echo application: `RepaymentHolds`.  `EchoInv` says of a request that was
handled that the answer it would get now is right: the verdict is given later,
and a failing finish changes it first.  A deposit is decoded as a whole or refused
(`DepositDecoded`), what is asked for is what it brought (`VoucherAsked`), the room is
just what the words take (`EchoRoom`, `PutsGo`), and the voucher pays
(`EncoderPays`, `EchoEncodes`).

**Model-checked only.**  `RefinesBank` (its step lemmas would follow claims through a
request of several calls), and `EveryRequestIsAnswered`, which is liveness and beyond
TLAPS.

## 5. Findings

Two runs show that the code does not do what its documentation says:

* **No base asset after a reset** (`ledger_base_after_reset`).  `clear()`
  leaves `base_asset_id_defined` set, so after `cma_ledger_reset` no operation
  finds the base asset and none can create it.
* **The wallet does not find its ether again** (`wallet_restart`).  `main`
  passes an uninitialized asset id with FIND_OR_CREATE, so over a ledger that
  already has the base asset it fails, or takes another asset for ether.

Other corners of the code are exceptions that the properties state, so that the
passing runs show how far each reaches:

* The limit of assets counts ids ever given: `max_assets` is compared with
  `next_asset_id` (ledger_impl.cpp:928), which never goes down (`IdsNeverReused`).
* `filesize - offset` (ledger.cpp:82) wraps around when the file is shorter than
  the offset, and the length of the region is not compared with the file:
  `FaultsAreForeseen` says that a region past the end of the file is one of the
  two ways to end the process, opening with other sizes the other.
* A ledger created over used memory does not clear the array of records, and
  writing one sets the fields of its type only: the record of a token without ids may
  show an id an earlier ledger left.  `CallsEndWhole` asks for free records of
  zeros in fresh memory only, and for right balances always.
* The map keeps `&virtual_balances.back()`, and the vector has room for 2048
  (`WithinReserveReadBack`), while the wallet's limit of balances is 131072.
* The key list is written before the map, and the last record is zeroed before
  its owner is pointed to the new place: a process stopped in between leaves an
  owner the map does not have, or one that reads zero (`OldOrNew`).  A later
  removal then may end in "shouldn't be here" (ledger_impl.cpp:1523, 1472).
* The room for a batch voucher: the check adds `2 * token_ids.length + 32` bytes
  where the lists take `2 * 32 * token_ids.length` (parser_impl.cpp:1336).  A buffer
  too small for the lists is refused only when it is half written, and one of the
  minimal size is refused for an empty batch, which the echo application then
  cannot repay (`EmptyBatch` in `DepositsAreRepaid`).
* The reader searches for a token id nobody set: `b32_from_string` fills a copy
  (account-driver-reader.cpp:121).  `SearchFindsTheRecord` promises nothing about
  the id of what a search by token id shows, only that it is the owner's.

## 6. Not modelled

* What words are made of: bytes of an address or a number, the JSON reader, the
  hexadecimal digits, short addresses; data is in whole words.  Keccak is a
  pair, so that collisions do not exist.  Logging, reports' texts, I/O failures
  that end the process.
* The wallet's inspect handlers, which only read, and its reports.  Its
  uninitialized `parser_input` (app.cpp:242) is also where the decoder finds the
  buffer for the fourth param of an inspect request (parser_impl.cpp:252); the
  hazard is listed and no property covers it, as ParserApi always gives a buffer.
* The reader with an index beyond the array (account-driver-reader.cpp:514),
  with other sizes than the ledger was made with, and the proofs that come from a
  machine.
* A stop inside the creation of an asset or an account (ledger_impl.cpp:990-1017
  and its like), the calls made on a ledger that was left in the middle of
  one, and writes that reach the disk in another order.
* The tests, build files and Python test applications: read, not modelled.

## 7. Plan

Done: balance storage, its growth, its stops and their proofs; file/buffer ledger
and in-process ledger with LedgerSpec and the proofs of both; opening and its proof;
amounts and their proof; wallet with WalletSpec, restart and the proof of
conservation; parser and echo application, with the
proofs of all their safety properties; Merkle trees with their proofs; drive
reader and its proofs.

Next:

1. Proofs: `RefinesBank`.
2. Calls after a stop: which of them bring a table of LedgerCrash back in step.
3. The wallet's inspect requests over ParserApi, with the buffer it passes.
