----------------------------- MODULE LedgerOpen -----------------------------
(***************************************************************************)
(* Opening, sizing and closing ledgers (src/src/ledger.cpp): which memory  *)
(* a cma_ledger_t is constructed over, and which calls reach a ledger that *)
(* was constructed.  What calls do to an open ledger is LedgerMemory's.    *)
(*                                                                         *)
(* A size_t is a number below Word and its arithmetic is modulo Word.  The *)
(* three limits of a ledger are one number n here.  Memory that a file     *)
(* does not have can be mapped, and touching it ends the process.          *)
(***************************************************************************)
EXTENDS Integers

CONSTANTS
  Word,            \* 2^64
  MinMemLength,    \* CMA_LEDGER_MIN_MEM_LENGTH
  PerItem,         \* bytes that one more in the limits takes
  Files,           \* names of files
  Length,          \* their lengths; -1: there is no such file
  ReadOnly,        \* the files that can be read and not written
  Offsets, MemLengths, Limits   \* what callers give

ASSUME SizesAssumption ==
  /\ {Word, MinMemLength, PerItem} \subseteq Nat \ {0}
  /\ Length \in [Files -> (-1)..(Word - 1)]
  /\ ReadOnly \subseteq Files
  /\ Offsets \cup MemLengths \cup Limits \subseteq 0..(Word - 1)

\* Bound: limits whose bytes a size_t cannot count are left out.  What is required
\* for them wraps around, and so do the addresses of the parts (ledger_impl.cpp:651).
ASSUME LimitsFit == \A n \in Limits : n * PerItem + MinMemLength < Word

VARIABLES
  slot,     \* cma_ledger_t: its magic number is set, and the ledger it is for
  made,     \* for each file, where the last ledger was created in it
  live,     \* history: the ledger that was constructed and not destroyed
  call,     \* the last call, its result, and the sizes an init_file was given
  faulted   \* the process was ended by a bad access

openVars == <<slot, made, live, call, faulted>>

NoLedger == [kind |-> "none"]

Basic == [kind |-> "basic"]

Buffer(mem_length, n) == [kind |-> "buffer", mem_length |-> mem_length, n |-> n]

InFile(file, offset, mem_length, n) ==
  [kind |-> "file", file |-> file, offset |-> offset, mem_length |-> mem_length, n |-> n]

\* Where the parts of a ledger in a file are found again.
Layout(offset, mem_length, n) == [offset |-> offset, mem_length |-> mem_length, n |-> n]

NoLayout == Layout(0, 0, 0)

NoSizes == [file |-> "none", layout |-> NoLayout]

OpenInit ==
  /\ slot = [magic |-> FALSE, ledger |-> NoLedger]
  /\ made = [file \in Files |-> NoLayout]
  /\ live = NoLedger
  /\ call = [of |-> "none", result |-> "SUCCESS", sizes |-> NoSizes]
  /\ faulted = FALSE

-----------------------------------------------------------------------------
Returns(name, result) ==
  /\ call' = [of |-> name, result |-> result, sizes |-> NoSizes]
  /\ UNCHANGED faulted

Refuse(name, error) == Returns(name, error) /\ UNCHANGED <<slot, made, live>>

\* Placement new over whatever the slot holds.
Construct(name, ledger) ==
  /\ slot' = [magic |-> TRUE, ledger |-> ledger]
  /\ live' = ledger
  /\ Returns(name, "SUCCESS")

\* Fault: the base of a ledger that was not completed is not destroyed.
ThrowKeepsMagic(name) ==
  /\ slot' = [magic |-> TRUE, ledger |-> NoLedger]
  /\ live' = NoLedger
  /\ Returns(name, "EXCEPTION")
  /\ UNCHANGED made

\* The constructor throws after its base has set the magic number, and the
\* destructor of the base resets it.
ConstructorThrows(name) ==
  /\ slot' = [magic |-> FALSE, ledger |-> NoLedger]
  /\ live' = NoLedger
  /\ Returns(name, "EXCEPTION")
  /\ UNCHANGED made

\* The process ends in a call of init_file.
Fault(file, layout) ==
  /\ faulted' = TRUE
  /\ call' = [of |-> "init_file", result |-> "none",
              sizes |-> [file |-> file, layout |-> layout]]
  /\ slot' = [magic |-> FALSE, ledger |-> NoLedger]
  /\ live' = NoLedger

\* Fault: the constant part is left out.
RequiredForItems(n) == (n * PerItem) % Word

estimate_required_size(n) == (n * PerItem + MinMemLength) % Word

\* `filesize - offset`, both size_t; a file that is missing has size 0.
RoomAfter(file, offset) ==
  LET filesize == IF Length[file] = -1 THEN 0 ELSE Length[file]
  IN  (filesize - offset) % Word

FileTooSmall(file, offset, n) == estimate_required_size(n) > RoomAfter(file, offset)

\* The ledger's own structures, and all of its region, are in the file.
Holds(file, offset, length) == offset + length <= Length[file]

cma_ledger_init == Construct("init", Basic) /\ UNCHANGED made

cma_ledger_init_buffer(mem_length, n) ==
  IF estimate_required_size(n) > mem_length
  THEN Refuse("init_buffer", "ENOBUFS")
  ELSE Construct("init_buffer", Buffer(mem_length, n)) /\ UNCHANGED made

CannotMap(file) == Length[file] = -1 \/ file \in ReadOnly

\* Creating a ledger writes the first and the last bytes of its region.
CreateIn(file, offset, mem_length, n) ==
  IF ~Holds(file, offset, mem_length)
  THEN /\ Fault(file, Layout(offset, mem_length, n))
       /\ made' = [made EXCEPT ![file] = NoLayout]
  ELSE /\ Construct("init_file", InFile(file, offset, mem_length, n))
       /\ made' = [made EXCEPT ![file] = Layout(offset, mem_length, n)]

\* Opening one reads the structures where this caller's limits put them.  What is
\* read of anything else than a ledger made with the same sizes is arbitrary: it
\* is taken for a ledger, makes the constructor throw, or ends the process.
OpenIn(file, offset, mem_length, n) ==
  LET ledger == InFile(file, offset, mem_length, n) IN
  IF ~Holds(file, offset, estimate_required_size(n))
  THEN Fault(file, Layout(offset, mem_length, n)) /\ UNCHANGED made
  ELSE IF made[file] = Layout(offset, mem_length, n)
  THEN Construct("init_file", ledger) /\ UNCHANGED made
  ELSE \/ Construct("init_file", ledger) /\ UNCHANGED made
       \/ ConstructorThrows("init_file")
       \/ Fault(file, Layout(offset, mem_length, n)) /\ UNCHANGED made

cma_ledger_init_file(file, mode, offset, mem_length, n) ==
  IF estimate_required_size(n) > mem_length \/ FileTooSmall(file, offset, n)
  THEN Refuse("init_file", "ENOBUFS")
  ELSE IF mode \notin {"OPEN_ONLY", "CREATE_ONLY"} THEN Refuse("init_file", "EINVAL")
  ELSE IF CannotMap(file) THEN ConstructorThrows("init_file")
  ELSE \/ mode = "OPEN_ONLY" /\ OpenIn(file, offset, mem_length, n)
       \/ mode = "CREATE_ONLY" /\ CreateIn(file, offset, mem_length, n)

cma_ledger_fini ==
  IF ~slot.magic THEN Refuse("fini", "EINVAL")
  ELSE /\ slot' = [slot EXCEPT !.magic = FALSE]
       /\ live' = NoLedger
       /\ Returns("fini", "SUCCESS")
       /\ UNCHANGED made

\* The other calls: they are passed on to the ledger, which has errors of its own,
\* or refused.
Use(name) ==
  /\ \E result \in IF slot.magic THEN {"SUCCESS", "LEDGER_ERROR"} ELSE {"EINVAL"} :
       Returns(name, result)
  /\ UNCHANGED <<slot, made, live>>

\* Any call with a null pointer but the three that construct.
NullPointer(name) == Refuse(name, "EINVAL")

Uses == {"reset", "retrieve_asset", "retrieve_account", "get_balance",
         "deposit", "withdraw", "transfer"}

\* Another process finds the files as they are.
Restart ==
  /\ slot' = [magic |-> FALSE, ledger |-> NoLedger]
  /\ live' = NoLedger
  /\ call' = [of |-> "none", result |-> "SUCCESS", sizes |-> NoSizes]
  /\ faulted' = FALSE
  /\ UNCHANGED made

Calls ==
  /\ ~faulted
  /\ \/ cma_ledger_init
     \/ \E mem_length \in MemLengths, n \in Limits :
          \/ cma_ledger_init_buffer(mem_length, n)
          \/ \E file \in Files, offset \in Offsets,
                mode \in {"OPEN_ONLY", "CREATE_ONLY", "OTHER"} :
               cma_ledger_init_file(file, mode, offset, mem_length, n)
     \/ cma_ledger_fini
     \/ \E name \in Uses : Use(name)
     \/ \E name \in Uses \cup {"fini"} : NullPointer(name)

OpenNext == Calls \/ Restart

OpenSpec == OpenInit /\ [][OpenNext]_openVars

-----------------------------------------------------------------------------
\* A slot passes for a ledger exactly while it holds one that was constructed
\* and not finished: an init that was refused leaves the ledger before it at work
\* (ledger.cpp:71-84), one whose constructor threw leaves none (ledger.cpp:85-96),
\* and no other call succeeds without a ledger.
MagicTellsLiveLedgers ==
  /\ slot.magic <=> live # NoLedger
  /\ slot.magic => slot.ledger = live
  /\ call.of \in Uses /\ call.result = "SUCCESS" => live # NoLedger

\* A ledger that is in use has the memory its limits need, in its buffer or in
\* its file: a room after the offset that wrapped around, or a region that runs
\* past the end, never gets that far.
LedgerHasItsMemory ==
  LET needed == live.n * PerItem + MinMemLength IN
  live.kind \in {"buffer", "file"} =>
    /\ needed <= live.mem_length
    /\ live.kind = "file" => live.offset + needed <= Length[live.file]

\* The sizes a caller gives that end the process are those of a region past the
\* end of the file, which the code does not check, and of an offset past it; or the
\* file holds something else than the ledger that is opened.
FaultsAreForeseen ==
  faulted =>
    LET file == call.sizes.file  layout == call.sizes.layout IN
    /\ ~CannotMap(file)
    /\ layout.n * PerItem + MinMemLength <= layout.mem_length
    /\ ~FileTooSmall(file, layout.offset, layout.n)
    /\ \/ layout.offset + layout.mem_length > Length[file]
       \/ made[file] # layout
=============================================================================
