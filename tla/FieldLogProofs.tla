-------------------------- MODULE FieldLogProofs ---------------------------
(***************************************************************************)
(* The flash log keeps what it has acknowledged, in the order of its       *)
(* numbers, stays usable and accounts for what it was told, for every      *)
(* geometry of the area, every length of the queue and whatever a reset    *)
(* interrupts.                                                             *)
(***************************************************************************)
EXTENDS FieldLog, FiniteSetTheorems, WellFoundedInduction, TLAPS

-----------------------------------------------------------------------------
(***************************************************************************)
(* Slots and blocks.                                                       *)
(***************************************************************************)

(* The first slot of the block of a slot.                                  *)
BlockStart(s) == PerBlock * BlockOf(s)

LEMMA Division ==
    ASSUME NEW s \in Nat
    PROVE  /\ BlockOf(s) \in Nat /\ BlockStart(s) \in Nat
           /\ s % PerBlock \in 0..(PerBlock - 1)
           /\ s = BlockStart(s) + (s % PerBlock)
<1>1. /\ BlockOf(s) \in Nat
      /\ s % PerBlock \in 0..(PerBlock - 1)
      /\ s = PerBlock * BlockOf(s) + (s % PerBlock)
  BY GeometryAssumption, Z3 DEF BlockOf
<1>2. PerBlock * BlockOf(s) \in Nat BY <1>1, GeometryAssumption
<1>3. QED BY <1>1, <1>2 DEF BlockStart

LEMMA Product ==
    ASSUME NEW p \in Nat \ {0}, NEW b \in Nat, NEW c \in Nat, b < c
    PROVE  p * b + p <= p * c
<1>1. PICK d \in Nat : c = b + 1 + d BY c - b - 1 \in Nat
<1>2. p * c = p * b + p + p * d /\ p * d \in Nat /\ p * b \in Nat BY <1>1
<1>3. QED BY <1>2

LEMMA BlocksApart ==
    ASSUME NEW s \in Nat, NEW t \in Nat
    PROVE  /\ BlockOf(s) = BlockOf(t) => BlockStart(s) = BlockStart(t)
           /\ BlockOf(s) < BlockOf(t) => BlockStart(s) + PerBlock <= BlockStart(t)
<1>1. BlockOf(s) \in Nat /\ BlockOf(t) \in Nat BY Division
<1>2. BlockOf(s) < BlockOf(t) => PerBlock * BlockOf(s) + PerBlock <= PerBlock * BlockOf(t)
  BY <1>1, Product, GeometryAssumption
<1>3. QED BY <1>2 DEF BlockStart

(* A slot before the first one of a block is in a block before it.         *)
LEMMA BlockBegins ==
    ASSUME NEW s \in Nat, NEW t \in Nat, s < t, t % PerBlock = 0
    PROVE  BlockOf(s) < BlockOf(t)
<1>1. PerBlock \in Nat \ {0} BY GeometryAssumption
<1>2. /\ BlockOf(s) \in Nat /\ BlockStart(s) \in Nat
      /\ s % PerBlock \in 0..(PerBlock - 1) /\ s = BlockStart(s) + (s % PerBlock)
  BY Division
<1>3. BlockOf(t) \in Nat /\ BlockStart(t) \in Nat /\ t = BlockStart(t) + (t % PerBlock)
  BY Division
<1>4. /\ BlockOf(s) = BlockOf(t) => BlockStart(s) = BlockStart(t)
      /\ BlockOf(t) < BlockOf(s) => BlockStart(t) + PerBlock <= BlockStart(s)
  BY BlocksApart
<1>5. QED BY <1>1, <1>2, <1>3, <1>4

(* The slot after another is in its block, or the first one of the next.   *)
LEMMA BlockContinues ==
    ASSUME NEW s \in Nat, (s + 1) % PerBlock # 0
    PROVE  BlockOf(s + 1) = BlockOf(s)
<1> DEFINE t == s + 1
<1>1. PerBlock \in Nat \ {0} /\ t \in Nat BY GeometryAssumption
<1>2. /\ BlockOf(s) \in Nat /\ BlockStart(s) \in Nat
      /\ s % PerBlock \in 0..(PerBlock - 1) /\ s = BlockStart(s) + (s % PerBlock)
  BY Division
<1> HIDE DEF t
<1>3. /\ BlockOf(t) \in Nat /\ BlockStart(t) \in Nat
      /\ t % PerBlock \in 0..(PerBlock - 1) /\ t = BlockStart(t) + (t % PerBlock)
  BY <1>1, Division
<1>4. /\ BlockOf(s) < BlockOf(t) => BlockStart(s) + PerBlock <= BlockStart(t)
      /\ BlockOf(t) < BlockOf(s) => BlockStart(t) + PerBlock <= BlockStart(s)
  BY <1>1, BlocksApart
<1>5. t = s + 1 /\ t % PerBlock # 0 BY DEF t
<1>6. BlockOf(t) = BlockOf(s) BY <1>1, <1>2, <1>3, <1>4, <1>5
<1>7. QED BY <1>6 DEF t

LEMMA SlotBlock ==
    ASSUME NEW s \in Slots
    PROVE  s \in Nat /\ BlockOf(s) \in 0..(Blocks - 1)
<1>1. PerBlock \in Nat \ {0} /\ Blocks \in Nat \ {0} /\ Capacity \in Nat
  BY GeometryAssumption DEF Capacity
<1>2. s \in Nat /\ s < Capacity BY <1>1 DEF Slots
<1>3. BlockOf(s) \in Nat /\ BlockStart(s) \in Nat /\ BlockStart(s) <= s
  BY <1>1, <1>2, Division
<1>4. Blocks < BlockOf(s) => Capacity + PerBlock <= BlockStart(s)
  <2>1. Blocks < BlockOf(s) => PerBlock * Blocks + PerBlock <= PerBlock * BlockOf(s)
    BY <1>1, <1>3, Product
  <2>2. PerBlock * Blocks = Capacity BY <1>1 DEF Capacity
  <2>3. QED BY <2>1, <2>2 DEF BlockStart
<1>5. Blocks = BlockOf(s) => Capacity = BlockStart(s) BY <1>1 DEF Capacity, BlockStart
<1>6. BlockOf(s) < Blocks BY <1>1, <1>2, <1>3, <1>4, <1>5
<1>7. QED BY <1>1, <1>2, <1>3, <1>6

-----------------------------------------------------------------------------
(***************************************************************************)
(* What a scan finds.                                                      *)
(***************************************************************************)

LessThan == {ss \in Nat \X Nat : ss[1] < ss[2]}

LEMMA Least ==
    ASSUME NEW T, T \subseteq Nat, T # {}
    PROVE  \E x \in T : \A y \in T : x <= y
<1>1. IsWellFoundedOn(LessThan, Nat)
  BY NatLessThanWellFounded, Zenon DEF OpToRel, LessThan
<1>2. \E x \in T : \A y \in T : <<y, x>> \notin LessThan
  BY <1>1, WFMin
<1>3. ASSUME NEW x \in T, NEW y \in T, <<y, x>> \notin LessThan PROVE x <= y
  BY <1>3 DEF LessThan
<1>4. QED BY <1>2, <1>3

(* The scan stops at the first slot that is not valid, or at the end.      *)
LEMMA ReadableIs ==
    /\ Readable \in 0..Capacity
    /\ \A s \in 0..(Readable - 1) : flash[s].kind = "valid"
    /\ Readable < Capacity => flash[Readable].kind # "valid"
<1> DEFINE T == {n \in 0..Capacity : n < Capacity => flash[n].kind # "valid"}
<1>1. Capacity \in Nat BY GeometryAssumption DEF Capacity
<1>2. T \subseteq Nat /\ Capacity \in T BY <1>1
<1>3. PICK n \in T : \A m \in T : n <= m
  <2> HIDE DEF T
  <2>1. QED BY <1>2, Least
<1>4. \A s \in 0..(n - 1) : flash[s].kind = "valid"
  <2>1. ASSUME NEW s \in 0..(n - 1), flash[s].kind # "valid" PROVE FALSE
    BY <1>1, <1>3, <2>1
  <2>2. QED BY <2>1
<1>5. QED BY <1>1, <1>3, <1>4 DEF Readable

-----------------------------------------------------------------------------
(***************************************************************************)
(* The log thread, init and the shell.                                     *)
(***************************************************************************)
NothingKept == \A s \in Slots : kept[s] = Empty
EmptyBelow(b) == \A s \in Slots : BlockOf(s) < b => flash[s] = Empty

(* Who holds the mutex, and what the log thread relies on while it works.  *)
ActorsInv ==
    /\ shell.erasing <=> mutex = "shell"
    /\ log.pc \in {"erasing", "writing"} <=> mutex = "log"
    /\ boot.phase # "done" => log.pc = "idle" /\ ~cursor.full
    /\ log.pc # "idle" => cursor.sequence <= MaxSequence
    /\ mutex = "log" => cursor.ready /\ cursor.offset < Capacity
    /\ log.pc = "erasing" => OpensBlock

(* An erase in progress, whether init's or the shell's, leaves nothing     *)
(* behind it; only an erase by the shell can open the log before init has. *)
ErasesInv ==
    /\ shell.erasing => NothingKept /\ EmptyBelow(shell.block)
    /\ boot.phase = "erase" => EmptyBelow(boot.block)
    /\ boot.phase = "rescan" => EmptyBelow(Blocks)
    /\ boot.phase # "done" /\ cursor.ready => EmptyBelow(Blocks)

(* In the flash: a block is used from its start, and what was acknowledged *)
(* is readable.                                                            *)
UsedFromStart ==
    \A s, t \in Slots :
        s < t /\ BlockOf(s) = BlockOf(t) /\ flash[s] = Empty => flash[t] = Empty

KeptReadable ==
    \A s \in Slots : kept[s] # Empty =>
        flash[s] = kept[s] /\ \A t \in 0..s : flash[t].kind = "valid"

AreaInv ==
    /\ UsedFromStart
    /\ KeptReadable
    /\ boot.phase \in {"erase", "rescan"} => NothingKept

(* In RAM: the scan has found records only, the cursor is behind them, and *)
(* before an erased slot or a block yet to be erased.                      *)
ScanInv ==
    boot.phase \in {"scan", "rescan"} /\ mutex # "shell" =>
        \A s \in 0..(boot.slot - 1) : flash[s].kind = "valid"

DoneInv ==
    boot.phase = "done" /\ mutex # "shell" =>
        /\ \A s \in 0..(cursor.offset - 1) : flash[s].kind = "valid"
        /\ \A s \in Slots : kept[s] # Empty => s < cursor.offset
        /\ cursor.ready /\ cursor.offset < Capacity /\ (log.pc = "writing" \/ ~OpensBlock)
               => flash[cursor.offset] = Empty

CursorInv == ScanInv /\ DoneInv

(* An erase that overtook the scan at boot, and a failed call, break all   *)
(* of this until the next erase.                                           *)
FlashInv ==
    /\ ~failed /\ ~overtaken => AreaInv /\ CursorInv
    /\ DisabledOnlyToPreserve

-----------------------------------------------------------------------------
(***************************************************************************)
(* Types.                                                                  *)
(***************************************************************************)

(* What a step of the field log may do to the storage.                     *)
StorageNext ==
    \/ ScanValid \/ ScanEmpty \/ ScanInvalid \/ ScanFails
    \/ BootErase \/ BootEraseFails
    \/ FillHeader \/ AppendRefused \/ AppendBegin \/ AppendErase \/ AppendWrite \/ AppendFails
    \/ ShellErase \/ ShellEraseBlock \/ ShellEraseFails
    \/ Reset
    \/ UNCHANGED storageVars

LEMMA StorageSteps ==
    ASSUME [Next]_vars
    PROVE  StorageNext
  BY Zenon DEF Next, Storage, FlashFails, Restart, Note, ProcessSample, ProcessRecord,
               SummaryBegin, SummaryEnd, vars, StorageNext

LEMMA Sizes == Capacity \in Nat \ {0} /\ MaxSequence \in Nat
               /\ 0 \in Slots /\ Slots \subseteq Nat
<1>1. Capacity \in Nat \ {0} BY GeometryAssumption DEF Capacity
<1>2. QED BY <1>1, SequenceAssumption DEF Slots

LEMMA SlotKinds == Empty \in Slot /\ Invalid \in Slot /\ \A n \in 0..MaxSequence : Record(n) \in Slot
  BY Sizes DEF Empty, Invalid, Record, Slot

LEMMA Kinds ==
    ASSUME NEW x \in Slot
    PROVE  /\ Empty.kind = "empty" /\ Invalid.kind = "invalid" /\ Empty # Invalid
           /\ \A n : Record(n).kind = "valid" /\ Record(n) # Empty
           /\ x.kind \in {"valid", "invalid"} \/ x = Empty
  BY DEF Slot, Empty, Invalid, Record

Cursor == [offset : 0..Capacity, sequence : 0..(MaxSequence + 1),
           ready : BOOLEAN, full : BOOLEAN]

BootState == [phase : {"scan", "erase", "rescan", "done"}, block : 0..(Blocks - 1), slot : Slots]

LEMMA CursorUpdates ==
    ASSUME NEW c \in Cursor
    PROVE  /\ [c EXCEPT !.full = TRUE, !.ready = FALSE] \in Cursor
           /\ [NoCursor EXCEPT !.ready = c.ready] \in Cursor
           /\ CursorReset \in Cursor
           /\ NoCursor \in Cursor
           /\ \A s \in Slots, b \in BOOLEAN :
                  /\ [c EXCEPT !.offset = s, !.ready = b] \in Cursor
                  /\ [c EXCEPT !.offset = s, !.full = b] \in Cursor
<1>1. [c EXCEPT !.full = TRUE, !.ready = FALSE] \in Cursor BY DEF Cursor
<1>2. NoCursor \in Cursor /\ c.ready \in BOOLEAN BY Sizes DEF Cursor, NoCursor
<1>3. [NoCursor EXCEPT !.ready = c.ready] \in Cursor /\ CursorReset \in Cursor
  BY <1>2 DEF Cursor, CursorReset
<1>4. ASSUME NEW s \in Slots, NEW b \in BOOLEAN
      PROVE  /\ [c EXCEPT !.offset = s, !.ready = b] \in Cursor
             /\ [c EXCEPT !.offset = s, !.full = b] \in Cursor
  <2>1. s \in 0..Capacity BY Sizes DEF Slots
  <2>2. QED BY <2>1 DEF Cursor
<1>5. QED BY <1>1, <1>2, <1>3, <1>4

LEMMA SlotNumbers == ASSUME NEW x \in Slot PROVE x.sequence \in 0..MaxSequence
<1>1. CASE x \in {Empty, Invalid} BY <1>1, Sizes DEF Empty, Invalid
<1>2. CASE x \in {Record(m) : m \in 0..MaxSequence} BY <1>2 DEF Record
<1>3. QED BY <1>1, <1>2 DEF Slot

(* The cursor and the scan behind a record.                                *)
LEMMA ScannedType ==
    ASSUME StorageTypeOK
    PROVE  /\ AfterRecord \in Cursor
           /\ boot.slot # Capacity - 1 =>
                  /\ boot.slot + 1 \in Slots
                  /\ [boot EXCEPT !.slot = @ + 1] \in BootState
<1>1. /\ Capacity \in Nat \ {0} /\ MaxSequence \in Nat
      /\ boot.slot \in Nat /\ boot.slot < Capacity /\ boot.slot \in Slots
  BY Sizes DEF StorageTypeOK, Slots
<1>2. flash[boot.slot].sequence \in 0..MaxSequence
  BY <1>1, SlotNumbers DEF StorageTypeOK
<1>3. boot.slot + 1 \in 0..Capacity /\ flash[boot.slot].sequence + 1 \in 0..(MaxSequence + 1)
      /\ cursor.ready \in BOOLEAN /\ cursor.full \in BOOLEAN
  BY <1>1, <1>2 DEF StorageTypeOK
<1>4. AfterRecord \in Cursor
  BY <1>3 DEF AfterRecord, Cursor
<1>5. ASSUME boot.slot # Capacity - 1
      PROVE  boot.slot + 1 \in Slots /\ [boot EXCEPT !.slot = @ + 1] \in BootState
  <2>1. boot.slot + 1 \in Slots BY <1>1, <1>5 DEF Slots
  <2>2. boot \in BootState BY DEF StorageTypeOK, BootState
  <2> DEFINE t == boot.slot + 1
  <2>3. t \in Slots BY <2>1
  <2> HIDE DEF t
  <2>4. [boot EXCEPT !.slot = t] \in BootState BY <2>2, <2>3 DEF BootState
  <2>5. QED BY <2>1, <2>4 DEF t
<1>6. QED BY <1>4, <1>5

(* What the scan does with each kind of slot.                              *)
LEMMA ScanSteps ==
    ASSUME StorageTypeOK
    PROVE  /\ ScanValid =>
                  /\ boot.phase \in {"scan", "rescan"} /\ flash[boot.slot].kind = "valid"
                  /\ cursor'.offset = boot.slot + 1
                  /\ cursor'.sequence = flash[boot.slot].sequence + 1
                  /\ cursor'.ready => cursor.ready
                  /\ boot.slot = Capacity - 1 => boot'.phase = "done"
                  /\ boot.slot # Capacity - 1 =>
                         /\ boot'.phase = boot.phase /\ boot'.slot = boot.slot + 1
                         /\ cursor'.full => cursor.full
           /\ ScanEmpty =>
                  /\ boot.phase \in {"scan", "rescan"} /\ flash[boot.slot] = Empty
                  /\ cursor'.offset = boot.slot /\ cursor'.sequence = cursor.sequence
                  /\ cursor'.ready <=> ~cursor.full
                  /\ boot'.phase = "done"
           /\ ScanInvalid =>
                  /\ boot.phase \in {"scan", "rescan"} /\ flash[boot.slot].kind = "invalid"
                  /\ cursor'.offset = boot.slot /\ cursor'.sequence = cursor.sequence
                  /\ cursor'.ready <=> cursor.ready
                  /\ boot.phase = "scan" /\ boot.slot = 0 =>
                         /\ boot'.phase = "erase" /\ boot'.block = 0
                         /\ ~cursor'.full
                  /\ ~(boot.phase = "scan" /\ boot.slot = 0) => boot'.phase = "done"
           /\ ScanValid \/ ScanEmpty \/ ScanInvalid =>
                  UNCHANGED <<flash, log, shell, mutex, kept, failed, overtaken>>
<1>5. Empty.kind = "empty" BY DEF Empty
<1>1. CASE ScanValid
  <2>5. ~ScanEmpty /\ ~ScanInvalid BY <1>1, <1>5 DEF ScanValid, ScanEmpty, ScanInvalid
  <2>6. UNCHANGED <<flash, log, shell, mutex, kept, failed, overtaken>> BY <1>1 DEF ScanValid
  <2>1. cursor' = AfterRecord /\ Scanning /\ flash[boot.slot].kind = "valid"
    BY <1>1 DEF ScanValid
  <2>2. CASE boot.slot = Capacity - 1
    <3>1. boot' = BootPhase("done") BY <1>1, <2>2 DEF ScanValid
    <3>2. QED BY <2>1, <2>2, <2>5, <2>6, <3>1 DEF Scanning, AfterRecord, BootPhase
  <2>3. CASE boot.slot # Capacity - 1
    <3>1. boot' = [boot EXCEPT !.slot = @ + 1] BY <1>1, <2>3 DEF ScanValid
    <3>2. boot'.phase = boot.phase /\ boot'.slot = boot.slot + 1
      BY <3>1 DEF StorageTypeOK
    <3>3. QED BY <2>1, <2>3, <2>5, <2>6, <3>2 DEF Scanning, AfterRecord
  <2>4. QED BY <2>2, <2>3
<1>2. CASE ScanEmpty
  <2>5. ~ScanValid /\ ~ScanInvalid BY <1>2, <1>5 DEF ScanValid, ScanEmpty, ScanInvalid
  <2>6. UNCHANGED <<flash, log, shell, mutex, kept, failed, overtaken>> BY <1>2 DEF ScanEmpty
  <2>1. cursor' = [cursor EXCEPT !.offset = boot.slot, !.ready = ~cursor.full]
        /\ boot' = BootPhase("done") /\ Scanning /\ flash[boot.slot] = Empty
    BY <1>2 DEF ScanEmpty
  <2>2. /\ cursor'.offset = boot.slot /\ cursor'.sequence = cursor.sequence
        /\ cursor'.ready <=> ~cursor.full
    BY <2>1 DEF StorageTypeOK
  <2>3. QED BY <2>1, <2>2, <2>5, <2>6 DEF Scanning, BootPhase
<1>3. CASE ScanInvalid
  <2>5. ~ScanValid /\ ~ScanEmpty BY <1>3, <1>5 DEF ScanValid, ScanEmpty, ScanInvalid
  <2>6. UNCHANGED <<flash, log, shell, mutex, kept, failed, overtaken>> BY <1>3 DEF ScanInvalid
  <2>1. cursor' = [cursor EXCEPT !.offset = boot.slot, !.full = ~EraseAtBoot]
        /\ boot' = BootPhase(IF EraseAtBoot THEN "erase" ELSE "done")
        /\ Scanning /\ flash[boot.slot].kind = "invalid"
    BY <1>3 DEF ScanInvalid
  <2>2. /\ cursor'.offset = boot.slot /\ cursor'.sequence = cursor.sequence
        /\ cursor'.ready <=> cursor.ready
        /\ cursor'.full <=> ~EraseAtBoot
    BY <2>1 DEF StorageTypeOK
  <2>3. /\ EraseAtBoot => boot'.phase = "erase" /\ boot'.block = 0
        /\ ~EraseAtBoot => boot'.phase = "done"
    BY <2>1 DEF BootPhase
  <2>4. QED BY <2>1, <2>2, <2>3, <2>5, <2>6 DEF Scanning, EraseAtBoot
<1>4. QED BY <1>1, <1>2, <1>3

LEMMA StorageTypeStep ==
    ASSUME StorageTypeOK, ActorsInv, StorageNext
    PROVE  StorageTypeOK'
<1> USE DEF StorageTypeOK
<1>0. /\ Capacity \in Nat \ {0} /\ MaxSequence \in Nat /\ Blocks \in Nat \ {0}
      /\ Empty \in Slot /\ Invalid \in Slot /\ \A n \in 0..MaxSequence : Record(n) \in Slot
  BY Sizes, SlotKinds, GeometryAssumption
<1>1. \A b : BlockErased(b) \in [Slots -> Slot]
  BY <1>0 DEF BlockErased
<1>2. cursor \in Cursor /\ NoCursor \in Cursor
  <2>1. cursor \in Cursor BY DEF Cursor
  <2>2. QED BY <2>1, CursorUpdates
<1>20. /\ boot \in BootState /\ boot.slot \in Slots
       /\ \A p \in {"scan", "erase", "rescan", "done"} : BootPhase(p) \in BootState
  BY <1>0, Sizes DEF BootState, BootPhase
<1>3. CASE ScanValid \/ ScanEmpty \/ ScanInvalid \/ ScanFails
  <2>1. cursor' \in Cursor
    <3>1. CASE ScanValid BY <3>1, ScannedType DEF ScanValid
    <3>2. CASE ScanEmpty
      <4> DEFINE b == ~cursor.full
      <4>1. b \in BOOLEAN /\ cursor' = [cursor EXCEPT !.offset = boot.slot, !.ready = b]
        BY <3>2 DEF ScanEmpty
      <4> HIDE DEF b, StorageTypeOK
      <4>2. QED BY <1>2, <1>20, <4>1, CursorUpdates
    <3>3. CASE ScanInvalid
      <4> DEFINE b == ~EraseAtBoot
      <4>1. b \in BOOLEAN /\ cursor' = [cursor EXCEPT !.offset = boot.slot, !.full = b]
        BY <3>3 DEF ScanInvalid
      <4> HIDE DEF b, StorageTypeOK
      <4>2. QED BY <1>2, <1>20, <4>1, CursorUpdates
    <3>4. CASE ScanFails BY <1>2, <3>4 DEF ScanFails
    <3>5. QED BY <1>3, <3>1, <3>2, <3>3, <3>4
  <2>2. boot' \in BootState
    BY <1>3, <1>20, ScannedType DEF ScanValid, ScanEmpty, ScanInvalid, ScanFails
  <2>3. QED
    BY <1>3, <2>1, <2>2 DEF ScanValid, ScanEmpty, ScanInvalid, ScanFails, Cursor, BootState
<1>4. CASE BootErase
  <2>1. cursor' \in Cursor BY <1>2, <1>4, CursorUpdates DEF BootErase
  <2>2. boot' \in BootState
    <3>1. CASE boot.block = Blocks - 1 BY <1>0, <1>4, <1>20, <3>1 DEF BootErase
    <3>2. CASE boot.block < Blocks - 1
      <4> DEFINE b == boot.block + 1
      <4>1. b \in 0..(Blocks - 1) /\ boot' = [boot EXCEPT !.block = b]
        BY <1>0, <1>4, <3>2 DEF BootErase
      <4> HIDE DEF b, StorageTypeOK
      <4>2. QED BY <1>20, <4>1 DEF BootState
    <3>3. QED BY <1>0, <1>4, <3>1, <3>2 DEF BootErase
  <2>3. QED BY <1>0, <1>1, <1>4, <2>1, <2>2 DEF BootErase, Cursor, BootState
<1>5. CASE BootEraseFails
  BY <1>0, <1>5, <1>20 DEF BootEraseFails, BootState
<1>6. CASE FillHeader
  BY <1>0, <1>6 DEF FillHeader
<1>7. CASE AppendRefused
  <2>1. cursor' = cursor \/ cursor' = [cursor EXCEPT !.full = TRUE, !.ready = FALSE]
    BY <1>7 DEF AppendRefused
  <2>2. cursor' \in Cursor
    <3> HIDE DEF StorageTypeOK
    <3>1. QED BY <1>2, <2>1, CursorUpdates
  <2>3. QED BY <1>0, <1>7, <2>2 DEF AppendRefused, NoLog, Cursor
<1>8. CASE AppendBegin
  BY <1>0, <1>8 DEF AppendBegin
<1>9. CASE AppendErase
  BY <1>0, <1>1, <1>9 DEF AppendErase
<1>10. CASE AppendWrite
  <2>1. cursor.offset < Capacity /\ cursor.sequence <= MaxSequence
    BY <1>10 DEF AppendWrite, ActorsInv
  <2>2. cursor' \in Cursor
    <3> DEFINE o == cursor.offset + 1
               n == cursor.sequence + 1
    <3>1. o \in 0..Capacity /\ n \in 0..(MaxSequence + 1) BY <1>0, <2>1
    <3>2. cursor' = [cursor EXCEPT !.offset = o, !.sequence = n] BY <1>10 DEF AppendWrite
    <3> HIDE DEF o, n
    <3>3. QED BY <3>1, <3>2 DEF Cursor
  <2>3. Record(log.sequence) \in Slot /\ Programmed(flash[cursor.offset]) \in Slot
    BY <1>0 DEF Programmed
  <2>4. flash' \in [Slots -> Slot] /\ kept' \in [Slots -> Slot]
    BY <1>10, <2>3 DEF AppendWrite
  <2>5. QED BY <1>0, <1>10, <2>2, <2>4 DEF AppendWrite, NoLog, Cursor
<1>11. CASE AppendFails
  BY <1>0, <1>11 DEF AppendFails, NoLog
<1>12. CASE ShellErase
  BY <1>0, <1>12 DEF ShellErase
<1>13. CASE ShellEraseBlock
  <2>1. cursor' \in Cursor BY <1>2, <1>13, CursorUpdates DEF ShellEraseBlock
  <2>2. shell' \in [erasing : BOOLEAN, block : 0..(Blocks - 1)]
    <3>1. CASE shell.block < Blocks - 1
      <4>1. shell.block + 1 \in 0..(Blocks - 1) BY <1>0, <3>1
      <4>2. shell' = [shell EXCEPT !.block = shell.block + 1]
        BY <1>0, <1>13, <3>1 DEF ShellEraseBlock
      <4> DEFINE b == shell.block + 1
      <4>3. b \in 0..(Blocks - 1) /\ shell' = [shell EXCEPT !.block = b]
            /\ shell \in [erasing : BOOLEAN, block : 0..(Blocks - 1)]
        BY <4>1, <4>2
      <4> HIDE DEF b, StorageTypeOK
      <4>4. QED BY <4>3
    <3>2. CASE shell.block = Blocks - 1
      <4>1. shell' = ShellIdle BY <1>0, <1>13, <3>2 DEF ShellEraseBlock
      <4>2. 0 \in 0..(Blocks - 1) BY <1>0
      <4> HIDE DEF StorageTypeOK
      <4>3. QED BY <4>1, <4>2 DEF ShellIdle
    <3>3. QED BY <1>0, <3>1, <3>2
  <2>3. failed' \in BOOLEAN /\ overtaken' \in BOOLEAN
    BY <1>13, Zenon DEF ShellEraseBlock, ScanIsOvertaken, Scanning, StorageTypeOK
  <2>4. QED BY <1>0, <1>1, <1>13, <2>1, <2>2, <2>3 DEF ShellEraseBlock, Cursor
<1>14. CASE ShellEraseFails
  BY <1>0, <1>14 DEF ShellEraseFails, ShellIdle
<1>15. CASE Reset
  <2>1. flash' \in [Slots -> Slot]
    <3>1. PICK block \in [BeingErased -> {"kept", "unreadable", "erased"}],
               slot \in [BeingWritten -> {"kept", "unreadable", "written"}] :
             flash' = [s \in Slots |->
               CASE BlockOf(s) \in BeingErased /\ block[BlockOf(s)] = "unreadable" -> Invalid
                 [] BlockOf(s) \in BeingErased /\ block[BlockOf(s)] = "erased" -> Empty
                 [] s \in BeingWritten /\ slot[s] = "unreadable" -> Invalid
                 [] s \in BeingWritten /\ slot[s] = "written" -> Programmed(flash[s])
                 [] OTHER -> flash[s]]
      BY <1>15 DEF Reset
    <3>2. \A s \in Slots : flash[s] \in Slot /\ Programmed(flash[s]) \in Slot
      BY <1>0 DEF Programmed
    <3>3. QED BY <1>0, <3>1, <3>2
  <2>2. QED BY <1>0, <1>2, <1>15, <1>20, <2>1 DEF Cursor, Reset, NoLog, BootState, ShellIdle
<1>16. CASE UNCHANGED storageVars
  BY <1>16 DEF storageVars
<1>17. QED
  BY <1>3, <1>4, <1>5, <1>6, <1>7, <1>8, <1>9, <1>10, <1>11, <1>12, <1>13, <1>14, <1>15,
     <1>16 DEF StorageNext


LEMMA ActorsStep ==
    ASSUME StorageTypeOK, ActorsInv, StorageNext
    PROVE  ActorsInv'
<1> USE DEF StorageTypeOK, ActorsInv, NoCursor, NoLog, BootPhase, ShellIdle
<1>1. CASE ScanValid \/ ScanEmpty \/ ScanInvalid \/ ScanFails
  <2>1. boot.phase # "done" /\ log.pc = "idle" /\ ~cursor.full
    BY <1>1 DEF ScanValid, ScanEmpty, ScanInvalid, ScanFails, Scanning
  <2>2. boot'.phase # "done" => ~cursor'.full
    <3> HIDE DEF ActorsInv, NoCursor, NoLog, BootPhase, ShellIdle
    <3>1. CASE ScanValid \/ ScanEmpty \/ ScanInvalid BY <2>1, <3>1, ScanSteps
    <3>2. CASE ScanFails BY <3>2 DEF ScanFails, BootPhase
    <3>3. QED BY <1>1, <3>1, <3>2
  <2>3. UNCHANGED <<log, shell, mutex>>
    BY <1>1 DEF ScanValid, ScanEmpty, ScanInvalid, ScanFails
  <2> HIDE DEF StorageTypeOK, NoCursor, NoLog, BootPhase, ShellIdle
  <2>4. QED BY <2>1, <2>2, <2>3
<1>9. CASE BootErase \/ BootEraseFails
  BY <1>9 DEF BootErase, BootEraseFails, OpensBlock
<1>2. CASE FillHeader \/ AppendRefused \/ AppendBegin
  BY <1>2 DEF FillHeader, AppendRefused, AppendBegin, OpensBlock
<1>3. CASE AppendErase \/ AppendWrite \/ AppendFails
  BY <1>3 DEF AppendErase, AppendWrite, AppendFails, OpensBlock
<1>4. CASE ShellErase \/ ShellEraseFails
  BY <1>4 DEF ShellErase, ShellEraseFails, OpensBlock
<1>5. CASE ShellEraseBlock
  BY <1>5, Sizes DEF ShellEraseBlock, CursorReset, OpensBlock
<1>6. CASE Reset
  BY <1>6 DEF Reset
<1>7. CASE UNCHANGED storageVars
  BY <1>7 DEF storageVars, OpensBlock
<1>8. QED BY <1>1, <1>2, <1>3, <1>4, <1>5, <1>6, <1>7, <1>9 DEF StorageNext

LEMMA ErasedSlots ==
    ASSUME NEW b, flash' = BlockErased(b), NEW s \in Slots
    PROVE  flash'[s] = IF BlockOf(s) = b THEN Empty ELSE flash[s]
  BY DEF BlockErased

LEMMA ErasesStep ==
    ASSUME StorageTypeOK, ActorsInv, ErasesInv, StorageNext
    PROVE  ErasesInv'
<1> DEFINE Below(b) == \A s \in Slots : BlockOf(s) < b => flash[s] = Empty
           BelowNext(b) == \A s \in Slots : BlockOf(s) < b => flash'[s] = Empty
<1>0. /\ \A s \in Slots : BlockOf(s) \in 0..(Blocks - 1)
      /\ boot \in BootState
      /\ boot.phase \in {"scan", "erase", "rescan", "done"} /\ boot.block \in 0..(Blocks - 1)
      /\ shell \in [erasing : BOOLEAN, block : 0..(Blocks - 1)]
      /\ Blocks \in Nat \ {0}
      /\ cursor.ready \in BOOLEAN
  BY SlotBlock, GeometryAssumption DEF StorageTypeOK, BootState
<1>1. /\ shell.erasing => NothingKept /\ Below(shell.block)
      /\ boot.phase = "erase" => Below(boot.block)
      /\ boot.phase = "rescan" => Below(Blocks)
      /\ boot.phase # "done" /\ cursor.ready => Below(Blocks)
      /\ Below(0)
  BY <1>0 DEF ErasesInv, EmptyBelow
<1>2. SUFFICES /\ shell'.erasing => NothingKept' /\ BelowNext(shell'.block)
               /\ boot'.phase = "erase" => BelowNext(boot'.block)
               /\ boot'.phase = "rescan" => BelowNext(Blocks)
               /\ boot'.phase # "done" /\ cursor'.ready => BelowNext(Blocks)
  BY DEF ErasesInv, EmptyBelow
<1>3. flash' = flash => \A c : Below(c) => BelowNext(c) OBVIOUS
<1>4. ASSUME NEW b \in 0..(Blocks - 1), flash' = BlockErased(b)
      PROVE  /\ \A c : Below(c) => BelowNext(c)
             /\ Below(b) => BelowNext(b + 1)
  BY <1>0, <1>4, ErasedSlots
<1> HIDE DEF Below, BelowNext
<1>5. kept' = kept /\ NothingKept => NothingKept' BY DEF NothingKept
<1>6. CASE ScanValid \/ ScanEmpty \/ ScanInvalid \/ ScanFails
  <2>1. flash' = flash /\ kept' = kept /\ shell' = shell
    BY <1>6 DEF ScanValid, ScanEmpty, ScanInvalid, ScanFails
  <2>2. /\ boot'.phase # "done" => boot.phase # "done"
        /\ boot'.phase = "rescan" => boot.phase = "rescan"
        /\ boot'.phase = "erase" => boot'.block = 0
        /\ boot'.phase # "done" /\ cursor'.ready => cursor.ready
    <3>1. CASE ScanValid \/ ScanEmpty \/ ScanInvalid BY <3>1, ScanSteps
    <3>2. CASE ScanFails BY <3>2 DEF ScanFails, BootPhase
    <3>3. QED BY <1>6, <3>1, <3>2
  <2>3. QED BY <1>1, <1>3, <1>5, <2>1, <2>2
<1>7. CASE BootErase
  <2>1. /\ \A c : Below(c) => BelowNext(c)
        /\ Below(boot.block) => BelowNext(boot.block + 1)
    BY <1>0, <1>4, <1>7 DEF BootErase
  <2>2. CASE boot.block = Blocks - 1
    <3>1. boot.block + 1 = Blocks BY <1>0, <2>2
    <3>2. BelowNext(Blocks) BY <1>1, <1>7, <2>1, <3>1 DEF BootErase
    <3>3. boot'.phase = "rescan" BY <1>0, <1>7, <2>2 DEF BootErase, BootPhase
    <3>4. QED BY <1>1, <1>5, <1>7, <2>1, <3>2, <3>3 DEF BootErase
  <2>3. CASE boot.block # Blocks - 1
    <3>1. boot'.phase = "erase" /\ boot'.block = boot.block + 1 /\ cursor' = cursor
      BY <1>0, <1>7, <2>3 DEF BootErase, BootState
    <3>2. QED BY <1>1, <1>5, <1>7, <2>1, <3>1 DEF BootErase
  <2>4. QED BY <2>2, <2>3
<1>8. CASE BootEraseFails
  BY <1>1, <1>3, <1>5, <1>8 DEF BootEraseFails, BootPhase
<1>9. CASE FillHeader \/ AppendRefused \/ AppendBegin
  <2>1. boot' = boot /\ (cursor'.ready => cursor.ready)
    BY <1>9 DEF FillHeader, AppendRefused, AppendBegin, StorageTypeOK
  <2>2. QED BY <1>1, <1>3, <1>5, <1>9, <2>1 DEF FillHeader, AppendRefused, AppendBegin
<1>10. CASE AppendErase \/ AppendWrite \/ AppendFails
  <2>1. ~shell'.erasing /\ boot'.phase = "done"
    BY <1>10, <1>0 DEF ActorsInv, AppendErase, AppendWrite, AppendFails
  <2>2. QED BY <2>1
<1>11. CASE ShellErase
  BY <1>1, <1>3, <1>11 DEF ShellErase, NothingKept
<1>12. CASE ShellEraseBlock
  <2>1. /\ \A c : Below(c) => BelowNext(c)
        /\ Below(shell.block) => BelowNext(shell.block + 1)
    BY <1>0, <1>4, <1>12 DEF ShellEraseBlock
  <2>2. shell'.erasing => shell.erasing /\ shell'.block = shell.block + 1
    BY <1>0, <1>12 DEF ShellEraseBlock, ShellIdle
  <2>3. CASE shell.block < Blocks - 1
    <3>1. cursor' = cursor BY <1>0, <1>12, <2>3 DEF ShellEraseBlock
    <3>2. QED BY <1>1, <1>5, <1>12, <2>1, <2>2, <3>1 DEF ShellEraseBlock
  <2>4. CASE shell.block = Blocks - 1
    <3>1. shell.block + 1 = Blocks BY <1>0, <2>4
    <3>2. BelowNext(Blocks) BY <1>1, <1>12, <2>1, <3>1 DEF ShellEraseBlock
    <3>3. QED BY <1>1, <1>5, <1>12, <2>1, <2>2, <3>2 DEF ShellEraseBlock
  <2>5. QED BY <1>0, <2>3, <2>4
<1>13. CASE ShellEraseFails
  BY <1>1, <1>3, <1>5, <1>13 DEF ShellEraseFails, ShellIdle
<1>14. CASE Reset
  BY <1>14 DEF Reset, ShellIdle, BootPhase, NoCursor
<1>15. CASE UNCHANGED storageVars
  BY <1>1, <1>3, <1>5, <1>15 DEF storageVars
<1>16. QED
  BY <1>6, <1>7, <1>8, <1>9, <1>10, <1>11, <1>12, <1>13, <1>14, <1>15 DEF StorageNext

-----------------------------------------------------------------------------
(***************************************************************************)
(* The flash.                                                              *)
(***************************************************************************)

(* Init takes the end of the records for the place of the next one.        *)
LEMMA ScanFlash ==
    ASSUME StorageTypeOK, ActorsInv, ErasesInv, AreaInv, ScanInv,
           ScanValid \/ ScanEmpty \/ ScanInvalid
    PROVE  AreaInv' /\ CursorInv'
<1> DEFINE n == boot.slot
<1>1. /\ Capacity \in Nat \ {0} /\ n \in Slots /\ n \in Nat /\ n < Capacity
      /\ \A s \in Slots : s \in Nat /\ s < Capacity /\ flash[s] \in Slot
      /\ boot.phase \in {"scan", "rescan"}
  BY Sizes DEF StorageTypeOK, Slots, ScanValid, ScanEmpty, ScanInvalid, Scanning
<1>2. flash' = flash /\ kept' = kept /\ log' = log /\ mutex' = mutex /\ log.pc = "idle"
  BY <1>1 DEF ScanValid, ScanEmpty, ScanInvalid, ActorsInv
<1>3. mutex = "shell" => NothingKept BY DEF ActorsInv, ErasesInv
<1>4. mutex # "shell" => \A s \in 0..(n - 1) : flash[s].kind = "valid" BY <1>1 DEF ScanInv
<1>5. \A s \in Slots : flash[n].kind # "valid" /\ kept[s] # Empty => s < n
  BY <1>1 DEF AreaInv, KeptReadable
<1>6. flash[n] # Empty => flash[n].kind # "empty" BY <1>1, Kinds
<1> HIDE DEF n
<1>7. AreaInv'
  <2>1. boot'.phase \in {"erase", "rescan"} =>
            boot.phase = "rescan" \/ (flash[n].kind = "invalid" /\ n = 0)
    BY ScanSteps DEF n
  <2>2. boot'.phase \in {"erase", "rescan"} => NothingKept
    BY <1>1, <1>5, <2>1 DEF AreaInv, NothingKept
  <2>3. QED BY <1>2, <2>2 DEF AreaInv, UsedFromStart, KeptReadable, NothingKept
<1>8. CASE ScanValid
  <2>1. flash[n].kind = "valid" /\ cursor'.offset = n + 1
    BY <1>8, ScanSteps DEF n
  <2>2. mutex # "shell" => \A s \in 0..n : flash[s].kind = "valid" BY <1>1, <1>4, <2>1
  <2>3. CASE n = Capacity - 1
    <3>1. boot'.phase = "done" /\ cursor'.offset = Capacity
      BY <1>1, <1>8, <2>1, <2>3, ScanSteps DEF n
    <3>2. QED BY <1>1, <1>2, <1>7, <2>2, <2>3, <3>1 DEF CursorInv, ScanInv, DoneInv
  <2>4. CASE n # Capacity - 1
    <3>1. boot'.phase = boot.phase /\ boot'.slot = n + 1
      BY <1>8, <2>4, ScanSteps DEF n
    <3>2. QED BY <1>1, <1>2, <1>7, <2>2, <3>1 DEF CursorInv, ScanInv, DoneInv
  <2>5. QED BY <2>3, <2>4
<1>9. CASE ScanEmpty
  <2>1. flash[n] = Empty /\ cursor'.offset = n /\ boot'.phase = "done"
    BY <1>9, ScanSteps DEF n
  <2>2. flash[n].kind # "valid" BY <2>1, Kinds, SlotKinds
  <2>3. QED BY <1>2, <1>4, <1>5, <1>7, <2>1, <2>2 DEF CursorInv, ScanInv, DoneInv
<1>10. CASE ScanInvalid
  <2>1. flash[n].kind = "invalid" /\ cursor'.offset = n /\ (cursor'.ready <=> cursor.ready)
    BY <1>10, ScanSteps DEF n
  <2>2. ~cursor.ready
    <3>1. flash[n] # Empty BY <2>1, Kinds, SlotKinds
    <3>2. BlockOf(n) < Blocks BY <1>1, SlotBlock, GeometryAssumption
    <3>3. QED BY <1>1, <3>1, <3>2 DEF ErasesInv, EmptyBelow
  <2>3. boot'.phase \in {"done", "erase"} BY <1>10, ScanSteps
  <2>4. QED BY <1>2, <1>4, <1>5, <1>7, <2>1, <2>2, <2>3 DEF CursorInv, ScanInv, DoneInv
<1>11. QED BY <1>8, <1>9, <1>10

LEMMA ErasedFromStart ==
    ASSUME UsedFromStart, NEW b, flash' = BlockErased(b)
    PROVE  UsedFromStart'
  BY ErasedSlots DEF UsedFromStart

LEMMA BootEraseFlash ==
    ASSUME StorageTypeOK, AreaInv, BootErase
    PROVE  AreaInv' /\ CursorInv'
<1>1. boot'.phase \in {"erase", "rescan"} /\ boot.phase = "erase" /\ kept' = kept
      /\ (boot'.phase = "rescan" => boot'.slot = 0)
  BY DEF BootErase, BootPhase, StorageTypeOK
<1>2. NothingKept /\ NothingKept' BY <1>1 DEF AreaInv, NothingKept
<1>3. UsedFromStart' BY ErasedFromStart DEF AreaInv, BootErase
<1>4. QED
  BY <1>1, <1>2, <1>3 DEF AreaInv, KeptReadable, NothingKept, CursorInv, ScanInv, DoneInv

LEMMA AppendFlash ==
    ASSUME StorageTypeOK, ActorsInv, AreaInv, CursorInv,
           FillHeader \/ AppendRefused \/ AppendBegin
    PROVE  AreaInv' /\ CursorInv'
<1>1. flash' = flash /\ kept' = kept /\ boot' = boot /\ boot.phase = "done"
  BY DEF FillHeader, AppendRefused, AppendBegin, ActorsInv
<1>2. AreaInv' BY <1>1 DEF AreaInv, UsedFromStart, KeptReadable, NothingKept
<1>3. CASE FillHeader
  BY <1>1, <1>2, <1>3 DEF FillHeader, CursorInv, ScanInv, DoneInv, StorageTypeOK, OpensBlock
<1>4. CASE AppendRefused
  <2>1. cursor'.offset = cursor.offset /\ log'.pc = "idle" /\ mutex' = mutex /\ mutex = "free"
        /\ (cursor'.ready => cursor.ready)
    BY <1>4 DEF AppendRefused, NoLog, StorageTypeOK
  <2>2. QED BY <1>1, <1>2, <2>1 DEF CursorInv, ScanInv, DoneInv, OpensBlock
<1>5. CASE AppendBegin
  <2>1. /\ cursor' = cursor /\ cursor.ready /\ mutex = "free" /\ mutex' = "log"
        /\ log'.pc = "writing" => ~OpensBlock
    BY <1>5 DEF AppendBegin, StorageTypeOK
  <2>2. QED BY <1>1, <1>2, <2>1 DEF CursorInv, ScanInv, DoneInv, OpensBlock
<1>6. QED BY <1>3, <1>4, <1>5

(* What the log thread does while it holds the mutex.                      *)
LEMMA AtWork ==
    ASSUME StorageTypeOK, ActorsInv, CursorInv, mutex = "log"
    PROVE  /\ boot.phase = "done" /\ ~shell.erasing /\ cursor.ready /\ cursor.offset \in Slots
           /\ \A s \in 0..(cursor.offset - 1) : flash[s].kind = "valid"
           /\ \A s \in Slots : kept[s] # Empty => s < cursor.offset
           /\ log.pc = "writing" => flash[cursor.offset] = Empty
<1>1. boot.phase = "done" BY DEF ActorsInv
<1>2. cursor.ready /\ cursor.offset < Capacity /\ cursor.offset \in Nat /\ ~shell.erasing
  BY Sizes DEF ActorsInv, StorageTypeOK
<1>3. QED BY <1>1, <1>2, Sizes DEF CursorInv, DoneInv, Slots

LEMMA AppendEraseFlash ==
    ASSUME StorageTypeOK, ActorsInv, AreaInv, CursorInv, AppendErase
    PROVE  AreaInv' /\ CursorInv'
<1> DEFINE o == cursor.offset
<1>1. mutex = "log" /\ mutex' = "log" /\ cursor' = cursor /\ kept' = kept /\ boot' = boot
      /\ OpensBlock
  BY DEF ActorsInv, AppendErase
<1>2. /\ boot.phase = "done" /\ cursor.ready /\ o \in Slots /\ o \in Nat
      /\ \A s \in 0..(o - 1) : flash[s].kind = "valid" /\ s \in Slots
      /\ \A s \in Slots : s \in Nat /\ (kept[s] # Empty => s < o)
  BY <1>1, AtWork, Sizes DEF Slots
<1>3. \A s \in Slots : flash'[s] = IF BlockOf(s) = BlockOf(o) THEN Empty ELSE flash[s]
  BY ErasedSlots DEF AppendErase
<1>4. \A s \in Slots : s < o => BlockOf(s) # BlockOf(o)
  <2>1. ASSUME NEW s \in Slots, s < o PROVE BlockOf(s) # BlockOf(o)
    <3>1. s \in Nat /\ o % PerBlock = 0 BY <1>1, <1>2 DEF OpensBlock
    <3>2. BlockOf(s) < BlockOf(o) BY <1>2, <2>1, <3>1, BlockBegins
    <3>3. BlockOf(s) \in Nat BY <3>1, Division
    <3>4. QED BY <3>2, <3>3
  <2>2. QED BY <2>1
<1>5. \A s \in Slots : s < o => flash'[s] = flash[s] BY <1>3, <1>4
<1>6. UsedFromStart' BY ErasedFromStart DEF AreaInv, AppendErase
<1> HIDE DEF o
<1>7. KeptReadable'
  <2>1. ASSUME NEW s \in Slots, kept[s] # Empty, NEW t \in 0..s
        PROVE  flash'[s] = kept[s] /\ flash'[t].kind = "valid"
    <3>1. s < o /\ t < o /\ t \in Slots /\ s \in Nat BY <1>2, <2>1, Sizes DEF Slots
    <3>2. QED BY <1>5, <2>1, <3>1 DEF AreaInv, KeptReadable
  <2>2. ASSUME NEW s \in Slots, kept[s] # Empty PROVE s \in 0..s BY <1>2
  <2>3. QED BY <1>1, <2>1, <2>2 DEF KeptReadable
<1>8. CursorInv' BY <1>1, <1>2, <1>3, <1>5 DEF CursorInv, ScanInv, DoneInv, o
<1>9. QED BY <1>1, <1>2, <1>6, <1>7, <1>8 DEF AreaInv

LEMMA AppendWriteFlash ==
    ASSUME StorageTypeOK, ActorsInv, AreaInv, CursorInv, AppendWrite
    PROVE  AreaInv' /\ CursorInv'
<1> DEFINE o == cursor.offset
           r == Record(log.sequence)
<1>1. mutex = "log" /\ log.pc = "writing" /\ boot' = boot
  BY DEF ActorsInv, AppendWrite
<1>2. /\ boot.phase = "done" /\ cursor.ready /\ o \in Slots /\ o \in Nat
      /\ \A s \in 0..(o - 1) : flash[s].kind = "valid" /\ s \in Slots
      /\ \A s \in Slots : s \in Nat /\ (kept[s] # Empty => s < o)
      /\ flash[o] = Empty
  BY <1>1, AtWork, Sizes DEF Slots
<1>3. cursor'.offset = o + 1 /\ cursor'.ready
  BY <1>2 DEF AppendWrite, StorageTypeOK
<1>4. flash' = [flash EXCEPT ![o] = r] /\ kept' = [kept EXCEPT ![o] = r]
  BY <1>2 DEF AppendWrite, Programmed
<1>5. \A s \in Slots : /\ flash'[s] = IF s = o THEN r ELSE flash[s]
                       /\ kept'[s] = IF s = o THEN r ELSE kept[s]
  BY <1>4 DEF StorageTypeOK
<1>6. r.kind = "valid" /\ r # Empty BY Kinds, SlotKinds
<1> HIDE DEF o, r
<1>7. UsedFromStart'
  <2>1. ASSUME NEW s \in Slots, NEW t \in Slots, s < t, BlockOf(s) = BlockOf(t), flash'[s] = Empty
        PROVE  flash'[t] = Empty
    <3>1. s # o /\ flash[s] = Empty BY <1>5, <1>6, <2>1
    <3>2. flash[s].kind # "valid" BY <3>1, Kinds, SlotKinds
    <3>3. t # o BY <1>2, <2>1, <3>2
    <3>4. flash[t] = Empty BY <2>1, <3>1 DEF AreaInv, UsedFromStart
    <3>5. QED BY <1>5, <3>3, <3>4
  <2>2. QED BY <2>1 DEF UsedFromStart
<1>8. \A s \in Slots : s <= o => flash'[s].kind = "valid"
  <2>1. ASSUME NEW s \in Slots, s <= o PROVE s = o \/ s \in 0..(o - 1)
    <3>1. s \in Nat /\ o \in Nat BY <1>2
    <3>2. QED BY <2>1, <3>1
  <2>2. QED BY <1>2, <1>5, <1>6, <2>1
<1>9. \A s \in Slots : kept'[s] # Empty => s <= o /\ flash'[s] = kept'[s]
  BY <1>2, <1>5 DEF AreaInv, KeptReadable
<1>10. KeptReadable'
  <2>1. ASSUME NEW s \in Slots, kept'[s] # Empty, NEW t \in 0..s
        PROVE  flash'[t].kind = "valid"
    <3>1. t \in Slots /\ t <= o BY <1>2, <1>9, <2>1, Sizes DEF Slots
    <3>2. QED BY <1>8, <3>1
  <2>2. QED BY <1>9, <2>1 DEF KeptReadable
<1>11. CursorInv'
  <2>1. ASSUME o + 1 < Capacity, ~OpensBlock' PROVE flash'[o + 1] = Empty
    <3>1. BlockOf(o + 1) = BlockOf(o) BY <1>2, <1>3, <2>1, BlockContinues DEF OpensBlock
    <3>2. o + 1 \in Slots BY <1>2, <2>1, Sizes DEF Slots
    <3>3. flash[o + 1] = Empty BY <1>2, <3>1, <3>2 DEF AreaInv, UsedFromStart
    <3>4. QED BY <1>2, <1>5, <3>2, <3>3
  <2>2. log'.pc # "writing" BY DEF AppendWrite, NoLog
  <2>3. \A s \in 0..o : s \in Slots BY <1>2, Sizes DEF Slots
  <2>4. QED BY <1>1, <1>2, <1>3, <1>8, <1>9, <2>1, <2>2, <2>3 DEF CursorInv, ScanInv, DoneInv
<1>12. QED BY <1>1, <1>2, <1>7, <1>10, <1>11 DEF AreaInv

(* An erase that completes at the first slot has overtaken nothing.        *)
LEMMA NotOvertaken ==
    ASSUME StorageTypeOK, overtaken' = ScanIsOvertaken, ~overtaken'
    PROVE  boot.phase \in {"scan", "rescan"} => boot.slot = 0
<1>1. ~ScanIsOvertaken BY Zenon
<1>2. boot.slot \in Nat BY Sizes DEF StorageTypeOK
<1>3. QED BY <1>1, <1>2 DEF ScanIsOvertaken, Scanning

LEMMA ShellFlash ==
    ASSUME StorageTypeOK, ActorsInv, ErasesInv, ~failed /\ ~overtaken => AreaInv,
           ShellErase \/ ShellEraseBlock, ~failed', ~overtaken'
    PROVE  AreaInv' /\ CursorInv'
<1>1. CASE ShellErase
  BY <1>1
     DEF ShellErase, AreaInv, UsedFromStart, KeptReadable, NothingKept, CursorInv, ScanInv, DoneInv
<1>2. CASE ShellEraseBlock
  <2>1. kept' = kept /\ boot' = boot /\ NothingKept BY <1>2 DEF ShellEraseBlock, ErasesInv
  <2>2. NothingKept' BY <2>1 DEF NothingKept
  <2>3. KeptReadable' BY <2>2 DEF KeptReadable, NothingKept
  <2>4. CASE shell.block < Blocks - 1
    <3>1. mutex' = "shell" /\ failed' = failed /\ overtaken' = overtaken
      BY <1>2, <2>4 DEF ShellEraseBlock, ActorsInv, StorageTypeOK
    <3>2. UsedFromStart'
      BY <1>2, <3>1, ErasedFromStart DEF AreaInv, ShellEraseBlock
    <3>3. QED BY <2>2, <2>3, <3>1, <3>2 DEF AreaInv, CursorInv, ScanInv, DoneInv
  <2>5. CASE shell.block = Blocks - 1
    <3>1. cursor' = CursorReset /\ overtaken' = ScanIsOvertaken
      BY <1>2, <2>5, GeometryAssumption DEF ShellEraseBlock
    <3>2. ASSUME NEW s \in Slots PROVE flash'[s] = Empty
      <4>1. BlockOf(s) < shell.block \/ BlockOf(s) = shell.block
        BY <2>5, SlotBlock, GeometryAssumption
      <4>2. QED BY <1>2, <4>1, ErasedSlots DEF ShellEraseBlock, ErasesInv, EmptyBelow
    <3>3. UsedFromStart' BY <3>2 DEF UsedFromStart
    <3>4. cursor'.ready /\ cursor'.offset = 0 BY <3>1 DEF CursorReset, NoCursor
    <3>5. DoneInv' BY <2>2, <3>2, <3>4, Sizes DEF DoneInv, NothingKept
    <3>6. ScanInv'
      <4>1. boot.phase \in {"scan", "rescan"} => boot.slot = 0
        BY <3>1, NotOvertaken
      <4>2. QED BY <2>1, <4>1 DEF ScanInv
    <3>7. QED BY <2>2, <2>3, <3>3, <3>5, <3>6 DEF AreaInv, CursorInv
  <2>6. QED BY <2>4, <2>5, GeometryAssumption DEF StorageTypeOK
<1>3. QED BY <1>1, <1>2

(* A reset hits each block being erased as a whole, and the slot being     *)
(* written by itself.                                                      *)
LEMMA ResetSlots ==
    ASSUME Reset
    PROVE  /\ \A s \in Slots : BlockOf(s) \notin BeingErased /\ s \notin BeingWritten
                  => flash'[s] = flash[s]
           /\ \A s, t \in Slots :
                  BeingWritten = {} /\ BlockOf(s) = BlockOf(t) =>
                      \/ flash'[s] = flash[s] /\ flash'[t] = flash[t]
                      \/ flash'[s] = Invalid
                      \/ flash'[t] = Empty
           /\ \A s \in Slots : BeingErased = {} /\ s \in BeingWritten =>
                  flash'[s] \in {flash[s], Invalid, Programmed(flash[s])}
<1>1. PICK block \in [BeingErased -> {"kept", "unreadable", "erased"}],
           slot \in [BeingWritten -> {"kept", "unreadable", "written"}] :
         flash' = [s \in Slots |->
           CASE BlockOf(s) \in BeingErased /\ block[BlockOf(s)] = "unreadable" -> Invalid
             [] BlockOf(s) \in BeingErased /\ block[BlockOf(s)] = "erased" -> Empty
             [] s \in BeingWritten /\ slot[s] = "unreadable" -> Invalid
             [] s \in BeingWritten /\ slot[s] = "written" -> Programmed(flash[s])
             [] OTHER -> flash[s]]
  BY DEF Reset
<1>2. \A s \in Slots : BlockOf(s) \notin BeingErased /\ s \notin BeingWritten
          => flash'[s] = flash[s]
  BY <1>1
<1>3. \A s \in Slots : BeingWritten = {} =>
          flash'[s] = IF BlockOf(s) \in BeingErased /\ block[BlockOf(s)] = "unreadable" THEN Invalid
                      ELSE IF BlockOf(s) \in BeingErased /\ block[BlockOf(s)] = "erased" THEN Empty
                      ELSE flash[s]
  BY <1>1
<1>4. \A s \in Slots : BeingErased = {} /\ s \in BeingWritten =>
          flash'[s] \in {flash[s], Invalid, Programmed(flash[s])}
  BY <1>1
<1>5. QED BY <1>2, <1>3, <1>4

(* Nothing up to an acknowledged record is being erased or written.        *)
LEMMA KeptOutOfReach ==
    ASSUME StorageTypeOK, ActorsInv, ErasesInv, AreaInv, CursorInv,
           NEW s \in Slots, kept[s] # Empty, NEW t \in 0..s
    PROVE  t \in Slots /\ t \notin BeingWritten /\ BlockOf(t) \notin BeingErased
<1> DEFINE o == cursor.offset
<1>1. t \in Slots /\ t \in Nat /\ s \in Nat /\ t <= s BY Sizes DEF Slots
<1>2. log.pc \in {"erasing", "writing"} =>
          boot.phase = "done" /\ ~shell.erasing /\ o \in Nat /\ s < o
  BY AtWork, Sizes DEF ActorsInv
<1>3. log.pc = "erasing" => o % PerBlock = 0 BY DEF ActorsInv, OpensBlock
<1>4. ~NothingKept BY DEF NothingKept
<1>5. boot.phase # "erase" /\ ~shell.erasing BY <1>4 DEF AreaInv, ErasesInv
<1>6. BeingErased \subseteq (IF log.pc = "erasing" THEN {BlockOf(o)} ELSE {})
  BY <1>5 DEF BeingErased
<1> HIDE DEF o
<1>7. log.pc = "erasing" => BlockOf(t) # BlockOf(o)
  <2>1. SUFFICES ASSUME log.pc = "erasing" PROVE BlockOf(t) # BlockOf(o) OBVIOUS
  <2>2. o \in Nat /\ t < o /\ o % PerBlock = 0 BY <1>1, <1>2, <1>3, <2>1
  <2>3. BlockOf(t) < BlockOf(o) /\ BlockOf(t) \in Nat BY <1>1, <2>2, BlockBegins, Division
  <2>4. QED BY <2>3
<1>8. t \notin BeingWritten
  <2>1. SUFFICES ASSUME log.pc = "writing" PROVE t # o BY DEF BeingWritten, o
  <2>2. QED BY <1>1, <1>2, <2>1
<1>9. QED BY <1>1, <1>6, <1>7, <1>8

LEMMA ResetFlash ==
    ASSUME StorageTypeOK, ActorsInv, ErasesInv, AreaInv, CursorInv, Reset
    PROVE  AreaInv' /\ CursorInv'
<1> DEFINE o == cursor.offset
<1>1. boot'.phase = "scan" /\ boot'.slot = 0 /\ kept' = kept BY DEF Reset, BootPhase
<1>2. /\ log.pc \in {"erasing", "writing"} =>
             /\ boot.phase = "done" /\ ~shell.erasing /\ o \in Slots /\ o \in Nat
             /\ \A s \in 0..(o - 1) : flash[s].kind = "valid"
      /\ log.pc = "writing" => flash[o] = Empty
  BY AtWork, Sizes DEF ActorsInv
<1>3. /\ \A s \in Slots : s \in Nat /\ flash[s] \in Slot
      /\ flash[o] = Empty => Programmed(flash[o]) = Record(log.sequence)
  BY Sizes DEF StorageTypeOK, Programmed
<1>4. BeingWritten = IF log.pc = "writing" THEN {o} ELSE {}
  BY <1>2 DEF BeingWritten
<1>5. BeingWritten # {} => BeingErased = {}
  BY <1>2, <1>4 DEF BeingErased
<1> HIDE DEF o
<1>6. KeptReadable'
  <2>1. ASSUME NEW s \in Slots, kept[s] # Empty, NEW t \in 0..s
        PROVE  flash'[t] = flash[t] /\ t \in Slots
    BY <2>1, KeptOutOfReach, ResetSlots
  <2>2. \A s \in Slots : s \in 0..s BY <1>3
  <2>3. QED BY <1>1, <2>1, <2>2 DEF AreaInv, KeptReadable
<1>7. UsedFromStart'
  <2>1. SUFFICES ASSUME NEW s \in Slots, NEW t \in Slots, s < t, BlockOf(s) = BlockOf(t),
                        flash'[s] = Empty
                 PROVE  flash'[t] = Empty
    BY DEF UsedFromStart
  <2>2. Invalid # Empty BY Kinds, SlotKinds
  <2>3. flash[s] = Empty => flash[t] = Empty BY <2>1 DEF AreaInv, UsedFromStart
  <2>4. CASE BeingWritten = {}
    BY <2>1, <2>2, <2>3, <2>4, ResetSlots
  <2>5. CASE BeingWritten # {}
    <3>1. log.pc = "writing" /\ BeingWritten = {o} /\ BeingErased = {} /\ flash[o] = Empty
          /\ o \in Nat /\ \A i \in 0..(o - 1) : flash[i].kind = "valid"
      BY <1>2, <1>4, <1>5, <2>5
    <3>2. \A i \in Slots : i # o => flash'[i] = flash[i] BY <3>1, ResetSlots
    <3>3. flash[s] = Empty
      BY <3>1, <3>2, <2>1
    <3>4. Empty.kind # "valid" BY Kinds, SlotKinds
    <3>5. t # o BY <1>3, <2>1, <3>1, <3>3, <3>4
    <3>6. QED BY <2>3, <3>2, <3>3, <3>5
  <2>6. QED BY <2>4, <2>5
<1>8. QED BY <1>1, <1>6, <1>7 DEF AreaInv, CursorInv, ScanInv, DoneInv

(* Init leaves appending off for what it has found only.                   *)
LEMMA DisabledStep ==
    ASSUME StorageTypeOK, ActorsInv, ErasesInv, DisabledOnlyToPreserve, StorageNext
    PROVE  DisabledOnlyToPreserve'
<1>1. CASE ScanValid
  <2>1. boot.slot + 1 # Capacity => boot'.phase # "done"
    BY <1>1, Sizes, ScanSteps DEF StorageTypeOK, Slots
  <2>2. cursor'.offset = boot.slot + 1 BY <1>1, ScanSteps
  <2>3. QED BY <2>1, <2>2 DEF DisabledOnlyToPreserve
<1>2. CASE ScanEmpty
  BY <1>2, ScanSteps DEF DisabledOnlyToPreserve, ActorsInv
<1>3. CASE ScanInvalid
  <2> DEFINE n == boot.slot
  <2>1. n \in Slots /\ n \in Nat /\ flash[n].kind = "invalid" /\ cursor'.offset = n
        /\ flash' = flash /\ flash[n] \in Slot /\ boot.phase \in {"scan", "rescan"}
    BY <1>3, Sizes, ScanSteps DEF StorageTypeOK
  <2>2. boot.phase # "rescan"
    <3>1. flash[n] # Empty BY <2>1, Kinds, SlotKinds
    <3>2. BlockOf(n) < Blocks BY <2>1, SlotBlock, GeometryAssumption
    <3>3. QED BY <2>1, <3>1, <3>2 DEF ErasesInv, EmptyBelow
  <2>3. boot'.phase = "done" => n > 0
    BY <1>3, <2>1, <2>2, ScanSteps
  <2>4. QED BY <2>1, <2>3 DEF DisabledOnlyToPreserve
<1>4. CASE BootErase
  BY <1>4 DEF DisabledOnlyToPreserve, BootErase, BootPhase, StorageTypeOK
<1>5. CASE FillHeader
  BY <1>5 DEF DisabledOnlyToPreserve, FillHeader
<1>13. CASE AppendRefused \/ AppendBegin
  <2>1. /\ flash' = flash /\ boot' = boot /\ failed' = failed /\ mutex # "shell"
        /\ cursor'.offset = cursor.offset
        /\ cursor' = cursor \/ cursor'.offset = Capacity
    BY <1>13 DEF AppendRefused, AppendBegin, StorageTypeOK
  <2>2. QED BY <2>1 DEF DisabledOnlyToPreserve
<1>6. CASE AppendErase \/ AppendWrite
  <2>1. mutex = "log" /\ cursor.ready /\ cursor'.ready
    BY <1>6 DEF AppendErase, AppendWrite, ActorsInv, StorageTypeOK
  <2>2. QED BY <2>1 DEF DisabledOnlyToPreserve
<1>7. CASE ShellErase
  BY <1>7 DEF DisabledOnlyToPreserve, ShellErase
<1>8. CASE ShellEraseBlock
  <2>1. CASE shell.block < Blocks - 1
    BY <1>8, <2>1 DEF DisabledOnlyToPreserve, ShellEraseBlock, ActorsInv, StorageTypeOK
  <2>2. CASE shell.block = Blocks - 1
    <3>1. cursor' = CursorReset BY <1>8, <2>2, GeometryAssumption DEF ShellEraseBlock
    <3>2. QED BY <3>1 DEF DisabledOnlyToPreserve, CursorReset, NoCursor
  <2>3. QED BY <2>1, <2>2, GeometryAssumption DEF StorageTypeOK
<1>9. CASE ScanFails \/ BootEraseFails \/ AppendFails \/ ShellEraseFails
  BY <1>9 DEF DisabledOnlyToPreserve, ScanFails, BootEraseFails, AppendFails, ShellEraseFails
<1>10. CASE Reset
  BY <1>10 DEF DisabledOnlyToPreserve, Reset, BootPhase
<1>11. CASE UNCHANGED storageVars
  BY <1>11 DEF DisabledOnlyToPreserve, storageVars
<1>12. QED
  BY <1>1, <1>2, <1>3, <1>4, <1>5, <1>6, <1>7, <1>8, <1>9, <1>10, <1>11, <1>13 DEF StorageNext

(* Only the shell puts right what a failure or an overtaken scan left.     *)
LEMMA NothingPutRight ==
    ASSUME StorageNext, ~(ShellErase \/ ShellEraseBlock), ~failed', ~overtaken'
    PROVE  ~failed /\ ~overtaken
  BY DEF StorageNext, ScanValid, ScanEmpty, ScanInvalid, ScanFails, BootErase, BootEraseFails,
         FillHeader, AppendRefused, AppendBegin, AppendErase, AppendWrite, AppendFails,
         ShellEraseFails, Reset, storageVars

LEMMA FlashStep ==
    ASSUME StorageTypeOK, ActorsInv, ErasesInv, FlashInv, StorageNext
    PROVE  FlashInv'
<1> SUFFICES ASSUME ~failed', ~overtaken'
             PROVE  AreaInv' /\ CursorInv'
  BY DisabledStep DEF FlashInv
<1>1. CASE ShellErase \/ ShellEraseBlock
  BY <1>1, ShellFlash DEF FlashInv
<1>2. CASE ~(ShellErase \/ ShellEraseBlock)
  <2>1. AreaInv /\ CursorInv BY <1>2, NothingPutRight DEF FlashInv
  <2>2. CASE ScanValid \/ ScanEmpty \/ ScanInvalid BY <2>1, <2>2, ScanFlash DEF CursorInv
  <2>3. CASE BootErase BY <2>1, <2>3, BootEraseFlash
  <2>4. CASE FillHeader \/ AppendRefused \/ AppendBegin BY <2>1, <2>4, AppendFlash
  <2>5. CASE AppendErase BY <2>1, <2>5, AppendEraseFlash
  <2>6. CASE AppendWrite BY <2>1, <2>6, AppendWriteFlash
  <2>7. CASE Reset BY <2>1, <2>7, ResetFlash
  <2>8. CASE ScanFails \/ BootEraseFails \/ AppendFails \/ ShellEraseFails
    BY <2>8 DEF ScanFails, BootEraseFails, AppendFails, ShellEraseFails
  <2>9. CASE UNCHANGED storageVars
    BY <2>1, <2>9
       DEF storageVars, AreaInv, UsedFromStart, KeptReadable, NothingKept, CursorInv, ScanInv,
           DoneInv, OpensBlock
  <2>10. QED
    BY <1>2, <2>2, <2>3, <2>4, <2>5, <2>6, <2>7, <2>8, <2>9 DEF StorageNext
<1>3. QED BY <1>1, <1>2

-----------------------------------------------------------------------------
(***************************************************************************)
(* The numbers of the records.                                             *)
(***************************************************************************)

(* The next record has the number after that of the one before it, as has  *)
(* the scan at every slot; what a header filled before an erase leaves is  *)
(* a first record of any number.                                           *)
ScanNumber ==
    boot.phase \in {"scan", "rescan"} /\ mutex # "shell" =>
        cursor.sequence = IF boot.slot = 0 THEN 0 ELSE flash[boot.slot - 1].sequence + 1

NextNumber ==
    boot.phase = "done" /\ mutex # "shell" =>
        /\ cursor.offset = 0 => cursor.sequence = 0
        /\ cursor.offset > 0 =>
               /\ \/ cursor.sequence = flash[cursor.offset - 1].sequence + 1
                  \/ cursor.offset = 1 /\ cursor.sequence = 1
               /\ log.pc # "idle" => log.sequence = cursor.sequence

NumberInv == RecordsAreNumbered /\ (~failed /\ ~overtaken => ScanNumber /\ NextNumber)

(* What no step but an append changes: the numbers up to a kept record.    *)
LEMMA NumbersKept ==
    ASSUME StorageTypeOK, ~failed, ~overtaken, RecordsAreNumbered, kept' = kept,
           \A s, t \in Slots : t = s + 1 /\ kept[t] # Empty => flash'[s] = flash[s]
    PROVE  RecordsAreNumbered'
  BY DEF RecordsAreNumbered

LEMMA ScanNumbers ==
    ASSUME StorageTypeOK, ActorsInv, ScanNumber, ScanValid \/ ScanEmpty \/ ScanInvalid
    PROVE  ScanNumber' /\ NextNumber'
<1> DEFINE n == boot.slot
<1>1. n \in Slots /\ n \in Nat /\ boot.phase \in {"scan", "rescan"}
  BY Sizes DEF StorageTypeOK, ScanValid, ScanEmpty, ScanInvalid, Scanning
<1>2. flash' = flash /\ log' = log /\ mutex' = mutex /\ log.pc = "idle"
  BY <1>1 DEF ScanValid, ScanEmpty, ScanInvalid, ActorsInv
<1>3. mutex # "shell" => cursor.sequence = IF n = 0 THEN 0 ELSE flash[n - 1].sequence + 1
  BY <1>1 DEF ScanNumber
<1> HIDE DEF n
<1>4. CASE ScanValid
  <2>1. cursor'.offset = n + 1 /\ cursor'.sequence = flash[n].sequence + 1
    BY <1>4 DEF ScanValid, AfterRecord, n
  <2>2. boot'.phase # "done" => boot'.slot = n + 1
    BY <1>4 DEF ScanValid, BootPhase, StorageTypeOK, n
  <2>3. QED BY <1>1, <1>2, <2>1, <2>2 DEF ScanNumber, NextNumber
<1>5. CASE ScanEmpty \/ ScanInvalid
  <2>1. cursor'.offset = n /\ cursor'.sequence = cursor.sequence
    BY <1>5 DEF ScanEmpty, ScanInvalid, StorageTypeOK, n
  <2>2. boot'.phase \in {"done", "erase"} BY <1>5 DEF ScanEmpty, ScanInvalid, BootPhase
  <2>3. QED BY <1>1, <1>2, <1>3, <2>1, <2>2 DEF ScanNumber, NextNumber
<1>6. QED BY <1>4, <1>5

LEMMA WriteNumbers ==
    ASSUME StorageTypeOK, ActorsInv, ErasesInv, AreaInv, CursorInv,
           RecordsAreNumbered, ~failed, ~overtaken, NextNumber, AppendWrite
    PROVE  RecordsAreNumbered' /\ ScanNumber' /\ NextNumber'
<1> DEFINE o == cursor.offset
           r == Record(log.sequence)
<1>1. mutex = "log" /\ log.pc = "writing" BY DEF ActorsInv, AppendWrite
<1>2. /\ boot.phase = "done" /\ o \in Slots /\ o \in Nat /\ flash[o] = Empty
      /\ \A s \in Slots : s \in Nat /\ (kept[s] # Empty => s < o)
  BY <1>1, AtWork, Sizes DEF Slots
<1>3. flash' = [flash EXCEPT ![o] = r] /\ kept' = [kept EXCEPT ![o] = r]
  BY <1>2 DEF AppendWrite, Programmed
<1>4. \A s \in Slots : /\ flash'[s] = IF s = o THEN r ELSE flash[s]
                       /\ kept'[s] = IF s = o THEN r ELSE kept[s]
  BY <1>3 DEF StorageTypeOK
<1>5. cursor'.offset = o + 1 /\ cursor'.sequence = cursor.sequence + 1 /\ log'.pc = "idle"
  BY DEF AppendWrite, StorageTypeOK, NoLog
<1>6. r.sequence = log.sequence /\ log.sequence \in Nat /\ cursor.sequence \in Nat
  BY Sizes DEF Record, StorageTypeOK
<1>7. /\ o = 0 => cursor.sequence = 0
      /\ o > 0 => /\ log.sequence = cursor.sequence
                  /\ \/ log.sequence = flash[o - 1].sequence + 1
                     \/ o = 1 /\ log.sequence = 1
  BY <1>1, <1>2 DEF NextNumber
<1> HIDE DEF o, r
<1>8. NextNumber'
  <2>1. flash'[cursor'.offset - 1].sequence = log.sequence BY <1>2, <1>4, <1>5, <1>6
  <2>2. o > 0 => cursor'.sequence = flash'[cursor'.offset - 1].sequence + 1
    BY <1>5, <1>7, <2>1
  <2>3. o = 0 => cursor'.offset = 1 /\ cursor'.sequence = 1 BY <1>5, <1>7
  <2>4. cursor'.offset > 0 BY <1>2, <1>5
  <2>5. QED BY <1>2, <1>5, <2>2, <2>3, <2>4 DEF NextNumber
<1>9. RecordsAreNumbered'
  <2>1. ASSUME NEW s \in Slots, NEW t \in Slots, t = s + 1, kept'[t] # Empty
        PROVE  \/ kept'[t].sequence = flash'[s].sequence + 1
               \/ s = 0 /\ kept'[t].sequence = 1
    <3>1. CASE t = o
      <4>1. s = o - 1 /\ s # o /\ o > 0 BY <1>2, <2>1, <3>1
      <4>2. kept'[t].sequence = log.sequence /\ flash'[s] = flash[o - 1]
        BY <1>4, <1>6, <2>1, <3>1, <4>1
      <4>3. QED BY <1>2, <1>7, <4>1, <4>2
    <3>2. CASE t # o
      <4>1. kept'[t] = kept[t] /\ s < o BY <1>2, <1>4, <2>1, <3>2
      <4>2. flash'[s] = flash[s] BY <1>2, <1>4, <4>1
      <4>3. QED BY <2>1, <4>1, <4>2 DEF RecordsAreNumbered
    <3>3. QED BY <3>1, <3>2
  <2>2. QED BY <2>1 DEF RecordsAreNumbered
<1>10. ScanNumber' BY <1>2 DEF AppendWrite, ScanNumber
<1>11. QED BY <1>8, <1>9, <1>10

LEMMA NumberStep ==
    ASSUME StorageTypeOK, ActorsInv, ErasesInv, FlashInv, NumberInv, StorageNext
    PROVE  NumberInv'
<1> SUFFICES ASSUME ~failed', ~overtaken'
             PROVE  RecordsAreNumbered' /\ ScanNumber' /\ NextNumber'
  BY DEF NumberInv, RecordsAreNumbered
<1>1. CASE ShellErase
  <2>1. NothingKept' /\ mutex' = "shell" BY <1>1 DEF ShellErase, NothingKept
  <2>2. QED BY <2>1 DEF NothingKept, RecordsAreNumbered, ScanNumber, NextNumber
<1>2. CASE ShellEraseBlock
  <2>1. NothingKept' BY <1>2 DEF ShellEraseBlock, ErasesInv, NothingKept
  <2>2. RecordsAreNumbered' BY <2>1 DEF NothingKept, RecordsAreNumbered
  <2>3. CASE shell.block < Blocks - 1
    BY <1>2, <2>2, <2>3 DEF ShellEraseBlock, ScanNumber, NextNumber, ActorsInv, StorageTypeOK
  <2>4. CASE shell.block = Blocks - 1
    <3>1. cursor' = CursorReset /\ boot' = boot /\ overtaken' = ScanIsOvertaken
      BY <1>2, <2>4, GeometryAssumption DEF ShellEraseBlock
    <3>2. boot.phase \in {"scan", "rescan"} => boot.slot = 0
      BY <3>1, NotOvertaken
    <3>3. QED BY <2>2, <3>1, <3>2 DEF ScanNumber, NextNumber, CursorReset, NoCursor
  <2>5. QED BY <2>3, <2>4, GeometryAssumption DEF StorageTypeOK
<1>3. CASE ~(ShellErase \/ ShellEraseBlock)
  <2>1. ~failed /\ ~overtaken BY <1>3, NothingPutRight
  <2>2. AreaInv /\ CursorInv /\ RecordsAreNumbered /\ ScanNumber /\ NextNumber
    BY <2>1 DEF FlashInv, NumberInv
  <2>3. flash' = flash /\ kept' = kept => RecordsAreNumbered'
    BY <2>1, <2>2, NumbersKept
  <2>4. CASE ScanValid \/ ScanEmpty \/ ScanInvalid
    BY <2>2, <2>3, <2>4, ScanNumbers DEF ScanValid, ScanEmpty, ScanInvalid
  <2>5. CASE BootErase
    <3>1. kept' = kept /\ NothingKept
      BY <2>2, <2>5 DEF BootErase, AreaInv
    <3>2. CASE boot.block < Blocks - 1
      <4>1. boot'.phase = "erase" BY <2>5, <3>2 DEF BootErase, StorageTypeOK
      <4>2. QED BY <3>1, <4>1 DEF NothingKept, RecordsAreNumbered, ScanNumber, NextNumber
    <3>3. CASE boot.block = Blocks - 1
      <4>1. boot' = BootPhase("rescan") /\ cursor' = [NoCursor EXCEPT !.ready = cursor.ready]
        BY <2>5, <3>3, GeometryAssumption DEF BootErase
      <4>2. boot'.phase = "rescan" /\ boot'.slot = 0 /\ cursor'.sequence = 0
        BY <4>1 DEF BootPhase, NoCursor
      <4>3. QED BY <3>1, <4>2 DEF NothingKept, RecordsAreNumbered, ScanNumber, NextNumber
    <3>4. QED BY <2>5, <3>2, <3>3 DEF BootErase
  <2>6. CASE FillHeader
    BY <2>2, <2>3, <2>6 DEF FillHeader, ScanNumber, NextNumber
  <2>7. CASE AppendRefused \/ AppendBegin
    <3>1. flash' = flash /\ kept' = kept /\ boot' = boot /\ mutex # "shell"
          /\ boot.phase = "done"
      BY <2>7 DEF AppendRefused, AppendBegin, ActorsInv
    <3>2. cursor'.offset = cursor.offset /\ cursor'.sequence = cursor.sequence
      BY <2>7 DEF AppendRefused, AppendBegin, StorageTypeOK
    <3>3. CASE AppendRefused
      <4>1. log'.pc = "idle" BY <3>3 DEF AppendRefused, NoLog
      <4>2. QED BY <2>2, <2>3, <3>1, <3>2, <4>1 DEF ScanNumber, NextNumber
    <3>4. CASE AppendBegin
      <4>1. log.pc # "idle" /\ log'.sequence = log.sequence
        BY <3>4 DEF AppendBegin, StorageTypeOK
      <4>2. QED BY <2>2, <2>3, <3>1, <3>2, <4>1 DEF ScanNumber, NextNumber
    <3>5. QED BY <2>7, <3>3, <3>4
  <2>8. CASE AppendErase
    <3> DEFINE o == cursor.offset
    <3>1. mutex = "log" /\ mutex' = "log" /\ cursor' = cursor /\ kept' = kept /\ boot' = boot
          /\ log.pc = "erasing" /\ log'.sequence = log.sequence /\ o % PerBlock = 0
      BY <2>8 DEF ActorsInv, AppendErase, StorageTypeOK, OpensBlock
    <3>2. boot.phase = "done" /\ o \in Slots /\ o \in Nat
      BY <2>2, <3>1, AtWork, Sizes DEF Slots
    <3>3. BlockOf(o) \in BeingErased BY <3>1, <3>2, SlotBlock DEF BeingErased
    <3>4. \A s \in Slots : BlockOf(s) # BlockOf(o) => flash'[s] = flash[s]
      BY <2>8, ErasedSlots DEF AppendErase
    <3>5. ASSUME NEW s \in Slots, NEW t \in Slots, t = s + 1, kept[t] # Empty
          PROVE  flash'[s] = flash[s]
      <4>1. s \in 0..t BY <3>5, Sizes
      <4>2. QED BY <2>2, <3>3, <3>4, <3>5, <4>1, KeptOutOfReach
    <3>6. o > 0 => flash'[o - 1] = flash[o - 1]
      <4>1. SUFFICES ASSUME o > 0 PROVE flash'[o - 1] = flash[o - 1] OBVIOUS
      <4>2. o - 1 \in Slots /\ o - 1 \in Nat /\ o - 1 < o BY <3>2, <4>1, Sizes DEF Slots
      <4> DEFINE b == o - 1
      <4> HIDE DEF o, b
      <4>3. BlockOf(b) < BlockOf(o) /\ BlockOf(b) \in Nat
        BY <3>1, <3>2, <4>2, BlockBegins, Division DEF b
      <4>4. QED BY <3>4, <4>2, <4>3 DEF b
    <3>7. ScanNumber' /\ NextNumber' BY <2>2, <3>1, <3>2, <3>6 DEF ScanNumber, NextNumber
    <3>8. QED BY <2>1, <2>2, <3>1, <3>5, <3>7, NumbersKept
  <2>9. CASE AppendWrite BY <2>1, <2>2, <2>9, WriteNumbers
  <2>10. CASE Reset
    <3>1. kept' = kept /\ boot'.phase = "scan" /\ boot'.slot = 0 /\ cursor'.sequence = 0
      BY <2>10 DEF Reset, BootPhase, NoCursor
    <3>2. ASSUME NEW s \in Slots, NEW t \in Slots, t = s + 1, kept[t] # Empty
          PROVE  flash'[s] = flash[s]
      <4>1. s \in 0..t BY <3>2, Sizes
      <4>2. QED BY <2>2, <2>10, <3>2, <4>1, KeptOutOfReach, ResetSlots
    <3>3. QED BY <2>1, <2>2, <3>1, <3>2, NumbersKept DEF ScanNumber, NextNumber
  <2>11. CASE ScanFails \/ BootEraseFails \/ AppendFails \/ ShellEraseFails
    BY <2>11 DEF ScanFails, BootEraseFails, AppendFails, ShellEraseFails
  <2>12. CASE UNCHANGED storageVars
    BY <2>2, <2>3, <2>12 DEF storageVars, ScanNumber, NextNumber
  <2>13. QED
    BY <1>3, <2>4, <2>5, <2>6, <2>7, <2>8, <2>9, <2>10, <2>11, <2>12 DEF StorageNext
<1>4. QED BY <1>1, <1>2, <1>3

-----------------------------------------------------------------------------
(***************************************************************************)
(* What the log thread counts.                                             *)
(***************************************************************************)

LossesIn(q) == {i \in 1..Len(q) : q[i] = "loss"}
Losses(q) == Cardinality(LossesIn(q))
Size(q) == Len(q)

LEMMA LossesCounted ==
    ASSUME NEW q \in Seq(Message)
    PROVE  /\ IsFiniteSet(LossesIn(q)) /\ Losses(q) \in Nat
           /\ q = <<>> => Losses(q) = 0
<1>1. IsFiniteSet(1..Len(q)) BY FS_Interval
<1>2. IsFiniteSet(LossesIn(q)) BY <1>1, FS_Subset DEF LossesIn
<1>3. q = <<>> => LossesIn(q) = {} BY DEF LossesIn
<1>4. QED BY <1>2, <1>3, FS_CardinalityType, FS_EmptySet DEF Losses

LEMMA LossesAppend ==
    ASSUME NEW q \in Seq(Message), NEW m \in Message
    PROVE  Losses(Append(q, m)) = Losses(q) + (IF m = "loss" THEN 1 ELSE 0)
<1> DEFINE r == Append(q, m)
<1>1. /\ Len(q) \in Nat /\ Len(r) = Len(q) + 1 /\ r[Len(q) + 1] = m
      /\ \A i \in 1..Len(q) : r[i] = q[i]
  OBVIOUS
<1> HIDE DEF r
<1>2. LossesIn(r) = IF m = "loss" THEN LossesIn(q) \union {Len(q) + 1} ELSE LossesIn(q)
  BY <1>1 DEF LossesIn
<1>3. Len(q) + 1 \notin LossesIn(q) BY <1>1 DEF LossesIn
<1>4. Cardinality(LossesIn(q) \union {Len(q) + 1}) = Cardinality(LossesIn(q)) + 1
  BY <1>3, LossesCounted, FS_AddElement
<1>5. Losses(q) \in Nat BY LossesCounted
<1>6. Losses(r) = Losses(q) + (IF m = "loss" THEN 1 ELSE 0)
  BY <1>2, <1>4, <1>5 DEF Losses
<1>7. QED BY <1>6 DEF r

LEMMA LossesTail ==
    ASSUME NEW q \in Seq(Message), q # <<>>
    PROVE  Losses(q) = Losses(Tail(q)) + (IF Head(q) = "loss" THEN 1 ELSE 0)
<1> DEFINE r == Tail(q)
           A == LossesIn(r)
           B == LossesIn(q) \ {1}
           f == [i \in A |-> i + 1]
<1>1. /\ Len(q) \in Nat /\ Len(q) >= 1 /\ Len(r) = Len(q) - 1 /\ Head(q) = q[1]
      /\ r \in Seq(Message) /\ \A i \in 1..(Len(q) - 1) : r[i] = q[i + 1]
  OBVIOUS
<1> HIDE DEF r
<1>2. IsFiniteSet(A) /\ IsFiniteSet(LossesIn(q)) /\ Losses(r) \in Nat BY <1>1, LossesCounted
<1>3. IsFiniteSet(B) BY <1>2, FS_Subset
<1>4. f \in Bijection(A, B)
  <2>1. \A i \in A : i \in Nat /\ f[i] = i + 1 /\ i + 1 \in B
    BY <1>1 DEF LossesIn
  <2>2. \A j \in B : j \in Nat /\ j - 1 \in A
    BY <1>1 DEF LossesIn
  <2>3. \A j \in B : \E i \in A : f[i] = j BY <2>1, <2>2
  <2>4. \A i, j \in A : f[i] = f[j] => i = j BY <2>1
  <2>5. f \in [A -> B] BY <2>1
  <2> HIDE DEF f, A, B
  <2>6. DOMAIN f = A BY <2>5
  <2>7. QED BY <2>3, <2>4, <2>5, <2>6 DEF Bijection, Injection, Surjection, IsInjective
<1> HIDE DEF f
<1>5. Cardinality(A) = Cardinality(B)
  BY <1>2, <1>3, <1>4, FS_Bijection DEF ExistsBijection
<1>6. LossesIn(q) = IF Head(q) = "loss" THEN B \union {1} ELSE B
  BY <1>1 DEF LossesIn
<1>7. Cardinality(B \union {1}) = Cardinality(B) + 1
  BY <1>3, FS_AddElement
<1> HIDE DEF A, B
<1>8. Losses(q) = Losses(r) + (IF Head(q) = "loss" THEN 1 ELSE 0)
  BY <1>2, <1>5, <1>6, <1>7 DEF Losses, A
<1>9. QED BY <1>8 DEF r

(* Each message noted is queued, dropped, or taken, and then at most one   *)
(* loss is counted; the types of the counters follow.                      *)
CountTypes(q, d, p, c, n, r) ==
    /\ q \in Seq(Message) /\ Len(q) <= QueueLength
    /\ d \in Nat /\ p \in Nat
    /\ c \in [total : Nat, interval : Nat]
    /\ n \in [messages : Nat, losses : Nat] /\ r \in [messages : Nat, losses : Nat]

Accounts(q, d, p, c, n, r) ==
    /\ c.total + Losses(q) <= n.losses
    /\ n.losses <= c.total + Losses(q) + r.messages + d
    /\ c.total = r.losses + p
    /\ c.interval <= c.total
    /\ Size(q) + d + r.messages + c.total <= n.messages
    /\ n.losses <= n.messages /\ n.messages <= MaxNoted

Balanced(q, d, p, c, n, r) == CountTypes(q, d, p, c, n, r) /\ Accounts(q, d, p, c, n, r)

(* The losses of the interval that no summary has reported yet.            *)
Pending == IF summary THEN 0 ELSE counters.interval

CountInv ==
    /\ summary \in BOOLEAN
    /\ Balanced(queue, dropped, Pending, counters, noted, reported)

LEMMA StartCounted ==
    Balanced(<<>>, 0, 0, [total |-> 0, interval |-> 0], None, None)
<1>1. QueueLength \in Nat /\ MaxNoted \in Nat BY QueueAssumption
<1>2. <<>> \in Seq(Message) /\ Len(<<>>) = 0 OBVIOUS
<1>3. Losses(<<>>) = 0 BY <1>2, LossesCounted
<1>4. None.messages = 0 /\ None.losses = 0 /\ None \in [messages : Nat, losses : Nat]
  BY DEF None
<1>5. [total |-> 0, interval |-> 0] \in [total : Nat, interval : Nat] OBVIOUS
<1>6. CountTypes(<<>>, 0, 0, [total |-> 0, interval |-> 0], None, None)
  BY <1>1, <1>2, <1>4, <1>5 DEF CountTypes
<1>7. Accounts(<<>>, 0, 0, [total |-> 0, interval |-> 0], None, None)
  BY <1>1, <1>2, <1>3, <1>4 DEF Accounts, Size
<1>8. QED BY <1>6, <1>7 DEF Balanced

LEMMA CountedThread ==
    ASSUME CountInv
    PROVE  /\ queue \in Seq(Message) /\ Len(queue) <= QueueLength
           /\ dropped \in 0..MaxNoted
           /\ summary \in BOOLEAN
           /\ counters \in [total : 0..MaxNoted, interval : 0..MaxNoted]
           /\ noted \in Pair /\ reported \in Pair
           /\ SummariesAccount
<1>1. /\ Balanced(queue, dropped, Pending, counters, noted, reported)
      /\ summary \in BOOLEAN
  BY DEF CountInv
<1>2. MaxNoted \in Nat BY QueueAssumption
<1>3. SummariesAccount
  <2>1. Losses(queue) \in Nat BY <1>1, LossesCounted DEF Balanced, CountTypes
  <2> DEFINE k == Losses(queue)
  <2>2. /\ noted.losses - counters.total - k \in 0..(reported.messages + dropped)
        /\ counters.total = reported.losses + Pending
    <3> HIDE DEF k
    <3>1. k \in Nat BY <2>1 DEF k
    <3>2. /\ counters.total + k <= noted.losses
          /\ noted.losses <= counters.total + k + reported.messages + dropped
          /\ counters.total = reported.losses + Pending
      BY <1>1 DEF Balanced, Accounts, k
    <3>3. /\ counters.total \in Nat /\ noted.losses \in Nat /\ reported.messages \in Nat
          /\ dropped \in Nat
      BY <1>1 DEF Balanced, CountTypes
    <3>4. QED BY <3>1, <3>2, <3>3
  <2>3. QED BY <2>2 DEF SummariesAccount, Losses, LossesIn, Pending
<1>4. /\ Len(queue) \in Nat /\ queue \in Seq(Message) /\ Len(queue) <= QueueLength
      /\ dropped \in Nat /\ summary \in BOOLEAN
      /\ counters \in [total : Nat, interval : Nat]
      /\ noted \in [messages : Nat, losses : Nat] /\ reported \in [messages : Nat, losses : Nat]
      /\ counters.interval <= counters.total
      /\ counters.total = reported.losses + Pending /\ Pending \in Nat
      /\ Len(queue) + dropped + reported.messages + counters.total <= noted.messages
      /\ noted.losses <= noted.messages /\ noted.messages <= MaxNoted
  BY <1>1 DEF Balanced, CountTypes, Accounts, Size
<1>5. /\ dropped \in 0..MaxNoted /\ counters.total \in 0..MaxNoted
      /\ counters.interval \in 0..MaxNoted
      /\ noted.messages \in 0..MaxNoted /\ noted.losses \in 0..MaxNoted
      /\ reported.messages \in 0..MaxNoted /\ reported.losses \in 0..MaxNoted
  BY <1>2, <1>4
<1>6. counters \in [total : 0..MaxNoted, interval : 0..MaxNoted] BY <1>4, <1>5
<1>7. noted \in Pair /\ reported \in Pair BY <1>4, <1>5 DEF Pair
<1>8. QED BY <1>3, <1>4, <1>5, <1>6, <1>7

LEMMA CountStep ==
    ASSUME CountInv, [Next]_vars
    PROVE  CountInv'
<1>1. Balanced(queue, dropped, Pending, counters, noted, reported) BY DEF CountInv
<1>2. SUFFICES Balanced(queue', dropped', Pending', counters', noted', reported')
  <2>1. summary' \in BOOLEAN
    BY DEF CountInv, Next, Storage, FlashFails, Restart, Note, ProcessSample, ProcessRecord,
           SummaryBegin, SummaryEnd, vars, threadVars
  <2>2. QED BY <2>1 DEF CountInv
<1>3. queue \in Seq(Message) /\ QueueLength \in Nat \ {0} /\ MaxNoted \in Nat
  BY <1>1, QueueAssumption DEF Balanced, CountTypes
<1>4. /\ Size(queue) \in Nat /\ Losses(queue) \in Nat /\ MaxNoted \in Nat
       /\ counters.total \in Nat /\ counters.interval \in Nat
       /\ noted.messages \in Nat /\ noted.losses \in Nat
       /\ reported.messages \in Nat /\ reported.losses \in Nat
       /\ dropped \in Nat /\ Pending \in Nat
  <2>1. Size(queue) \in Nat /\ Losses(queue) \in Nat BY <1>3, LossesCounted DEF Size
  <2>2. QED BY <1>1, <1>3, <2>1 DEF Balanced, CountTypes
<1>5. Accounts(queue, dropped, Pending, counters, noted, reported)
  BY <1>1 DEF Balanced
<1>6. ASSUME NEW m \in Message, Note(m)
      PROVE  Balanced(queue', dropped', Pending', counters', noted', reported')
  <2> DEFINE l == noted.losses + (IF m = "loss" THEN 1 ELSE 0)
  <2>1. /\ noted' = [messages |-> noted.messages + 1, losses |-> l]
        /\ noted.messages < MaxNoted
        /\ Pending' = Pending /\ counters' = counters /\ reported' = reported
    BY <1>6, Zenon DEF Note, Pending
  <2>2. l \in Nat /\ (m = "loss" => l = noted.losses + 1)
        /\ (m # "loss" => l = noted.losses)
    BY <1>4
  <2> HIDE DEF l
  <2>3. noted' \in [messages : Nat, losses : Nat] /\ noted'.losses = l
        /\ noted'.messages = noted.messages + 1
    BY <1>4, <2>1, <2>2
  <2>4. CASE Len(queue) < QueueLength
    <3>1. queue' = Append(queue, m) /\ dropped' = dropped BY <1>6, <2>4 DEF Note
    <3>2. queue' \in Seq(Message) /\ Len(queue') <= QueueLength
          /\ Size(queue') = Size(queue) + 1
      BY <1>3, <2>4, <3>1 DEF Size
    <3>3. Losses(queue') = Losses(queue) + (IF m = "loss" THEN 1 ELSE 0)
      BY <1>3, <3>1, LossesAppend
    <3>4. CountTypes(queue', dropped', Pending', counters', noted', reported')
      BY <1>1, <1>3, <2>1, <2>3, <3>1, <3>2 DEF Balanced, CountTypes
    <3>5. /\ Size(queue') = Size(queue) + 1 /\ dropped' = dropped
          /\ m = "loss" => Losses(queue') = Losses(queue) + 1 /\ l = noted.losses + 1
          /\ m # "loss" => Losses(queue') = Losses(queue) /\ l = noted.losses
      BY <1>4, <2>2, <3>1, <3>2, <3>3
    <3>6. /\ noted.messages < MaxNoted
          /\ Pending' = Pending /\ counters' = counters /\ reported' = reported
      BY <2>1
    <3>7. Accounts(queue', dropped', Pending', counters', noted', reported')
      BY <1>4, <1>5, <2>2, <2>3, <3>5, <3>6 DEF Accounts
    <3>8. QED BY <3>4, <3>7 DEF Balanced
  <2>5. CASE ~(Len(queue) < QueueLength)
    <3>1. queue' = queue /\ dropped' = dropped + 1 BY <1>6, <2>5 DEF Note
    <3>2. QED
      <4>1. CountTypes(queue', dropped', Pending', counters', noted', reported')
        BY <1>1, <1>3, <1>4, <2>1, <2>2, <2>3, <3>1 DEF Balanced, CountTypes
      <4>2. Accounts(queue', dropped', Pending', counters', noted', reported')
        BY <1>4, <1>5, <2>1, <2>2, <2>3, <3>1 DEF Accounts
      <4>3. QED BY <4>1, <4>2 DEF Balanced
  <2>6. QED BY <2>4, <2>5
<1>7. ASSUME queue # <<>>, queue' = Tail(queue)
      PROVE  /\ queue' \in Seq(Message) /\ Len(queue') <= QueueLength
             /\ Size(queue') = Size(queue) - 1
             /\ Losses(queue') \in Nat
             /\ Head(queue) = "loss" => Losses(queue) = Losses(queue') + 1
             /\ Head(queue) # "loss" => Losses(queue) = Losses(queue')
  <2>1. queue' \in Seq(Message) /\ Len(queue') = Len(queue) - 1 BY <1>3, <1>7
  <2>2. Losses(queue') \in Nat BY <2>1, LossesCounted
  <2>3. Losses(queue) = Losses(queue') + (IF Head(queue) = "loss" THEN 1 ELSE 0)
    BY <1>3, <1>7, LossesTail
  <2>4. Len(queue) <= QueueLength /\ Len(queue) \in Nat
    BY <1>1, <1>3 DEF Balanced, CountTypes
  <2>5. QED BY <1>3, <2>1, <2>2, <2>3, <2>4 DEF Size
<1>8. CASE ProcessSample
  <2>1. /\ queue # <<>> /\ queue' = Tail(queue) /\ Head(queue) # "loss"
        /\ dropped' = dropped
        /\ Pending' = Pending /\ counters' = counters /\ noted' = noted /\ reported' = reported
    BY <1>8, Zenon DEF ProcessSample, Pending
  <2>2. Size(queue') = Size(queue) - 1 /\ Losses(queue') = Losses(queue)
    BY <1>7, <2>1
  <2>3. CountTypes(queue', dropped', Pending', counters', noted', reported')
    BY <1>1, <1>7, <2>1 DEF Balanced, CountTypes
  <2>4. /\ dropped' = dropped /\ Pending' = Pending /\ counters' = counters /\ noted' = noted
        /\ reported' = reported
    BY <2>1
  <2>5. Accounts(queue', dropped', Pending', counters', noted', reported')
    BY <1>4, <1>5, <2>2, <2>4 DEF Accounts
  <2>6. QED BY <2>3, <2>5 DEF Balanced
<1>9. CASE ProcessRecord
  <2>1. queue # <<>> /\ queue' = Tail(queue)
    BY <1>9 DEF ProcessRecord
  <2>2. /\ dropped' = dropped
        /\ Pending = counters.interval /\ Pending' = counters'.interval
        /\ noted' = noted /\ reported' = reported
    BY <1>9, Zenon DEF ProcessRecord, Pending
  <2>3. Size(queue') = Size(queue) - 1 /\ Losses(queue') \in Nat
    BY <1>7, <2>1
  <2>4. CASE Head(queue) = "loss"
    <3>1. counters' = [total |-> counters.total + 1, interval |-> counters.interval + 1]
      BY <1>9, <2>4 DEF ProcessRecord
    <3>2. counters' \in [total : Nat, interval : Nat] /\ counters'.total = counters.total + 1
          /\ counters'.interval = counters.interval + 1
      BY <1>4, <3>1
    <3>3. Losses(queue) = Losses(queue') + 1 BY <1>7, <2>1, <2>4
    <3>4. CountTypes(queue', dropped', Pending', counters', noted', reported')
      BY <1>1, <1>7, <2>1, <2>2, <3>2 DEF Balanced, CountTypes
    <3>5. Accounts(queue', dropped', Pending', counters', noted', reported')
      BY <1>4, <1>5, <2>2, <2>3, <3>2, <3>3 DEF Accounts
    <3>6. QED BY <3>4, <3>5 DEF Balanced
  <2>5. CASE Head(queue) # "loss"
    <3>1. counters' = counters BY <1>9, <2>5 DEF ProcessRecord
    <3>2. Losses(queue') = Losses(queue) BY <1>7, <2>1, <2>5
    <3>3. CountTypes(queue', dropped', Pending', counters', noted', reported')
      BY <1>1, <1>7, <2>1, <2>2, <3>1 DEF Balanced, CountTypes
    <3>4. Accounts(queue', dropped', Pending', counters', noted', reported')
      BY <1>4, <1>5, <2>2, <2>3, <3>1, <3>2 DEF Accounts
    <3>5. QED BY <3>3, <3>4 DEF Balanced
  <2>6. QED BY <2>4, <2>5
<1>10. CASE SummaryBegin
  <2>1. /\ reported' = [messages |-> reported.messages + dropped,
                        losses |-> reported.losses + counters.interval]
        /\ Pending = counters.interval /\ Pending' = 0 /\ dropped' = 0 /\ queue' = queue
        /\ counters' = counters /\ noted' = noted
    BY <1>10, Zenon DEF SummaryBegin, Pending
  <2>2. reported' \in [messages : Nat, losses : Nat]
        /\ reported'.messages = reported.messages + dropped
        /\ reported'.losses = reported.losses + counters.interval
    BY <1>4, <2>1
  <2>3. QED
    <3>1. CountTypes(queue', dropped', Pending', counters', noted', reported')
      BY <1>1, <1>3, <1>4, <2>1, <2>2 DEF Balanced, CountTypes
    <3>2. Accounts(queue', dropped', Pending', counters', noted', reported')
      BY <1>4, <1>5, <2>1, <2>2 DEF Accounts
    <3>3. QED BY <3>1, <3>2 DEF Balanced
<1>11. CASE SummaryEnd
  <2>1. /\ Pending = 0 /\ counters' = [counters EXCEPT !.interval = 0]
        /\ queue' = queue /\ dropped' = dropped /\ noted' = noted /\ reported' = reported
    BY <1>11, Zenon DEF SummaryEnd, Pending
  <2>2. counters' \in [total : Nat, interval : Nat] /\ counters'.total = counters.total
        /\ counters'.interval = 0 /\ Pending' = 0
    BY <1>1, <2>1 DEF Balanced, CountTypes, Pending
  <2>3. QED
    <3>1. CountTypes(queue', dropped', Pending', counters', noted', reported')
      BY <1>1, <1>3, <1>4, <2>1, <2>2 DEF Balanced, CountTypes
    <3>2. Accounts(queue', dropped', Pending', counters', noted', reported')
      BY <1>4, <1>5, <2>1, <2>2 DEF Accounts
    <3>3. QED BY <3>1, <3>2 DEF Balanced
<1>12. CASE Restart
  BY <1>12, StartCounted DEF Restart, Pending
<1>13. CASE UNCHANGED threadVars
  BY <1>1, <1>13 DEF threadVars, Pending
<1>14. QED
  BY <1>6, <1>8, <1>9, <1>10, <1>11, <1>12, <1>13 DEF Next, Storage, FlashFails, vars

-----------------------------------------------------------------------------
(***************************************************************************)
(* The theorems.                                                           *)
(***************************************************************************)
FieldLogInv == StorageTypeOK /\ ActorsInv /\ ErasesInv /\ FlashInv /\ NumberInv /\ CountInv

LEMMA InitHolds == Init => FieldLogInv
<1> SUFFICES ASSUME Init PROVE FieldLogInv OBVIOUS
<1>1. StorageTypeOK
  <2>1. flash \in [Slots -> Slot] /\ kept \in [Slots -> Slot]
    BY SlotKinds DEF Init, StorageInit
  <2>2. cursor \in [offset : 0..Capacity, sequence : 0..(MaxSequence + 1),
                    ready : BOOLEAN, full : BOOLEAN]
    BY Sizes DEF Init, StorageInit, NoCursor
  <2>3. /\ log \in [pc : {"idle", "filled", "erasing", "writing"}, sequence : 0..MaxSequence]
        /\ boot \in [phase : {"scan", "erase", "rescan", "done"}, block : 0..(Blocks - 1),
                     slot : Slots]
        /\ shell \in [erasing : BOOLEAN, block : 0..(Blocks - 1)]
    BY Sizes, GeometryAssumption DEF Init, StorageInit, NoLog, BootPhase, ShellIdle
  <2>4. QED BY <2>1, <2>2, <2>3 DEF Init, StorageInit, StorageTypeOK
<1>2. ActorsInv BY DEF Init, StorageInit, ActorsInv, NoLog, BootPhase, ShellIdle, NoCursor
<1>3. ErasesInv BY DEF Init, StorageInit, ErasesInv, BootPhase, ShellIdle, NoCursor
<1>4. FlashInv
  BY DEF Init, StorageInit, FlashInv, AreaInv, UsedFromStart, KeptReadable, CursorInv, ScanInv, DoneInv,
         DisabledOnlyToPreserve, BootPhase
<1>5. NumberInv
  BY DEF Init, StorageInit, NumberInv, RecordsAreNumbered, ScanNumber, NextNumber, BootPhase,
         NoCursor
<1>6. CountInv BY StartCounted DEF Init, ThreadStarts, CountInv, Pending
<1>7. QED BY <1>1, <1>2, <1>3, <1>4, <1>5, <1>6 DEF FieldLogInv

LEMMA Invariant == Spec => []FieldLogInv
<1>1. FieldLogInv /\ [Next]_vars => FieldLogInv'
  <2> SUFFICES ASSUME FieldLogInv, [Next]_vars PROVE FieldLogInv' OBVIOUS
  <2>1. StorageNext BY StorageSteps
  <2>2. QED
    BY <2>1, StorageTypeStep, ActorsStep, ErasesStep, FlashStep, NumberStep, CountStep
       DEF FieldLogInv
<1>2. QED BY InitHolds, <1>1, PTL DEF Spec

(* TypeOK, whatever is interrupted or fails.                               *)
THEOREM TypeCorrect == Spec => []TypeOK
<1>1. FieldLogInv => TypeOK BY CountedThread DEF FieldLogInv, TypeOK
<1>2. QED BY Invariant, <1>1, PTL

(* AcknowledgedRecordsStay: a record that was acknowledged is read back,   *)
(* unchanged, by every dump until the shell is told to erase, across       *)
(* resets at any step, as long as no flash call fails and no erase         *)
(* overtakes the scan at boot.                                             *)
THEOREM RecordsStay == Spec => []AcknowledgedRecordsStay
<1>1. ASSUME FieldLogInv, ~failed, ~overtaken, NEW s \in Slots, kept[s] # Empty
      PROVE  flash[s] = kept[s] /\ s < Readable
  <2>1. flash[s] = kept[s] /\ \A t \in 0..s : flash[t].kind = "valid"
    BY <1>1 DEF FieldLogInv, FlashInv, AreaInv, KeptReadable
  <2>2. s \in Nat /\ s < Capacity BY Sizes DEF Slots
  <2>3. Readable \in 0..Capacity /\ (Readable < Capacity => flash[Readable].kind # "valid")
    BY ReadableIs
  <2>4. QED BY <2>1, <2>2, <2>3, Sizes
<1>2. FieldLogInv => AcknowledgedRecordsStay BY <1>1 DEF AcknowledgedRecordsStay
<1>3. QED BY Invariant, <1>2, PTL

(* DisabledOnlyToPreserve: appending is off only for a full area or to     *)
(* preserve what stands behind valid records, never for good with nothing  *)
(* to preserve.                                                            *)
THEOREM DisabledRightly == Spec => []DisabledOnlyToPreserve
<1>1. FieldLogInv => DisabledOnlyToPreserve
  BY DEF FieldLogInv, FlashInv, DisabledOnlyToPreserve
<1>2. QED BY Invariant, <1>1, PTL

(* RecordsAreNumbered: the records of a dump have consecutive numbers, but *)
(* for the first of the area, across resets at any step, erased blocks and *)
(* scans, as long as no flash call fails and no erase overtakes the scan   *)
(* at boot.                                                                *)
THEOREM NumbersFollow == Spec => []RecordsAreNumbered
<1>1. FieldLogInv => RecordsAreNumbered BY DEF FieldLogInv, NumberInv
<1>2. QED BY Invariant, <1>1, PTL

(* SummariesAccount: every loss noted since boot is counted, queued or     *)
(* covered by a drop that a summary reports, and is in one summary.        *)
THEOREM LossesAccounted == Spec => []SummariesAccount
<1>1. FieldLogInv => SummariesAccount BY CountedThread DEF FieldLogInv
<1>2. QED BY Invariant, <1>1, PTL
=====
