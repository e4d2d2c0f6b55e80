--------------------------- MODULE FieldLogStorage ---------------------------
(***************************************************************************)
(* The flash log of field_log/field_log.c: fixed slots in erase blocks,    *)
(* appended to by the log thread, erased by the shell, scanned at boot.    *)
(* A mutex serialises the thread and the shell; the header of a record is  *)
(* filled before the mutex is taken.  A reset may come at any step and     *)
(* leaves what was being programmed or erased in one of several states.    *)
(* Offsets are counted in slots.  CONFIG_APP_FIELD_LOG_ERASE_ON_BOOT is    *)
(* off, as for field use.                                                  *)
(***************************************************************************)
EXTENDS Integers

CONSTANTS
    Blocks,         \* erase blocks of the area
    PerBlock,       \* slots of a block
    MaxSequence     \* bound of the model: no header is filled beyond it

ASSUME GeometryAssumption == Blocks \in Nat \ {0} /\ PerBlock \in Nat \ {0}
ASSUME SequenceAssumption == MaxSequence \in Nat

Capacity == Blocks * PerBlock
Slots == 0..(Capacity - 1)
BlockOf(s) == s \div PerBlock

VARIABLES
    flash,      \* what each slot holds
    cursor,     \* storage: write_offset, next_sequence, ready, full
    log,        \* what the log thread is doing, and the header it filled
    boot,       \* what init is doing, the next block it erases, slot it reads
    shell,      \* whether the shell erases the area, and its next block
    mutex,      \* field_log_storage_mutex: who holds it
    kept,       \* history: records acknowledged since the last erase
    failed,     \* history: a flash call has failed since the last full erase
    overtaken   \* history: the last full erase overtook the scan at boot

storageVars == <<flash, cursor, log, boot, shell, mutex, kept, failed, overtaken>>

Empty == [kind |-> "empty", sequence |-> 0]
Invalid == [kind |-> "invalid", sequence |-> 0]
Record(n) == [kind |-> "valid", sequence |-> n]

Slot == {Empty, Invalid} \union {Record(n) : n \in 0..MaxSequence}

StorageTypeOK ==
    /\ flash \in [Slots -> Slot]
    /\ cursor \in [offset : 0..Capacity, sequence : 0..(MaxSequence + 1),
                   ready : BOOLEAN, full : BOOLEAN]
    /\ log \in [pc : {"idle", "filled", "erasing", "writing"}, sequence : 0..MaxSequence]
    /\ boot \in [phase : {"scan", "erase", "rescan", "done"}, block : 0..(Blocks - 1),
                 slot : Slots]
    /\ shell \in [erasing : BOOLEAN, block : 0..(Blocks - 1)]
    /\ mutex \in {"free", "log", "shell"}
    /\ kept \in [Slots -> Slot]
    /\ failed \in BOOLEAN /\ overtaken \in BOOLEAN

(* The number of records a dump prints: it stops at the first slot that is *)
(* not valid.                                                              *)
Readable ==
    CHOOSE n \in 0..Capacity :
        /\ \A s \in 0..(n - 1) : flash[s].kind = "valid"
        /\ n < Capacity => flash[n].kind # "valid"

NoCursor == [offset |-> 0, sequence |-> 0, ready |-> FALSE, full |-> FALSE]
BootPhase(p) == [phase |-> p, block |-> 0, slot |-> 0]
ShellIdle == [erasing |-> FALSE, block |-> 0]
NoLog == [pc |-> "idle", sequence |-> 0]

(* An area never used, or with foreign data in some blocks.                *)
StorageInit ==
    /\ \E foreign \in SUBSET (0..(Blocks - 1)) :
           flash = [s \in Slots |-> IF BlockOf(s) \in foreign THEN Invalid ELSE Empty]
    /\ cursor = NoCursor
    /\ log = NoLog
    /\ boot = BootPhase("scan")
    /\ shell = ShellIdle
    /\ mutex = "free"
    /\ kept = [s \in Slots |-> Empty]
    /\ failed = FALSE /\ overtaken = FALSE

BlockErased(b) == [s \in Slots |-> IF BlockOf(s) = b THEN Empty ELSE flash[s]]

-----------------------------------------------------------------------------
(* Boot: field_log_storage_init(), before the log thread exists.  The area *)
(* is open from the start and init does not take the mutex: the shell may  *)
(* erase while a read or an erase of init's blocks.                        *)

Scanning == boot.phase \in {"scan", "rescan"}

(* Mutant: the number of the last record is given again.                   *)
AfterRecordRepeatsNumber ==
    LET last == boot.slot = Capacity - 1
    IN  [offset |-> boot.slot + 1, sequence |-> flash[boot.slot].sequence,
         ready |-> cursor.ready /\ ~last, full |-> cursor.full \/ last]

(* The cursor behind the record that has been read; an area without an     *)
(* erased slot is full.                                                    *)
AfterRecord ==
    LET last == boot.slot = Capacity - 1
    IN  [offset |-> boot.slot + 1, sequence |-> flash[boot.slot].sequence + 1,
         ready |-> cursor.ready /\ ~last, full |-> cursor.full \/ last]

(* field_log_storage_scan() reads a slot.                                  *)
ScanValid ==
    /\ Scanning /\ flash[boot.slot].kind = "valid"
    /\ cursor' = AfterRecord
    /\ boot' = IF boot.slot = Capacity - 1 THEN BootPhase("done")
               ELSE [boot EXCEPT !.slot = @ + 1]
    /\ UNCHANGED <<flash, log, shell, mutex, kept, failed, overtaken>>

ScanEmpty ==
    /\ Scanning /\ flash[boot.slot] = Empty
    /\ cursor' = [cursor EXCEPT !.offset = boot.slot, !.ready = ~cursor.full]
    /\ boot' = BootPhase("done")
    /\ UNCHANGED <<flash, log, shell, mutex, kept, failed, overtaken>>

(* Mutant: any area with an invalid record is erased.                      *)
EraseAtBootAlways == boot.phase = "scan"

(* Mutant: an area without a first record is left as it is.                *)
EraseAtBootNever == FALSE

(* Only an area without a first record is erased, and only once.           *)
EraseAtBoot == boot.phase = "scan" /\ boot.slot = 0

ScanInvalid ==
    /\ Scanning /\ flash[boot.slot].kind = "invalid"
    /\ cursor' = [cursor EXCEPT !.offset = boot.slot, !.full = ~EraseAtBoot]
    /\ boot' = BootPhase(IF EraseAtBoot THEN "erase" ELSE "done")
    /\ UNCHANGED <<flash, log, shell, mutex, kept, failed, overtaken>>

ScanFails ==
    /\ Scanning
    /\ boot' = BootPhase("done")
    /\ failed' = TRUE
    /\ UNCHANGED <<flash, cursor, log, shell, mutex, kept, overtaken>>

(* The second scan resets the cursor first, as the first one does.         *)
BootErase ==
    /\ boot.phase = "erase"
    /\ flash' = BlockErased(boot.block)
    /\ \/ /\ boot.block < Blocks - 1
          /\ boot' = [boot EXCEPT !.block = @ + 1]
          /\ UNCHANGED cursor
       \/ /\ boot.block = Blocks - 1
          /\ boot' = BootPhase("rescan")
          /\ cursor' = [NoCursor EXCEPT !.ready = cursor.ready]
    /\ UNCHANGED <<log, shell, mutex, kept, failed, overtaken>>

BootEraseFails ==
    /\ boot.phase = "erase"
    /\ boot' = BootPhase("done")
    /\ failed' = TRUE
    /\ UNCHANGED <<flash, cursor, log, shell, mutex, kept, overtaken>>

-----------------------------------------------------------------------------
(* The log thread: field_log_append_current_record().                      *)

(* field_log_fill_record_header() reads next_sequence without the mutex.   *)
FillHeader ==
    /\ boot.phase = "done" /\ log.pc = "idle"
    /\ cursor.sequence <= MaxSequence
    /\ log' = [pc |-> "filled", sequence |-> cursor.sequence]
    /\ UNCHANGED <<flash, cursor, boot, shell, mutex, kept, failed, overtaken>>

AppendRefused ==
    /\ log.pc = "filled" /\ mutex = "free"
    /\ \/ ~cursor.ready /\ UNCHANGED cursor
       \/ /\ cursor.ready /\ cursor.offset = Capacity
          /\ cursor' = [cursor EXCEPT !.full = TRUE, !.ready = FALSE]
    /\ log' = NoLog
    /\ UNCHANGED <<flash, boot, shell, mutex, kept, failed, overtaken>>

(* A record that opens a block erases the block first.                     *)
OpensBlock == cursor.offset % PerBlock = 0

(* Mutant: the end of the area is not checked.                             *)
AppendBeginUnchecked ==
    /\ log.pc = "filled" /\ mutex = "free" /\ cursor.ready
    /\ mutex' = "log"
    /\ log' = [log EXCEPT !.pc = IF OpensBlock THEN "erasing" ELSE "writing"]
    /\ UNCHANGED <<flash, cursor, boot, shell, kept, failed, overtaken>>

AppendBegin ==
    /\ log.pc = "filled" /\ mutex = "free"
    /\ cursor.ready /\ cursor.offset < Capacity
    /\ mutex' = "log"
    /\ log' = [log EXCEPT !.pc = IF OpensBlock THEN "erasing" ELSE "writing"]
    /\ UNCHANGED <<flash, cursor, boot, shell, kept, failed, overtaken>>

AppendErase ==
    /\ log.pc = "erasing"
    /\ flash' = BlockErased(BlockOf(cursor.offset))
    /\ log' = [log EXCEPT !.pc = "writing"]
    /\ UNCHANGED <<cursor, boot, shell, mutex, kept, failed, overtaken>>

(* Programming clears bits: a slot that is not erased becomes unreadable.  *)
Programmed(slot) == IF slot = Empty THEN Record(log.sequence) ELSE Invalid

AppendWrite ==
    /\ log.pc = "writing"
    /\ flash' = [flash EXCEPT ![cursor.offset] = Programmed(@)]
    /\ cursor' = [cursor EXCEPT !.offset = @ + 1, !.sequence = @ + 1]
    /\ kept' = [kept EXCEPT ![cursor.offset] = Record(log.sequence)]
    /\ log' = NoLog
    /\ mutex' = "free"
    /\ UNCHANGED <<boot, shell, failed, overtaken>>

(* The erase or the write fails: the record is dropped, the cursor stays.  *)
AppendFails ==
    /\ \/ log.pc = "erasing" /\ UNCHANGED flash
       \/ /\ log.pc = "writing"
          /\ \/ UNCHANGED flash
             \/ flash' = [flash EXCEPT ![cursor.offset] = Invalid]
    /\ log' = NoLog
    /\ mutex' = "free"
    /\ failed' = TRUE
    /\ UNCHANGED <<cursor, boot, shell, kept, overtaken>>

-----------------------------------------------------------------------------
(* The shell: cmd_fieldlog_erase().                                        *)

ShellErase ==
    /\ ~shell.erasing /\ mutex = "free"
    /\ mutex' = "shell"
    /\ shell' = [erasing |-> TRUE, block |-> 0]
    /\ kept' = [s \in Slots |-> Empty]
    /\ UNCHANGED <<flash, cursor, log, boot, failed, overtaken>>

CursorReset == [NoCursor EXCEPT !.ready = TRUE]

(* A scan that has passed the first slot takes the next one, which has     *)
(* been erased behind its back, for the end of the records, and puts the   *)
(* cursor there.                                                           *)
ScanIsOvertaken == Scanning /\ boot.slot > 0

ShellEraseBlock ==
    /\ shell.erasing
    /\ flash' = BlockErased(shell.block)
    /\ \/ /\ shell.block < Blocks - 1
          /\ shell' = [shell EXCEPT !.block = @ + 1]
          /\ UNCHANGED <<cursor, mutex, failed, overtaken>>
       \/ /\ shell.block = Blocks - 1
          /\ cursor' = CursorReset
          /\ mutex' = "free"
          /\ shell' = ShellIdle
          /\ failed' = FALSE
          /\ overtaken' = ScanIsOvertaken
    /\ UNCHANGED <<log, boot, kept>>

(* A block that cannot be erased ends the command: the blocks before it    *)
(* are erased, the cursor still points behind them.                        *)
ShellEraseFails ==
    /\ shell.erasing
    /\ shell' = ShellIdle
    /\ mutex' = "free"
    /\ failed' = TRUE
    /\ UNCHANGED <<flash, cursor, log, boot, kept, overtaken>>

-----------------------------------------------------------------------------
(* A reset.                                                                *)

(* What a reset may interrupt: blocks being erased, slots being written.   *)
BeingErased ==
    {b \in 0..(Blocks - 1) : \/ boot.phase = "erase" /\ boot.block = b
                             \/ shell = [erasing |-> TRUE, block |-> b]
                             \/ log.pc = "erasing" /\ BlockOf(cursor.offset) = b}
BeingWritten == {s \in Slots : log.pc = "writing" /\ cursor.offset = s}

(* An interrupted erase leaves its block as it was, unreadable or erased;  *)
(* an interrupted write leaves its slot as it was, unreadable or written.  *)
Reset ==
    /\ \E block \in [BeingErased -> {"kept", "unreadable", "erased"}],
          slot \in [BeingWritten -> {"kept", "unreadable", "written"}] :
           flash' = [s \in Slots |->
               CASE BlockOf(s) \in BeingErased /\ block[BlockOf(s)] = "unreadable" -> Invalid
                 [] BlockOf(s) \in BeingErased /\ block[BlockOf(s)] = "erased" -> Empty
                 [] s \in BeingWritten /\ slot[s] = "unreadable" -> Invalid
                 [] s \in BeingWritten /\ slot[s] = "written" -> Programmed(flash[s])
                 [] OTHER -> flash[s]]
    /\ cursor' = NoCursor
    /\ log' = NoLog
    /\ boot' = BootPhase("scan")
    /\ shell' = ShellIdle
    /\ mutex' = "free"
    /\ UNCHANGED <<kept, failed, overtaken>>
=============================================================================
