------------------------------ MODULE FieldLog ------------------------------
(***************************************************************************)
(* The field log: callbacks note samples and state changes in a bounded    *)
(* queue, the log thread turns them into records and a timer into summary  *)
(* records, and FieldLogStorage keeps the records.  What a message carries *)
(* is reduced to what becomes of it; the energy and location samples, and  *)
(* the widths of the counters, are left out.                               *)
(***************************************************************************)
EXTENDS FieldLogStorage, FiniteSets, Sequences

CONSTANTS
    QueueLength,    \* FIELD_LOG_MSGQ_LEN
    MaxNoted        \* bound of the model: state changes noted since boot

ASSUME QueueAssumption == QueueLength \in Nat \ {0} /\ MaxNoted \in Nat

VARIABLES
    queue,      \* field_log_msgq
    dropped,    \* field_log_dropped_messages
    summary,    \* whether the record being written is a summary
    counters,   \* runtime: LTE-M losses since boot and since the last summary
    noted,      \* history: messages and losses noted since boot
    reported    \* history: drops and losses in the summaries since boot

threadVars == <<queue, dropped, summary, counters, noted, reported>>
vars == <<storageVars, threadVars>>

(* A battery or location sample leaves no record; a state change leaves    *)
(* one and may count as a loss of LTE-M; a connection evaluation leaves    *)
(* one.                                                                    *)
Message == {"sample", "loss", "change", "conn_eval"}

Pair == [messages : 0..MaxNoted, losses : 0..MaxNoted]
None == [messages |-> 0, losses |-> 0]

TypeOK ==
    /\ StorageTypeOK
    /\ queue \in Seq(Message) /\ Len(queue) <= QueueLength
    /\ dropped \in 0..MaxNoted
    /\ summary \in BOOLEAN
    /\ counters \in [total : 0..MaxNoted, interval : 0..MaxNoted]
    /\ noted \in Pair /\ reported \in Pair

ThreadStarts ==
    /\ queue = <<>> /\ dropped = 0 /\ summary = FALSE
    /\ counters = [total |-> 0, interval |-> 0]
    /\ noted = None /\ reported = None

Init == StorageInit /\ ThreadStarts

(* field_log_enqueue_message(), from any callback: nothing is noted before *)
(* field_log_start() is done, and a full queue drops the message.          *)
Note(m) ==
    /\ boot.phase = "done" /\ noted.messages < MaxNoted
    /\ noted' = [messages |-> noted.messages + 1,
                 losses |-> noted.losses + (IF m = "loss" THEN 1 ELSE 0)]
    /\ IF Len(queue) < QueueLength
       THEN queue' = Append(queue, m) /\ UNCHANGED dropped
       ELSE dropped' = dropped + 1 /\ UNCHANGED queue
    /\ UNCHANGED <<storageVars, summary, counters, reported>>

(* The log thread takes a message that leaves no record...                 *)
ProcessSample ==
    /\ boot.phase = "done" /\ log.pc = "idle" /\ ~summary
    /\ queue # <<>> /\ Head(queue) = "sample"
    /\ queue' = Tail(queue)
    /\ UNCHANGED <<storageVars, dropped, summary, counters, noted, reported>>

(* ...or one that does, counting it first.                                 *)
ProcessRecord ==
    /\ ~summary
    /\ queue # <<>> /\ Head(queue) # "sample"
    /\ FillHeader
    /\ queue' = Tail(queue)
    /\ counters' = IF Head(queue) = "loss"
                   THEN [total |-> counters.total + 1, interval |-> counters.interval + 1]
                   ELSE counters
    /\ UNCHANGED <<dropped, summary, noted, reported>>

(* field_log_finalize_summary() takes the drop count and fills a record... *)
SummaryBegin ==
    /\ ~summary
    /\ FillHeader
    /\ summary' = TRUE
    /\ reported' = [messages |-> reported.messages + dropped,
                    losses |-> reported.losses + counters.interval]
    /\ dropped' = 0
    /\ UNCHANGED <<queue, counters, noted>>

(* Mutant: the drop count is cleared with the interval, not when read.     *)
SummaryEndClearsDrops ==
    /\ summary /\ log.pc = "idle"
    /\ summary' = FALSE
    /\ counters' = [counters EXCEPT !.interval = 0]
    /\ dropped' = 0
    /\ UNCHANGED <<storageVars, queue, noted, reported>>

(* ...and starts a new interval when the record is written, or refused.    *)
SummaryEnd ==
    /\ summary /\ log.pc = "idle"
    /\ summary' = FALSE
    /\ counters' = [counters EXCEPT !.interval = 0]
    /\ UNCHANGED <<storageVars, queue, dropped, noted, reported>>

Storage ==
    /\ \/ ScanValid \/ ScanEmpty \/ ScanInvalid \/ BootErase
       \/ AppendRefused \/ AppendBegin \/ AppendErase \/ AppendWrite
       \/ ShellErase \/ ShellEraseBlock
    /\ UNCHANGED threadVars

FlashFails ==
    /\ ScanFails \/ BootEraseFails \/ AppendFails \/ ShellEraseFails
    /\ UNCHANGED threadVars

Restart ==
    /\ Reset
    /\ queue' = <<>> /\ dropped' = 0 /\ summary' = FALSE
    /\ counters' = [total |-> 0, interval |-> 0]
    /\ noted' = None /\ reported' = None

Next ==
    \/ Storage \/ FlashFails \/ Restart
    \/ \E m \in Message : Note(m)
    \/ ProcessSample \/ ProcessRecord \/ SummaryBegin \/ SummaryEnd

Spec == Init /\ [][Next]_vars

-----------------------------------------------------------------------------
(***************************************************************************)
(* Properties.                                                             *)
(***************************************************************************)

(* A record that was acknowledged stays where a dump finds it, unchanged,  *)
(* until the shell is told to erase: no reset, boot or later append loses  *)
(* it as long as no flash call fails, and the last erase did not overtake  *)
(* the scan at boot, which then puts the next records behind erased slots  *)
(* (field_log_storage_init, field_log_storage_append_record,               *)
(* cmd_fieldlog_erase).                                                    *)
AcknowledgedRecordsStay ==
    ~failed /\ ~overtaken => \A s \in Slots : kept[s] # Empty => flash[s] = kept[s] /\ s < Readable

(* Appending is off only when the area is full or "to preserve corrupted   *)
(* data" behind valid records (field_log_storage_init), not for good with  *)
(* nothing to preserve, whatever was interrupted and whatever the shell    *)
(* erased meanwhile; a full erase puts right what failed calls left.       *)
DisabledOnlyToPreserve ==
    boot.phase = "done" /\ mutex # "shell" /\ ~cursor.ready /\ ~failed =>
        \/ cursor.offset = Capacity
        \/ cursor.offset > 0 /\ flash[cursor.offset].kind = "invalid"

(* An acknowledged record has the number after that of the record before   *)
(* it in the flash, whether that one was acknowledged or written as the    *)
(* device was reset: fieldlog_decode.py puts the records of a dump in the  *)
(* order of their numbers.  Only the first record of the area may have any *)
(* number, because its header may have been filled before the area was     *)
(* erased: the second one is then number 1.  The exceptions are those of   *)
(* AcknowledgedRecordsStay (field_log_fill_record_header,                  *)
(* field_log_storage_scan).                                                *)
RecordsAreNumbered ==
    ~failed /\ ~overtaken => \A s, t \in Slots :
        t = s + 1 /\ kept[t] # Empty =>
            \/ kept[t].sequence = flash[s].sequence + 1
            \/ s = 0 /\ kept[t].sequence = 1

(* Every loss of LTE-M noted since boot is counted, queued, or covered by  *)
(* a dropped message; each counted loss is in one summary, and each drop   *)
(* in one too, or still to come (field_log_enqueue_message,                *)
(* field_log_finalize_summary).                                            *)
SummariesAccount ==
    LET queued == Cardinality({i \in 1..Len(queue) : queue[i] = "loss"})
    IN  /\ noted.losses - counters.total - queued \in 0..(reported.messages + dropped)
        /\ counters.total = reported.losses + (IF summary THEN 0 ELSE counters.interval)

(* "each slot is either erased, valid by CRC, or treated as the stopping   *)
(* point for the next dump/append" (field_log.c): no record is appended    *)
(* behind a slot that is neither erased nor valid.  After a failed write   *)
(* the next record goes over what it left, and those after it behind.      *)
AppendStopsAtInvalid ==
    [][AppendWrite => \A s \in 0..(cursor.offset - 1) : flash[s].kind # "invalid"]_vars
=============================================================================
