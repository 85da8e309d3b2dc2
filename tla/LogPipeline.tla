---------------------------- MODULE LogPipeline -----------------------------
(***************************************************************************)
(* The path of a log event: a ProtoWriter (LIVE) or CachedProtoWriter      *)
(* (CACHED) in the process that is measured, a PUB/SUB connection, and the *)
(* ProtoReceiver, callbacks and SQLiteDatabase of the logan server.        *)
(*                                                                         *)
(* Threads: those that push, the owner that terminates the writer, the     *)
(* writer's WriteQueue; the server's owner, the receiver's ZmqReceiver and *)
(* ProtoConverter. A cached event goes from write_queue through WriteQueue *)
(* into a file and is only published when the writer terminates.           *)
(*                                                                         *)
(* Notifications are folded into the step that releases the mutex before   *)
(* them: a thread that comes to its wait in between finds its predicate    *)
(* true and does not wait. The owner of a writer terminates it when nobody *)
(* pushes any more (logcontroller.cpp:139-187, the loggers' destructors).  *)
(*                                                                         *)
(* Two assumptions about what is outside.  SQLite does what it is asked:   *)
(* where sqlite3_step, BEGIN or END fails the code prints a line and goes  *)
(* on (sqlitedatabase.cpp:56-67, 98-103), and rows are lost without any of *)
(* the excuses below.  And nobody but the writer removes its temporary     *)
(* file: without it file_size throws out of Terminate                      *)
(* (cachedprotowriter.cpp:92).                                             *)
(***************************************************************************)
EXTENDS Integers, Sequences, FiniteSets

CONSTANTS
  CacheCount,    \* cache_count_: queued events that wake WriteQueue
  BatchSize,     \* batch_size_ of the receiver (0: nobody calls SetBatchMode)
  SqlBatch,      \* SQL_BATCH_SIZE
  MaxMessages,   \* bound: events pushed
  Torn           \* a record that was cut off when the disk failed, or is made of such bytes

ASSUME PipelineAssumption ==
  /\ CacheCount \in Nat \ {0}
  /\ BatchSize \in Nat
  /\ SqlBatch \in Nat \ {0}
  /\ MaxMessages \in Nat
  /\ Torn \notin Nat

VARIABLES
  mode,                       \* LIVE or CACHED
  write_queue,                \* write_queue_
  batch,                      \* replace_queue of WriteQueue
  file,                       \* the records of the temporary file
  written_to_disk_count,
  writer_terminate,           \* writer_terminate_
  writer,                     \* where WriteQueue is
  owner,                      \* where the owner of the writer is
  cached_messages,            \* what Terminate read back from the file
  wire,                       \* published to the server, not yet received
  subscribed,                 \* the SUB socket is connected
  command,                    \* the inproc command being sent, or none
  receiver,                   \* where ZmqReceiver is
  rx_message_queue,           \* rx_message_queue_
  converter,                  \* where ProtoConverter is
  converting,                 \* the queue ProtoConverter has swapped out
  terminate_proto_converter,  \* terminate_proto_converter_
  server,                     \* where ~Server is
  transaction,                \* rows inserted since BEGIN TRANSACTION
  database,                   \* rows committed
  accepted,                   \* events pushed
  cut,                        \* history: the disk has cut a record off
  excused                     \* history: an event may be missing, disk or server failed it

writerVars   == <<mode, write_queue, batch, file, written_to_disk_count,
                  writer_terminate, writer, owner, cached_messages, accepted, cut>>
netVars      == <<wire, subscribed>>
receiverVars == <<command, receiver, rx_message_queue, converter, converting,
                  terminate_proto_converter, server>>
rowVars      == <<transaction, database>>
vars         == <<writerVars, netVars, receiverVars, rowVars, excused>>

Events == Nat \cup {Torn}

Init ==
  /\ mode \in {"LIVE", "CACHED"}
  /\ write_queue = <<>> /\ batch = <<>> /\ file = <<>>
  /\ written_to_disk_count = 0
  /\ writer_terminate = FALSE
  /\ writer = IF mode = "CACHED" THEN "check" ELSE "ended"
  /\ owner = "up"
  /\ cached_messages = <<>>
  /\ wire = <<>> /\ subscribed = FALSE
  /\ command = "none" /\ receiver = "poll"
  /\ rx_message_queue = <<>>
  /\ converter = "check" /\ converting = <<>>
  /\ terminate_proto_converter = FALSE
  /\ server = "up"
  /\ transaction = <<>> /\ database = <<>>
  /\ accepted = 0
  /\ cut = FALSE /\ excused = FALSE

-----------------------------------------------------------------------------
(* Publishing: a PUB socket drops what it is given while nobody subscribes. *)
Publish(m) ==
  /\ wire' = IF subscribed THEN Append(wire, m) ELSE wire
  /\ excused' = (excused \/ ~subscribed)
  /\ UNCHANGED subscribed

(* Waking a thread that waits for its condition. *)
Notified(pc) == IF pc = "waiting" THEN "check" ELSE pc

(* CachedProtoWriter::PushMessage *)
PushCached ==
  /\ owner = "up" /\ mode = "CACHED" /\ accepted < MaxMessages
  /\ accepted' = accepted + 1
  /\ write_queue' = Append(write_queue, accepted')
  /\ writer' = IF Len(write_queue') >= CacheCount THEN Notified(writer) ELSE writer
  /\ UNCHANGED <<mode, cut, batch, file, written_to_disk_count, writer_terminate, owner,
                 cached_messages, netVars, receiverVars, rowVars, excused>>

(* ProtoWriter::PushMessage *)
PushLive ==
  /\ owner = "up" /\ mode = "LIVE" /\ accepted < MaxMessages
  /\ accepted' = accepted + 1
  /\ Publish(accepted')
  /\ UNCHANGED <<mode, cut, write_queue, batch, file, written_to_disk_count, writer_terminate,
                 writer, owner, cached_messages, receiverVars, rowVars>>

-----------------------------------------------------------------------------
(* Terminating should leave the events in the queue, however many they are. *)
WriterMayEnd_Drained == writer_terminate /\ Len(write_queue) < CacheCount
WriterMayEnd == writer_terminate

(* WriteQueue takes the lock and evaluates its predicate.                  *)
WriterCheck ==
  /\ writer = "check"
  /\ IF WriterMayEnd
     THEN writer' = "ended" /\ UNCHANGED <<write_queue, batch>>
     ELSE IF Len(write_queue) >= CacheCount
     THEN /\ writer' = "open"
          /\ batch' = write_queue
          /\ write_queue' = <<>>
     ELSE writer' = "waiting" /\ UNCHANGED <<write_queue, batch>>
  /\ UNCHANGED <<mode, cut, file, written_to_disk_count, writer_terminate, owner,
                 cached_messages, accepted, netVars, receiverVars, rowVars, excused>>

(* Events that are put back go to the front of the queue. *)
PutBack_Behind == write_queue \o batch
PutBack == batch \o write_queue

(* Faulty variant: a batch that was put back is counted as written. *)
OpenFails_Counts ==
  /\ writer = "open"
  /\ writer' = "check"
  /\ write_queue' = PutBack
  /\ batch' = <<>>
  /\ written_to_disk_count' = written_to_disk_count + Len(batch)
  /\ UNCHANGED <<mode, cut, file, writer_terminate, owner, cached_messages, accepted,
                 netVars, receiverVars, rowVars, excused>>

(* The file cannot be opened: the events are put back and the thread tries *)
(* again a second later.                                                   *)
OpenFails ==
  /\ writer = "open"
  /\ writer' = "check"
  /\ write_queue' = PutBack
  /\ batch' = <<>>
  /\ UNCHANGED <<mode, cut, file, written_to_disk_count, writer_terminate, owner,
                 cached_messages, accepted, netVars, receiverVars, rowVars, excused>>

(* The file is opened to append: a batch goes behind those before it. *)
OnFile_Overwrites(records) == IF file = <<>> THEN records ELSE Append(records, Torn)
OnFile(records) == file \o records

(* The batch is appended to the file. When the disk fails only the first   *)
(* records are whole and one may be cut off; those that fitted into the    *)
(* stream's buffer count as written whether they reach the disk or not.    *)
WriteBatch ==
  /\ writer = "open"
  /\ writer' = "check"
  /\ batch' = <<>>
  /\ \E whole \in 0 .. Len(batch) : \E counted \in whole .. Len(batch) :
        /\ \/ file' = OnFile(SubSeq(batch, 1, whole)) /\ UNCHANGED cut
           \/ /\ whole < Len(batch)
              /\ file' = OnFile(SubSeq(batch, 1, whole)) \o <<Torn>>
              /\ cut' = TRUE
        /\ written_to_disk_count' = written_to_disk_count + counted
        /\ excused' = (excused \/ whole < Len(batch))
  /\ UNCHANGED <<mode, write_queue, writer_terminate, owner, cached_messages, accepted,
                 netVars, receiverVars, rowVars>>

-----------------------------------------------------------------------------
(* Terminate of either writer begins. LIVE has no thread to wait for. *)
BeginTerminate ==
  /\ owner = "up"
  /\ IF mode = "CACHED"
     THEN owner' = "joining" /\ writer_terminate' = TRUE /\ writer' = Notified(writer)
     ELSE owner' = "closing" /\ UNCHANGED <<writer_terminate, writer>>
  /\ UNCHANGED <<mode, cut, write_queue, batch, file, written_to_disk_count, cached_messages,
                 accepted, netVars, receiverVars, rowVars, excused>>

(* The records of the file before the first that is torn. *)
WholeRecords ==
  LET torn == {i \in 1 .. Len(file) : file[i] = Torn}
  IN  IF torn = {} THEN file
      ELSE SubSeq(file, 1, (CHOOSE i \in torn : \A j \in torn : i <= j) - 1)

(* ReadMessagesFromFile returns them and what it makes of the bytes behind *)
(* them: the torn record is completed with bytes of the next, and from     *)
(* then on sizes are read where there are none, which gives some records   *)
(* of nonsense until a size does not fit.                                  *)
FileRecords ==
  {WholeRecords \o [i \in 1 .. n |-> Torn] : n \in 0 .. Len(file) - Len(WholeRecords)}

(* writer_future_.get() has returned; the file is read back if anything    *)
(* was written to it, and if it can be opened.                             *)
ReadBack ==
  /\ owner = "joining" /\ writer = "ended"
  /\ owner' = "file"
  /\ IF written_to_disk_count = 0
     THEN UNCHANGED <<cached_messages, excused>>
     ELSE \/ cached_messages' \in FileRecords /\ UNCHANGED excused
          \/ cached_messages' = <<>> /\ excused' = TRUE
  /\ UNCHANGED <<mode, cut, write_queue, batch, file, written_to_disk_count, writer_terminate,
                 writer, accepted, netVars, receiverVars, rowVars>>

SendCached ==
  /\ owner = "file" /\ cached_messages # <<>>
  /\ Publish(Head(cached_messages))
  /\ cached_messages' = Tail(cached_messages)
  /\ UNCHANGED <<mode, cut, write_queue, batch, file, written_to_disk_count, writer_terminate,
                 writer, owner, accepted, receiverVars, rowVars>>

SendQueued ==
  /\ owner = "file" /\ cached_messages = <<>> /\ write_queue # <<>>
  /\ Publish(Head(write_queue))
  /\ write_queue' = Tail(write_queue)
  /\ UNCHANGED <<mode, cut, batch, file, written_to_disk_count, writer_terminate, writer, owner,
                 cached_messages, accepted, receiverVars, rowVars>>

(* The file is removed, and ProtoWriter::Terminate closes the socket, which *)
(* lingers until everything has been sent.                                  *)
CloseWriter ==
  /\ \/ owner = "closing"
     \/ owner = "file" /\ cached_messages = <<>> /\ write_queue = <<>>
  /\ owner' = "down"
  /\ file' = <<>>
  /\ UNCHANGED <<mode, cut, write_queue, batch, written_to_disk_count, writer_terminate, writer,
                 cached_messages, accepted, netVars, receiverVars, rowVars, excused>>

-----------------------------------------------------------------------------
(* SendInprocMessage: Connect, and the "terminate" of ~ProtoReceiver. *)
Connect ==
  /\ server = "up" /\ command = "none" /\ ~subscribed
  /\ command' = "connect"
  /\ UNCHANGED <<writerVars, netVars, receiver, rx_message_queue, converter, converting,
                 terminate_proto_converter, server, rowVars, excused>>

BeginShutdown ==
  /\ server = "up" /\ command = "none"
  /\ command' = "terminate"
  /\ server' = "receiver"
  /\ UNCHANGED <<writerVars, netVars, receiver, rx_message_queue, converter, converting,
                 terminate_proto_converter, rowVars, excused>>

(* ZmqReceiver leaves its loop: the SUB socket goes, with what it holds. *)
EndReceiver(unread) ==
  /\ receiver' = "ended"
  /\ wire' = <<>>
  /\ subscribed' = FALSE
  /\ excused' = (excused \/ unread # <<>>)

(* A command is handled. After "terminate" one more event is read if the   *)
(* poll that returned the command saw it as well.                          *)
HandleCommand ==
  /\ receiver = "poll" /\ command # "none"
  /\ command' = "none"
  /\ IF command = "connect"
     THEN subscribed' = TRUE /\ UNCHANGED <<receiver, wire, excused>>
     ELSE \/ wire # <<>> /\ receiver' = "last" /\ UNCHANGED <<wire, subscribed, excused>>
          \/ EndReceiver(wire)
  /\ UNCHANGED <<writerVars, rx_message_queue, converter, converting,
                 terminate_proto_converter, server, rowVars>>

(* Enough events are queued for the converter to be woken. *)
WakesConverter_Late(n) == n > BatchSize + 1
WakesConverter(n) == n > BatchSize

(* An event is received, queued and ProtoConverter woken. *)
ReceiveMessage ==
  /\ receiver \in {"poll", "last"} /\ wire # <<>>
  /\ rx_message_queue' = Append(rx_message_queue, Head(wire))
  /\ converter' = IF receiver = "last" \/ WakesConverter(Len(rx_message_queue'))
                  THEN Notified(converter) ELSE converter
  /\ IF receiver = "last"
     THEN EndReceiver(Tail(wire))
     ELSE wire' = Tail(wire) /\ UNCHANGED <<receiver, subscribed, excused>>
  /\ UNCHANGED <<writerVars, command, converting, terminate_proto_converter, server, rowVars>>

(* The predicate of the converter's wait. *)
ConverterReady_Events == rx_message_queue # <<>>
ConverterReady == terminate_proto_converter \/ rx_message_queue # <<>>

(* ProtoConverter takes the lock, waits for events or the end, and swaps   *)
(* the queue out in both cases: the end comes after what was received.     *)
ConverterCheck ==
  /\ converter = "check"
  /\ IF ConverterReady
     THEN /\ converter' = IF terminate_proto_converter THEN "finish" ELSE "process"
          /\ converting' = rx_message_queue
          /\ rx_message_queue' = <<>>
     ELSE converter' = "waiting" /\ UNCHANGED <<converting, rx_message_queue>>
  /\ UNCHANGED <<writerVars, netVars, command, receiver, terminate_proto_converter, server,
                 rowVars, excused>>

(* ExecuteSqlStatement: the row joins the transaction, which ends when it  *)
(* is large enough.                                                        *)
ExecuteSqlStatement(row) ==
  IF Len(transaction) + 1 >= SqlBatch
  THEN database' = database \o transaction \o <<row>> /\ transaction' = <<>>
  ELSE transaction' = Append(transaction, row) /\ UNCHANGED database

(* ConstructProto: whether the type of a message is known and ParseFromArray *)
(* accepts its bytes.  Both can be true of nonsense, where the cut went     *)
(* through the last string of a record.                                     *)
Parses(m) == IF m = Torn THEN BOOLEAN ELSE {TRUE}

(* ProcessMessage: what cannot be parsed is dropped, the rest inserted. *)
ProcessMessage ==
  /\ converter \in {"process", "finish"} /\ converting # <<>>
  /\ \E parsed \in Parses(Head(converting)) :
       IF parsed THEN ExecuteSqlStatement(Head(converting)) ELSE UNCHANGED rowVars
  /\ converting' = Tail(converting)
  /\ UNCHANGED <<writerVars, netVars, command, receiver, rx_message_queue, converter,
                 terminate_proto_converter, server, excused>>

(* The swapped queue is empty: another round, or the end of the thread. *)
ConverterNext ==
  /\ converter \in {"process", "finish"} /\ converting = <<>>
  /\ converter' = IF converter = "finish" THEN "ended" ELSE "check"
  /\ UNCHANGED <<writerVars, netVars, command, receiver, rx_message_queue, converting,
                 terminate_proto_converter, server, rowVars, excused>>

(* ~ProtoReceiver: zmq_receiver_.get() has returned. *)
JoinReceiver ==
  /\ server = "receiver" /\ receiver = "ended"
  /\ server' = "converter"
  /\ terminate_proto_converter' = TRUE
  /\ converter' = Notified(converter)
  /\ UNCHANGED <<writerVars, netVars, command, receiver, rx_message_queue, converting,
                 rowVars, excused>>

(* proto_converter_.get() has returned; the handlers go, and then the      *)
(* database, which ends the transaction.                                   *)
CloseDatabase_NoFlush ==
  /\ server = "converter" /\ converter = "ended"
  /\ server' = "down"
  /\ UNCHANGED <<writerVars, netVars, command, receiver, rx_message_queue, converter,
                 converting, terminate_proto_converter, rowVars, excused>>
CloseDatabase ==
  /\ server = "converter" /\ converter = "ended"
  /\ server' = "down"
  /\ database' = database \o transaction
  /\ transaction' = <<>>
  /\ UNCHANGED <<writerVars, netVars, command, receiver, rx_message_queue, converter,
                 converting, terminate_proto_converter, excused>>

-----------------------------------------------------------------------------
WriterThread    == WriterCheck \/ OpenFails \/ WriteBatch
OwnerThread     == ReadBack \/ SendCached \/ SendQueued \/ CloseWriter
ReceiverThread  == HandleCommand \/ ReceiveMessage
ConverterThread == ConverterCheck \/ ProcessMessage \/ ConverterNext
ServerThread    == JoinReceiver \/ CloseDatabase

Next ==
  \/ PushCached \/ PushLive \/ BeginTerminate \/ Connect \/ BeginShutdown
  \/ WriterThread \/ OwnerThread \/ ReceiverThread \/ ConverterThread \/ ServerThread

(* Threads that can run do. Nobody has to push, connect, terminate a       *)
(* writer or shut a server down, and the file may never open.              *)
Spec ==
  /\ Init /\ [][Next]_vars
  /\ WF_vars(WriterThread) /\ WF_vars(OwnerThread) /\ WF_vars(ReceiverThread)
  /\ WF_vars(ConverterThread) /\ WF_vars(ServerThread)

-----------------------------------------------------------------------------
(* Types, and that no event is counted as written to disk twice, or while  *)
(* it is still to be written.                                              *)
TypeOK ==
  /\ mode \in {"LIVE", "CACHED"}
  /\ {write_queue, batch} \subseteq Seq(1 .. MaxMessages)
  /\ {file, cached_messages, wire, rx_message_queue, converting, transaction, database}
        \subseteq Seq(Events)
  /\ written_to_disk_count \in Nat
  /\ written_to_disk_count + Len(batch) + Len(write_queue) <= accepted
  /\ {writer_terminate, subscribed, terminate_proto_converter, cut, excused} \subseteq BOOLEAN
  /\ writer \in {"check", "waiting", "open", "ended"}
  /\ owner \in {"up", "joining", "file", "closing", "down"}
  /\ command \in {"none", "connect", "terminate"}
  /\ receiver \in {"poll", "last", "ended"}
  /\ converter \in {"check", "waiting", "process", "finish", "ended"}
  /\ server \in {"up", "receiver", "converter", "down"}
  /\ accepted \in 0 .. MaxMessages

(* Rows are events that were pushed.  What reads the file back and what    *)
(* parses a message would take nonsense for an event (Parses), so this     *)
(* rests on the file: batch after batch, written by one thread and read by *)
(* another after it has ended, it holds whole records unless the disk cut  *)
(* one off.                                                                *)
RowsAreEvents == cut \/ {database, transaction} \subseteq Seq(1 .. accepted)

(* What is still on its way, oldest first. The file stands for its events  *)
(* until it is read back.                                                  *)
OnDisk == IF owner \in {"up", "joining"} THEN file ELSE <<>>

Whole(s) == SelectSeq(s, LAMBDA m : m # Torn)

Pending == Whole(converting \o rx_message_queue \o wire \o cached_messages \o OnDisk
                   \o batch \o write_queue)

Channel == INSTANCE LogChannel WITH
  pending <- Pending,
  stored  <- Whole(database \o transaction)

(* The pipeline implements the channel: through the detour over the file,  *)
(* events put back after a failed open, the batches of the converter and   *)
(* of SQLite, no event is reordered or doubled, and none is lost without   *)
(* a failed disk, a missing subscriber or a server that shuts down.        *)
ImplementsChannel == Channel!Spec

(* Terminate returns, also when the temporary file can never be opened. *)
TerminateReturns == (owner # "up") ~> (owner = "down")

(* ~Server comes to its end whatever its threads were doing. *)
ServerStops == (server # "up") ~> (server = "down")

(* Once a writer is terminated, everything it accepted is inserted in the  *)
(* database of the server, unless there is an excuse.                      *)
TerminateDelivers ==
  (owner = "down") ~> (excused \/ Len(database) + Len(transaction) = accepted)

(* A server that is down has committed all it has received: nothing is     *)
(* left in the receiver's queue, the converter's or the transaction.       *)
DownIsCommitted ==
  server = "down" => rx_message_queue = <<>> /\ converting = <<>> /\ transaction = <<>>
=============================================================================
