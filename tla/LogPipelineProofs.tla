------------------------- MODULE LogPipelineProofs --------------------------
(***************************************************************************)
(* Theorems about LogPipeline for every cache size, batch size and number  *)
(* of events.  PipelineInv is the inductive invariant.  It follows the     *)
(* events through the nine places they pass on their way from the writer   *)
(* to the database.  What ImplementsChannel says of order and loss is      *)
(* proved here in terms of the events themselves (RowsInOrder, NothingLost)*)
(* because the refinement mapping filters a sequence, which takes an       *)
(* induction over its length.                                              *)
(***************************************************************************)
EXTENDS LogPipeline, WellFoundedInduction, TLAPS

Number == 1 .. MaxMessages

Record == Number \cup {Torn}

In(x, s) == \E i \in 1 .. Len(s) : s[i] = x

(* The events of a sequence, and sequences that keep them in order. *)
Numbers(s) == {n \in Number : In(n, s)}

Increasing(s) ==
  \A i, j \in 1 .. Len(s) : i < j /\ s[i] # Torn /\ s[j] # Torn => s[i] < s[j]

Below(A, B) == \A m \in A, n \in B : m < n

PipelineTypeOK ==
  /\ mode \in {"LIVE", "CACHED"}
  /\ write_queue \in Seq(Number) /\ batch \in Seq(Number)
  /\ database \in Seq(Record) /\ transaction \in Seq(Record)
  /\ file \in Seq(Record) /\ cached_messages \in Seq(Record) /\ wire \in Seq(Record)
  /\ rx_message_queue \in Seq(Record) /\ converting \in Seq(Record)
  /\ accepted \in 0 .. MaxMessages
  /\ written_to_disk_count \in Nat
  /\ writer_terminate \in BOOLEAN /\ subscribed \in BOOLEAN
  /\ terminate_proto_converter \in BOOLEAN /\ cut \in BOOLEAN /\ excused \in BOOLEAN
  /\ writer \in {"check", "waiting", "open", "ended"}
  /\ owner \in {"up", "joining", "file", "closing", "down"}
  /\ command \in {"none", "connect", "terminate"}
  /\ receiver \in {"poll", "last", "ended"}
  /\ converter \in {"check", "waiting", "process", "finish", "ended"}
  /\ server \in {"up", "receiver", "converter", "down"}

(* An event is counted as written to disk once at most. *)
DiskCount == written_to_disk_count + Len(batch) + Len(write_queue) <= accepted

(* The server's threads end one after the other, and each leaves nothing   *)
(* behind for the next.                                                    *)
ServerEnds ==
  /\ terminate_proto_converter => receiver = "ended"
  /\ server \in {"converter", "down"} <=> terminate_proto_converter
  /\ converter \in {"finish", "ended"} => terminate_proto_converter /\ rx_message_queue = <<>>
  /\ converter \notin {"process", "finish"} => converting = <<>>
  /\ server = "down" => converter = "ended" /\ transaction = <<>>

(* The writer's thread holds a batch only while it writes; Terminate reads *)
(* the file when the thread has ended; a LIVE writer has neither.          *)
WriterEnds ==
  /\ writer # "open" => batch = <<>>
  /\ owner \in {"up", "joining", "closing"} => cached_messages = <<>>
  /\ owner \in {"file", "down"} => writer = "ended"
  /\ owner = "closing" => mode = "LIVE"
  /\ mode = "LIVE" => /\ writer = "ended" /\ owner \in {"up", "closing", "down"}
                      /\ write_queue = <<>> /\ file = <<>> /\ cached_messages = <<>>
  /\ mode = "CACHED" /\ writer = "ended" => writer_terminate
  /\ writer_terminate => owner # "up"

(* What has not been counted as written is not in the file, and a torn     *)
(* record is an excuse.                                                    *)
FileCounts ==
  /\ written_to_disk_count = 0 => Numbers(file) = {}
  /\ ~excused => ~In(Torn, file)

(* There is nonsense on the way to the database, or in it, only when the   *)
(* disk has cut a record off.                                              *)
NoNonsense ==
  cut \/ /\ ~In(Torn, file) /\ ~In(Torn, cached_messages) /\ ~In(Torn, wire)
         /\ ~In(Torn, rx_message_queue) /\ ~In(Torn, converting)
         /\ ~In(Torn, transaction) /\ ~In(Torn, database)

(* The events in each place and in those behind it. *)
From9 == Numbers(write_queue)
From8 == Numbers(batch) \cup From9
From7 == Numbers(OnDisk) \cup From8
From6 == Numbers(cached_messages) \cup From7
From5 == Numbers(wire) \cup From6
From4 == Numbers(rx_message_queue) \cup From5
From3 == Numbers(converting) \cup From4
From2 == Numbers(transaction) \cup From3
From1 == Numbers(database) \cup From2

(* Each place holds its events in order, and older ones than the places    *)
(* behind it.                                                              *)
PlacesInOrder ==
  /\ Increasing(database) /\ Increasing(transaction) /\ Increasing(converting)
  /\ Increasing(rx_message_queue) /\ Increasing(wire) /\ Increasing(cached_messages)
  /\ Increasing(file) /\ Increasing(batch) /\ Increasing(write_queue)

Chain ==
  /\ Below(Numbers(database), From2) /\ Below(Numbers(transaction), From3)
  /\ Below(Numbers(converting), From4) /\ Below(Numbers(rx_message_queue), From5)
  /\ Below(Numbers(wire), From6) /\ Below(Numbers(cached_messages), From7)
  /\ Below(Numbers(OnDisk), From8) /\ Below(Numbers(batch), From9)
  /\ \A n \in From1 : n <= accepted

(* The events among the rows of the log server are in the order in which   *)
(* they were pushed, and no event is there twice: putting events back in front of    *)
(* the queue after a failed open, reading the file back at Terminate and   *)
(* swapping queues between threads never reorder or repeat one.            *)
RowsInOrder ==
  LET rows == database \o transaction
  IN  \A i, j \in 1 .. Len(rows) : i < j /\ rows[i] # Torn /\ rows[j] # Torn => rows[i] < rows[j]

(* Unless there is an excuse, every event that a writer has accepted is in *)
(* one of the nine places: no thread, queue swap or shutdown drops it.     *)
NothingLost == excused \/ 1 .. accepted \subseteq From1

PipelineInv ==
  /\ PipelineTypeOK
  /\ DiskCount
  /\ ServerEnds
  /\ WriterEnds
  /\ FileCounts
  /\ NoNonsense
  /\ PlacesInOrder
  /\ Chain
  /\ NothingLost

-----------------------------------------------------------------------------
(* Facts about numbers and sequences. *)

(* Every set of numbers has a least element. *)
LEMMA Least == \A T \in SUBSET Nat : T # {} => \E x \in T : \A y \in T : x <= y
<1> SUFFICES ASSUME NEW T \in SUBSET Nat, T # {} PROVE \E x \in T : \A y \in T : x <= y
  OBVIOUS
<1> DEFINE less == {ss \in Nat \X Nat : ss[1] < ss[2]}
<1>1. IsWellFoundedOn(less, Nat)
  BY NatLessThanWellFounded DEF OpToRel
<1>2. PICK x \in T : \A y \in T : ~ (<<y, x>> \in less)
  <2> HIDE DEF less
  <2>1. QED
    BY <1>1, WFMin
<1>3. ASSUME NEW y \in T PROVE x <= y
  <2>1. <<y, x>> \in Nat \X Nat /\ <<y, x>>[1] = y /\ <<y, x>>[2] = x
    OBVIOUS
  <2>2. ~ (y < x)
    BY <1>2, <2>1
  <2>3. QED
    BY <2>2
<1>4. QED
  BY <1>3

(* Numbers are not torn, and sequences of events are sequences of records. *)
LEMMA NumbersAreRecords ==
  /\ Number \subseteq Nat /\ Torn \notin Number
  /\ \A s \in Seq(Number) : s \in Seq(Record) /\ ~In(Torn, s)
<1>1. Number \subseteq Nat /\ Torn \notin Number
  BY PipelineAssumption DEF Number
<1>2. ASSUME NEW s \in Seq(Number) PROVE s \in Seq(Record) /\ ~In(Torn, s)
  BY <1>1 DEF Record, In
<1>3. QED
  BY <1>1, <1>2

(* The empty sequence. *)
LEMMA EmptyPlace ==
  /\ <<>> \in Seq(Number) /\ <<>> \in Seq(Record)
  /\ Numbers(<<>>) = {} /\ Increasing(<<>>) /\ ~In(Torn, <<>>)
  BY DEF Numbers, In, Increasing

(* A function on an initial segment of the numbers is a sequence. *)
LEMMA FunctionIsSeq ==
  ASSUME NEW S, NEW n \in Nat, NEW s \in [1 .. n -> S]
  PROVE  s \in Seq(S)
OBVIOUS

(* An event joins the end of a sequence. *)
LEMMA AppendPlace ==
  \A s \in Seq(Record), x \in Record :
    /\ Append(s, x) \in Seq(Record)
    /\ Numbers(Append(s, x)) = Numbers(s) \cup ({x} \cap Number)
    /\ In(Torn, Append(s, x)) => In(Torn, s) \/ x = Torn
    /\ Increasing(s) /\ Below(Numbers(s), {x} \cap Number) => Increasing(Append(s, x))
<1> SUFFICES ASSUME NEW s \in Seq(Record), NEW x \in Record
             PROVE  /\ Append(s, x) \in Seq(Record)
                    /\ Numbers(Append(s, x)) = Numbers(s) \cup ({x} \cap Number)
                    /\ In(Torn, Append(s, x)) => In(Torn, s) \/ x = Torn
                    /\ Increasing(s) /\ Below(Numbers(s), {x} \cap Number)
                         => Increasing(Append(s, x))
  OBVIOUS
<1>1. Append(s, x) \in Seq(Record) /\ Len(Append(s, x)) = Len(s) + 1 /\ Len(s) \in Nat
  OBVIOUS
<1>2. /\ Append(s, x)[Len(s) + 1] = x
      /\ \A i \in 1 .. Len(s) : Append(s, x)[i] = s[i] /\ s[i] \in Record
  OBVIOUS
<1>3. \A y : In(y, Append(s, x)) <=> In(y, s) \/ y = x
  BY <1>1, <1>2 DEF In
<1>4. Numbers(Append(s, x)) = Numbers(s) \cup ({x} \cap Number)
  BY <1>3 DEF Numbers
<1>5. ASSUME Increasing(s), Below(Numbers(s), {x} \cap Number) PROVE Increasing(Append(s, x))
  <2> SUFFICES ASSUME NEW i \in 1 .. Len(s) + 1, NEW j \in 1 .. Len(s) + 1, i < j,
                      Append(s, x)[i] # Torn, Append(s, x)[j] # Torn
               PROVE  Append(s, x)[i] < Append(s, x)[j]
    BY <1>1 DEF Increasing
  <2>1. i \in 1 .. Len(s)
    BY <1>1
  <2>2. CASE j \in 1 .. Len(s)
    BY <1>2, <1>5, <2>1, <2>2 DEF Increasing
  <2>3. CASE j = Len(s) + 1
    <3>1. s[i] \in Numbers(s) /\ x \in Number
      BY <1>2, <2>1, <2>3 DEF Numbers, In, Record
    <3>2. QED
      BY <1>2, <1>5, <2>1, <2>3, <3>1 DEF Below
  <2>4. QED
    BY <1>1, <2>2, <2>3
<1>6. QED
  BY <1>1, <1>3, <1>4, <1>5

(* The head of a sequence leaves it. *)
LEMMA TailPlace ==
  \A s \in Seq(Record) : s # <<>> =>
    /\ Head(s) \in Record /\ Tail(s) \in Seq(Record)
    /\ Numbers(s) = ({Head(s)} \cap Number) \cup Numbers(Tail(s))
    /\ Head(s) = Torn \/ In(Torn, Tail(s)) => In(Torn, s)
    /\ Increasing(s) => Increasing(Tail(s)) /\ Below({Head(s)} \cap Number, Numbers(Tail(s)))
<1> SUFFICES ASSUME NEW s \in Seq(Record), s # <<>>
             PROVE  /\ Head(s) \in Record /\ Tail(s) \in Seq(Record)
                    /\ Numbers(s) = ({Head(s)} \cap Number) \cup Numbers(Tail(s))
                    /\ Head(s) = Torn \/ In(Torn, Tail(s)) => In(Torn, s)
                    /\ Increasing(s) => /\ Increasing(Tail(s))
                                        /\ Below({Head(s)} \cap Number, Numbers(Tail(s)))
  OBVIOUS
<1>1. Head(s) \in Record /\ Tail(s) \in Seq(Record) /\ Len(Tail(s)) = Len(s) - 1
  OBVIOUS
<1>2. Len(s) \in Nat /\ Len(s) >= 1 /\ s[1] = Head(s)
  OBVIOUS
<1>3. \A i \in 1 .. Len(s) - 1 : Tail(s)[i] = s[i + 1]
  OBVIOUS
<1>4. ASSUME NEW c, In(c, s) PROVE c = Head(s) \/ In(c, Tail(s))
  <2>1. PICK i \in 1 .. Len(s) : s[i] = c
    BY <1>4 DEF In
  <2>2. CASE i = 1
    BY <1>2, <2>1, <2>2
  <2>3. CASE i # 1
    <3>1. i - 1 \in 1 .. Len(Tail(s)) /\ Tail(s)[i - 1] = c
      BY <1>1, <1>2, <1>3, <2>1, <2>3
    <3>2. QED
      BY <3>1 DEF In
  <2>4. QED
    BY <2>2, <2>3
<1>5. ASSUME NEW c, c = Head(s) \/ In(c, Tail(s)) PROVE In(c, s)
  BY <1>1, <1>2, <1>3, <1>5 DEF In
<1>6. Numbers(s) = ({Head(s)} \cap Number) \cup Numbers(Tail(s))
  BY <1>4, <1>5 DEF Numbers
<1>7. ASSUME Increasing(s) PROVE Increasing(Tail(s))
  BY <1>1, <1>2, <1>3, <1>7 DEF Increasing
<1>8. ASSUME Increasing(s) PROVE Below({Head(s)} \cap Number, Numbers(Tail(s)))
  <2> SUFFICES ASSUME Head(s) \in Number, NEW n \in Numbers(Tail(s)) PROVE Head(s) < n
    BY DEF Below
  <2>1. PICK i \in 1 .. Len(s) - 1 : s[i + 1] = n
    BY <1>1, <1>3 DEF Numbers, In
  <2>2. Head(s) # Torn /\ n # Torn
    BY NumbersAreRecords DEF Numbers
  <2>3. 1 \in 1 .. Len(s) /\ i + 1 \in 1 .. Len(s) /\ 1 < i + 1
    BY <1>2, <2>1
  <2>4. QED
    BY <1>2, <1>8, <2>1, <2>2, <2>3 DEF Increasing
<1>9. QED
  BY <1>1, <1>5, <1>6, <1>7, <1>8

(* Two sequences are joined. *)
LEMMA ConcatPlace ==
  \A s, t \in Seq(Record) :
    /\ s \o t \in Seq(Record)
    /\ Numbers(s \o t) = Numbers(s) \cup Numbers(t)
    /\ In(Torn, s \o t) => In(Torn, s) \/ In(Torn, t)
    /\ Increasing(s) /\ Increasing(t) /\ Below(Numbers(s), Numbers(t)) => Increasing(s \o t)
<1> SUFFICES ASSUME NEW s \in Seq(Record), NEW t \in Seq(Record)
             PROVE  /\ s \o t \in Seq(Record)
                    /\ Numbers(s \o t) = Numbers(s) \cup Numbers(t)
                    /\ In(Torn, s \o t) => In(Torn, s) \/ In(Torn, t)
                    /\ Increasing(s) /\ Increasing(t) /\ Below(Numbers(s), Numbers(t))
                         => Increasing(s \o t)
  OBVIOUS
<1>1. s \o t \in Seq(Record) /\ Len(s \o t) = Len(s) + Len(t) /\ Len(s) \in Nat /\ Len(t) \in Nat
  OBVIOUS
<1>2. /\ \A i \in 1 .. Len(s) : (s \o t)[i] = s[i] /\ s[i] \in Record
      /\ \A i \in 1 .. Len(t) : (s \o t)[Len(s) + i] = t[i] /\ t[i] \in Record
  OBVIOUS
<1>3. \A i \in 1 .. Len(s) + Len(t) :
        i \in 1 .. Len(s) \/ (i - Len(s) \in 1 .. Len(t) /\ (s \o t)[i] = t[i - Len(s)])
  BY <1>1, <1>2
<1>4. \A y : In(y, s \o t) <=> In(y, s) \/ In(y, t)
  <2>1. ASSUME NEW y, In(y, s \o t) PROVE In(y, s) \/ In(y, t)
    BY <1>1, <1>2, <1>3, <2>1 DEF In
  <2>2. ASSUME NEW y, In(y, s) PROVE In(y, s \o t)
    BY <1>1, <1>2, <2>2 DEF In
  <2>3. ASSUME NEW y, In(y, t) PROVE In(y, s \o t)
    <3>1. PICK i \in 1 .. Len(t) : t[i] = y
      BY <2>3 DEF In
    <3>2. Len(s) + i \in 1 .. Len(s \o t) /\ (s \o t)[Len(s) + i] = y
      BY <1>1, <1>2, <3>1
    <3>3. QED
      BY <3>2 DEF In
  <2>4. QED
    BY <2>1, <2>2, <2>3
<1>5. Numbers(s \o t) = Numbers(s) \cup Numbers(t)
  BY <1>4 DEF Numbers
<1>6. ASSUME Increasing(s), Increasing(t), Below(Numbers(s), Numbers(t)) PROVE Increasing(s \o t)
  <2> SUFFICES ASSUME NEW i \in 1 .. Len(s) + Len(t), NEW j \in 1 .. Len(s) + Len(t), i < j,
                      (s \o t)[i] # Torn, (s \o t)[j] # Torn
               PROVE  (s \o t)[i] < (s \o t)[j]
    BY <1>1 DEF Increasing
  <2>1. CASE i \in 1 .. Len(s) /\ j \in 1 .. Len(s)
    BY <1>2, <1>6, <2>1 DEF Increasing
  <2>2. CASE i \in 1 .. Len(s) /\ j \notin 1 .. Len(s)
    <3>1. (s \o t)[i] \in Numbers(s)
      BY <1>2, <2>2 DEF Numbers, In, Record
    <3>2. (s \o t)[j] \in Numbers(t)
      BY <1>2, <1>3, <2>2 DEF Numbers, In, Record
    <3>3. QED
      BY <1>6, <3>1, <3>2 DEF Below
  <2>3. CASE i \notin 1 .. Len(s)
    <3>1. j \notin 1 .. Len(s)
      BY <1>1, <2>3
    <3>2. /\ i - Len(s) \in 1 .. Len(t) /\ (s \o t)[i] = t[i - Len(s)]
          /\ j - Len(s) \in 1 .. Len(t) /\ (s \o t)[j] = t[j - Len(s)]
          /\ i - Len(s) < j - Len(s)
      BY <1>1, <1>3, <2>3, <3>1
    <3>3. QED
      BY <1>6, <3>2 DEF Increasing
  <2>4. QED
    BY <2>1, <2>2, <2>3
<1>7. QED
  BY <1>1, <1>4, <1>5, <1>6

(* The beginning of a sequence. *)
LEMMA PrefixPlace ==
  \A s \in Seq(Record) : \A k \in 0 .. Len(s) :
    /\ SubSeq(s, 1, k) \in Seq(Record)
    /\ Len(SubSeq(s, 1, k)) = k
    /\ Numbers(SubSeq(s, 1, k)) \subseteq Numbers(s)
    /\ k = Len(s) => SubSeq(s, 1, k) = s
    /\ k = 0 => Numbers(SubSeq(s, 1, k)) = {}
    /\ In(Torn, SubSeq(s, 1, k)) => In(Torn, s)
    /\ Increasing(s) => Increasing(SubSeq(s, 1, k))
<1> SUFFICES ASSUME NEW s \in Seq(Record), NEW k \in 0 .. Len(s)
             PROVE  /\ SubSeq(s, 1, k) \in Seq(Record)
                    /\ Len(SubSeq(s, 1, k)) = k
                    /\ Numbers(SubSeq(s, 1, k)) \subseteq Numbers(s)
                    /\ k = Len(s) => SubSeq(s, 1, k) = s
                    /\ k = 0 => Numbers(SubSeq(s, 1, k)) = {}
                    /\ In(Torn, SubSeq(s, 1, k)) => In(Torn, s)
                    /\ Increasing(s) => Increasing(SubSeq(s, 1, k))
  OBVIOUS
<1>1. SubSeq(s, 1, k) \in Seq(Record) /\ Len(SubSeq(s, 1, k)) = k
  OBVIOUS
<1>2. \A i \in 1 .. k : SubSeq(s, 1, k)[i] = s[i] /\ i \in 1 .. Len(s)
  OBVIOUS
<1>3. \A y : In(y, SubSeq(s, 1, k)) => In(y, s) /\ k # 0
  BY <1>1, <1>2 DEF In
<1>4. k = Len(s) => SubSeq(s, 1, k) = s
  OBVIOUS
<1>5. ASSUME Increasing(s) PROVE Increasing(SubSeq(s, 1, k))
  BY <1>1, <1>2, <1>5 DEF Increasing
<1>6. QED
  BY <1>1, <1>3, <1>4, <1>5 DEF Numbers

(* ReadMessagesFromFile returns a beginning of the file, all of it when no *)
(* record is torn.                                                         *)
LEMMA WholeRecordsIsPrefix ==
  ASSUME file \in Seq(Record)
  PROVE  \E k \in 0 .. Len(file) :
           /\ WholeRecords = SubSeq(file, 1, k)
           /\ ~In(Torn, file) => k = Len(file)
<1> DEFINE torn == {i \in 1 .. Len(file) : file[i] = Torn}
<1>1. torn = {} <=> ~In(Torn, file)
  BY DEF In
<1>2. CASE torn = {}
  <2>1. WholeRecords = SubSeq(file, 1, Len(file))
    BY <1>2, PrefixPlace DEF WholeRecords
  <2>2. QED
    BY <2>1
<1>3. CASE torn # {}
  <2> DEFINE first == CHOOSE i \in torn : \A j \in torn : i <= j
  <2>1. torn \in SUBSET Nat
    OBVIOUS
  <2>2. first \in torn
    <3> HIDE DEF torn
    <3>1. \E i \in torn : \A j \in torn : i <= j
      BY <1>3, <2>1, Least
    <3>2. QED
      BY <3>1
  <2>3. WholeRecords = SubSeq(file, 1, first - 1)
    BY <1>3 DEF WholeRecords
  <2>4. first - 1 \in 0 .. Len(file)
    <3> HIDE DEF first
    <3>1. QED
      BY <2>2
  <2>5. QED
    BY <1>1, <1>3, <2>3, <2>4
<1>4. QED
  BY <1>2, <1>3

(* What ReadMessagesFromFile returns adds nothing to the events of that    *)
(* beginning, and it is the file where no record is torn.                  *)
LEMMA FileRecordsFacts ==
  ASSUME file \in Seq(Record), NEW s \in FileRecords
  PROVE  /\ s \in Seq(Record)
         /\ Numbers(s) \subseteq Numbers(file)
         /\ Increasing(file) => Increasing(s)
         /\ ~In(Torn, file) => s = file
<1>1. PICK k \in 0 .. Len(file) :
        WholeRecords = SubSeq(file, 1, k) /\ (~In(Torn, file) => k = Len(file))
  BY WholeRecordsIsPrefix
<1>2. /\ WholeRecords \in Seq(Record) /\ Len(WholeRecords) = k
      /\ Numbers(WholeRecords) \subseteq Numbers(file)
      /\ Increasing(file) => Increasing(WholeRecords)
      /\ ~In(Torn, file) => WholeRecords = file
  BY <1>1, PrefixPlace
<1>3. PICK n \in 0 .. Len(file) - Len(WholeRecords) : s = WholeRecords \o [i \in 1 .. n |-> Torn]
  BY DEF FileRecords
<1> DEFINE t == [i \in 1 .. n |-> Torn]
<1>4. n \in Nat /\ (~In(Torn, file) => n = 0)
  BY <1>1, <1>2, <1>3
<1>5. t \in Seq(Record) /\ Len(t) = n
  <2>1. t \in [1 .. n -> Record]
    BY DEF Record
  <2>2. QED
    BY <1>4, <2>1
<1>6. Numbers(t) = {} /\ Increasing(t)
  BY <1>5, NumbersAreRecords DEF Numbers, In, Increasing
<1>7. n = 0 => t = <<>>
  OBVIOUS
<1>8. s = WholeRecords \o t
  BY <1>3
<1> HIDE DEF t
<1>9. /\ WholeRecords \o t \in Seq(Record)
      /\ Numbers(WholeRecords \o t) = Numbers(WholeRecords)
      /\ Increasing(WholeRecords) => Increasing(WholeRecords \o t)
  <2>1. Below(Numbers(WholeRecords), Numbers(t))
    BY <1>6 DEF Below
  <2>2. Numbers(WholeRecords \o t) = Numbers(WholeRecords) \cup Numbers(t)
    BY <1>2, <1>5, ConcatPlace
  <2>3. QED
    BY <1>2, <1>5, <1>6, <2>1, <2>2, ConcatPlace
<1>10. n = 0 => WholeRecords \o t = WholeRecords
  BY <1>2, <1>7
<1>11. QED
  BY <1>2, <1>4, <1>8, <1>9, <1>10

-----------------------------------------------------------------------------
(* Every part of PipelineInv is preserved by every step. *)

WriterStep == PushCached \/ PushLive \/ BeginTerminate \/ WriterThread \/ OwnerThread

ServerStep == Connect \/ BeginShutdown \/ ReceiverThread \/ ConverterThread \/ ServerThread

(* A step is one of the measured process, the log server, or none. *)
LEMMA NextCases == [Next]_vars => WriterStep \/ ServerStep \/ UNCHANGED vars
  BY DEF Next, WriterStep, ServerStep

(* The measured process leaves the log server alone. *)
LEMMA WriterFrame == WriterStep => UNCHANGED <<receiverVars, rowVars, subscribed>>
  BY DEF WriterStep, WriterThread, OwnerThread, PushCached, PushLive, BeginTerminate, WriterCheck,
         OpenFails, WriteBatch, ReadBack, SendCached, SendQueued, CloseWriter, Publish, netVars

(* The log server leaves the measured process alone. *)
LEMMA ServerFrame == ServerStep => UNCHANGED writerVars
  BY DEF ServerStep, ReceiverThread, ConverterThread, ServerThread, Connect, BeginShutdown,
         HandleCommand, ReceiveMessage, ConverterCheck, ProcessMessage, ConverterNext,
         JoinReceiver, CloseDatabase

(* Publishing adds a record to the wire or is an excuse. *)
LEMMA PublishTypes ==
  ASSUME PipelineTypeOK, NEW m \in Record, Publish(m)
  PROVE  wire' \in Seq(Record) /\ excused' \in BOOLEAN /\ subscribed' \in BOOLEAN
<1>1. wire' \in Seq(Record)
  BY AppendPlace DEF PipelineTypeOK, Publish
<1>2. QED
  BY <1>1 DEF PipelineTypeOK, Publish

(* The variables of the measured process keep their types. *)
LEMMA WriterTypes == PipelineInv /\ WriterStep => PipelineTypeOK'
<1> SUFFICES ASSUME PipelineInv, WriterStep PROVE PipelineTypeOK'
  OBVIOUS
<1>0. PipelineTypeOK
  BY DEF PipelineInv
<1>f. UNCHANGED <<receiverVars, rowVars, subscribed>>
  BY WriterFrame
<1> USE DEF PipelineTypeOK, receiverVars, rowVars, netVars
<1>1. CASE PushCached
  <2>1. accepted' \in 0 .. MaxMessages /\ accepted' \in Number
    <3>1. accepted \in 0 .. MaxMessages /\ accepted < MaxMessages /\ accepted' = accepted + 1
      BY <1>0, <1>1 DEF PushCached
    <3>2. QED
      BY <3>1, PipelineAssumption DEF Number
  <2>2. write_queue' \in Seq(Number)
    BY <1>0, <1>1, <2>1 DEF PushCached
  <2>3. writer' \in {"check", "waiting", "open", "ended"}
    BY <1>0, <1>1 DEF PushCached, Notified
  <2>4. QED
    BY <1>0, <1>1, <1>f, <2>1, <2>2, <2>3 DEF PushCached
<1>2. CASE PushLive
  <2>1. accepted' \in 0 .. MaxMessages /\ accepted' \in Record
    <3>1. accepted \in 0 .. MaxMessages /\ accepted < MaxMessages /\ accepted' = accepted + 1
      BY <1>0, <1>2 DEF PushLive
    <3>2. QED
      BY <3>1, PipelineAssumption DEF Number, Record
  <2>2. wire' \in Seq(Record) /\ excused' \in BOOLEAN
    BY <1>0, <1>2, <2>1, PublishTypes DEF PushLive
  <2>3. QED
    BY <1>0, <1>2, <1>f, <2>1, <2>2 DEF PushLive
<1>3. CASE BeginTerminate
  <2>1. /\ writer' \in {"check", "waiting", "open", "ended"}
        /\ owner' \in {"up", "joining", "file", "closing", "down"}
    BY <1>0, <1>3 DEF BeginTerminate, Notified
  <2>2. writer_terminate' \in BOOLEAN
    BY <1>0, <1>3 DEF BeginTerminate
  <2>3. QED
    BY <1>0, <1>3, <1>f, <2>1, <2>2 DEF BeginTerminate
<1>4. CASE WriterCheck
  <2>1. writer' \in {"check", "waiting", "open", "ended"}
    BY <1>4 DEF WriterCheck
  <2>2. write_queue' \in Seq(Number) /\ batch' \in Seq(Number)
    BY <1>0, <1>4, EmptyPlace DEF WriterCheck
  <2>3. QED
    BY <1>0, <1>4, <1>f, <2>1, <2>2 DEF WriterCheck
<1>5. CASE OpenFails
  BY <1>0, <1>5, <1>f, EmptyPlace DEF OpenFails, PutBack
<1>6. CASE WriteBatch
  <2>1. PICK whole \in 0 .. Len(batch) : \E counted \in whole .. Len(batch) :
          /\ \/ file' = file \o SubSeq(batch, 1, whole) /\ UNCHANGED cut
             \/ /\ whole < Len(batch)
                /\ file' = file \o SubSeq(batch, 1, whole) \o <<Torn>>
                /\ cut' = TRUE
          /\ written_to_disk_count' = written_to_disk_count + counted
          /\ excused' = (excused \/ whole < Len(batch))
    BY <1>6 DEF WriteBatch, OnFile
  <2>2. whole .. Len(batch) \subseteq Nat
    BY <1>0
  <2>3. written_to_disk_count' \in Nat
    BY <1>0, <2>1, <2>2
  <2>4. file \o SubSeq(batch, 1, whole) \in Seq(Record)
    BY <1>0, PrefixPlace, ConcatPlace, NumbersAreRecords
  <2>5. <<Torn>> \in Seq(Record)
    BY DEF Record
  <2>6. file' \in Seq(Record)
    BY <2>1, <2>4, <2>5, ConcatPlace
  <2>7. excused' \in BOOLEAN /\ cut' \in BOOLEAN
    BY <1>0, <2>1
  <2>8. QED
    BY <1>0, <1>6, <1>f, <2>3, <2>6, <2>7, EmptyPlace DEF WriteBatch
<1>7. CASE ReadBack
  <2>1. \A m \in FileRecords : m \in Seq(Record)
    BY <1>0, FileRecordsFacts
  <2>4. cached_messages' \in Seq(Record)
    BY <1>0, <1>7, <2>1, EmptyPlace DEF ReadBack
  <2>5. excused' \in BOOLEAN
    BY <1>0, <1>7 DEF ReadBack
  <2>6. QED
    BY <1>0, <1>7, <1>f, <2>4, <2>5 DEF ReadBack
<1>8. CASE SendCached
  <2>1. Head(cached_messages) \in Record /\ cached_messages' \in Seq(Record)
    BY <1>0, <1>8, TailPlace DEF SendCached
  <2>2. wire' \in Seq(Record) /\ excused' \in BOOLEAN
    BY <1>0, <1>8, <2>1, PublishTypes DEF SendCached
  <2>3. QED
    BY <1>0, <1>8, <1>f, <2>1, <2>2 DEF SendCached
<1>9. CASE SendQueued
  <2>1. Head(write_queue) \in Record /\ write_queue' \in Seq(Number)
    BY <1>0, <1>9 DEF SendQueued, Record
  <2>2. wire' \in Seq(Record) /\ excused' \in BOOLEAN
    BY <1>0, <1>9, <2>1, PublishTypes DEF SendQueued
  <2>3. QED
    BY <1>0, <1>9, <1>f, <2>1, <2>2 DEF SendQueued
<1>10. CASE CloseWriter
  BY <1>0, <1>10, <1>f, EmptyPlace DEF CloseWriter
<1>11. QED
  BY <1>1, <1>2, <1>3, <1>4, <1>5, <1>6, <1>7, <1>8, <1>9, <1>10
     DEF WriterStep, WriterThread, OwnerThread

(* The variables of the log server keep their types. *)
LEMMA ServerTypes == PipelineInv /\ ServerStep => PipelineTypeOK'
<1> SUFFICES ASSUME PipelineInv, ServerStep PROVE PipelineTypeOK'
  OBVIOUS
<1>0. PipelineTypeOK
  BY DEF PipelineInv
<1>f. UNCHANGED writerVars
  BY ServerFrame
<1> USE DEF PipelineTypeOK, writerVars, rowVars, netVars
<1>1. CASE Connect \/ BeginShutdown
  BY <1>0, <1>1, <1>f DEF Connect, BeginShutdown
<1>2. CASE HandleCommand
  <2>1. wire' \in Seq(Record)
    BY <1>0, <1>2, EmptyPlace DEF HandleCommand, EndReceiver
  <2>2. excused' \in BOOLEAN /\ subscribed' \in BOOLEAN
    BY <1>0, <1>2 DEF HandleCommand, EndReceiver
  <2>3. QED
    BY <1>0, <1>2, <1>f, <2>1, <2>2 DEF HandleCommand, EndReceiver
<1>3. CASE ReceiveMessage
  <2>1. Head(wire) \in Record /\ Tail(wire) \in Seq(Record)
    BY <1>0, <1>3, TailPlace DEF ReceiveMessage
  <2>2. rx_message_queue' \in Seq(Record)
    BY <1>0, <1>3, <2>1, AppendPlace DEF ReceiveMessage
  <2>3. wire' \in Seq(Record)
    BY <1>0, <1>3, <2>1, EmptyPlace DEF ReceiveMessage, EndReceiver
  <2>4. excused' \in BOOLEAN /\ subscribed' \in BOOLEAN
    BY <1>0, <1>3 DEF ReceiveMessage, EndReceiver
  <2>5. QED
    BY <1>0, <1>3, <1>f, <2>2, <2>3, <2>4 DEF ReceiveMessage, EndReceiver, Notified
<1>4. CASE ConverterCheck
  <2>1. converter' \in {"check", "waiting", "process", "finish", "ended"}
    BY <1>4 DEF ConverterCheck
  <2>2. rx_message_queue' \in Seq(Record) /\ converting' \in Seq(Record)
    BY <1>0, <1>4, EmptyPlace DEF ConverterCheck
  <2>3. QED
    BY <1>0, <1>4, <1>f, <2>1, <2>2 DEF ConverterCheck
<1>5. CASE ProcessMessage
  <2>1. Head(converting) \in Record /\ converting' \in Seq(Record)
    BY <1>0, <1>5, TailPlace DEF ProcessMessage
  <2>2. CASE ExecuteSqlStatement(Head(converting))
    <3>1. database' \in Seq(Record) /\ transaction' \in Seq(Record)
      <4>1. database \in Seq(Record) /\ transaction \in Seq(Record)
        BY <1>0
      <4>2. /\ database \o transaction \o <<Head(converting)>> \in Seq(Record)
            /\ Append(transaction, Head(converting)) \in Seq(Record)
        BY <2>1, <4>1
      <4>3. QED
        BY <2>2, <4>1, <4>2, EmptyPlace DEF ExecuteSqlStatement
    <3>2. QED
      BY <1>0, <1>5, <1>f, <2>1, <3>1 DEF ProcessMessage
  <2>3. CASE UNCHANGED rowVars
    BY <1>0, <1>5, <1>f, <2>1, <2>3 DEF ProcessMessage
  <2>4. QED
    BY <1>5, <2>2, <2>3 DEF ProcessMessage
<1>6. CASE ConverterNext
  BY <1>0, <1>6, <1>f DEF ConverterNext
<1>7. CASE JoinReceiver
  BY <1>0, <1>7, <1>f DEF JoinReceiver, Notified
<1>8. CASE CloseDatabase
  BY <1>0, <1>8, <1>f, EmptyPlace, ConcatPlace DEF CloseDatabase
<1>9. QED
  BY <1>1, <1>2, <1>3, <1>4, <1>5, <1>6, <1>7, <1>8
     DEF ServerStep, ReceiverThread, ConverterThread, ServerThread

(* Types are kept. *)
LEMMA TypeStep == PipelineInv /\ [Next]_vars => PipelineTypeOK'
<1>1. PipelineInv /\ UNCHANGED vars => PipelineTypeOK'
  BY DEF PipelineInv, PipelineTypeOK, vars, writerVars, netVars, receiverVars, rowVars
<1>2. QED
  BY <1>1, WriterTypes, ServerTypes, NextCases

(* WriteBatch appends a part of the batch to the file, in order; it is all *)
(* of the batch unless the disk failed.                                    *)
LEMMA WriteBatchEffect ==
  ASSUME PipelineTypeOK, WriteBatch
  PROVE  \E A \in SUBSET Numbers(batch) :
           /\ Numbers(file') = Numbers(file) \cup A
           /\ written_to_disk_count' = 0 => written_to_disk_count = 0 /\ A = {}
           /\ written_to_disk_count' <= written_to_disk_count + Len(batch)
           /\ excused => excused'
           /\ excused' \/ A = Numbers(batch)
           /\ (excused' /\ cut') \/ (cut' = cut /\ (In(Torn, file') => In(Torn, file)))
           /\ Increasing(file) /\ Increasing(batch) /\ Below(Numbers(file), Numbers(batch))
                => Increasing(file')
<1>0. batch \in Seq(Record) /\ ~In(Torn, batch) /\ file \in Seq(Record)
  BY NumbersAreRecords DEF PipelineTypeOK
<1>1. PICK whole \in 0 .. Len(batch) : \E counted \in whole .. Len(batch) :
        /\ \/ file' = file \o SubSeq(batch, 1, whole) /\ UNCHANGED cut
           \/ /\ whole < Len(batch)
              /\ file' = file \o SubSeq(batch, 1, whole) \o <<Torn>>
              /\ cut' = TRUE
        /\ written_to_disk_count' = written_to_disk_count + counted
        /\ excused' = (excused \/ whole < Len(batch))
  BY DEF WriteBatch, OnFile
<1>2. PICK counted \in whole .. Len(batch) :
        written_to_disk_count' = written_to_disk_count + counted
  BY <1>1
<1> DEFINE part == SubSeq(batch, 1, whole)
           A == Numbers(part)
<1>3. /\ part \in Seq(Record) /\ A \subseteq Numbers(batch) /\ ~In(Torn, part)
      /\ whole = Len(batch) => part = batch
      /\ whole = 0 => A = {}
      /\ Increasing(batch) => Increasing(part)
  BY <1>0, PrefixPlace
<1>4. /\ written_to_disk_count' = 0 => written_to_disk_count = 0 /\ whole = 0
      /\ written_to_disk_count' <= written_to_disk_count + Len(batch)
  <2>1. written_to_disk_count \in Nat /\ whole \in Nat /\ counted \in Nat /\ Len(batch) \in Nat
        /\ whole <= counted /\ counted <= Len(batch)
    BY <1>0 DEF PipelineTypeOK
  <2>2. QED
    BY <1>2, <2>1
<1>5. (excused => excused') /\ (excused' \/ whole = Len(batch))
  <2>1. whole < Len(batch) \/ whole = Len(batch)
    BY <1>0
  <2>2. QED
    BY <1>1, <2>1
<1> HIDE DEF part
<1>6. /\ file \o part \in Seq(Record)
      /\ Numbers(file \o part) = Numbers(file) \cup A
      /\ In(Torn, file \o part) => In(Torn, file)
      /\ Increasing(file) /\ Increasing(batch) /\ Below(Numbers(file), Numbers(batch))
           => Increasing(file \o part)
  <2>1. Below(Numbers(file), Numbers(batch)) => Below(Numbers(file), A)
    BY <1>3 DEF Below
  <2>2. QED
    BY <1>0, <1>3, <2>1, ConcatPlace
<1>7. /\ <<Torn>> \in Seq(Record) /\ Numbers(<<Torn>>) = {} /\ Increasing(<<Torn>>)
  <2>1. Torn \in Record /\ {Torn} \cap Number = {}
    BY NumbersAreRecords DEF Record
  <2>2. <<Torn>> = Append(<<>>, Torn)
    OBVIOUS
  <2>3. QED
    BY <2>1, <2>2, EmptyPlace, AppendPlace DEF Below
<1>8. /\ Numbers(file \o part \o <<Torn>>) = Numbers(file) \cup A
      /\ Increasing(file \o part) => Increasing(file \o part \o <<Torn>>)
  BY <1>6, <1>7, ConcatPlace DEF Below
<1>9. /\ Numbers(file') = Numbers(file) \cup A
      /\ Increasing(file) /\ Increasing(batch) /\ Below(Numbers(file), Numbers(batch))
           => Increasing(file')
  BY <1>1, <1>6, <1>8 DEF part
<1>10. (excused' /\ cut') \/ (cut' = cut /\ (In(Torn, file') => In(Torn, file)))
  BY <1>1, <1>6 DEF part
<1>11. excused' \/ A = Numbers(batch)
  BY <1>3, <1>5
<1>12. QED
  BY <1>3, <1>4, <1>5, <1>9, <1>10, <1>11

(* The count of records on disk never runs ahead of the events accepted. *)
LEMMA DiskCountStep == PipelineInv /\ [Next]_vars => DiskCount'
<1> SUFFICES ASSUME PipelineInv, [Next]_vars PROVE DiskCount'
  OBVIOUS
<1>0. PipelineTypeOK /\ DiskCount
  BY DEF PipelineInv
<1>t. /\ written_to_disk_count \in Nat /\ Len(batch) \in Nat /\ Len(write_queue) \in Nat
      /\ accepted \in Nat
  BY <1>0, PipelineAssumption DEF PipelineTypeOK
<1> USE DEF DiskCount, writerVars
<1>1. CASE UNCHANGED <<written_to_disk_count, batch, write_queue, accepted>>
  BY <1>0, <1>1
<1>2. CASE PushCached
  <2>1. Len(write_queue') = Len(write_queue) + 1
    BY <1>0, <1>2 DEF PushCached, PipelineTypeOK
  <2>2. QED
    BY <1>0, <1>t, <1>2, <2>1 DEF PushCached
<1>3. CASE PushLive
  BY <1>0, <1>t, <1>3 DEF PushLive
<1>4. CASE WriterCheck
  <2>1. Len(batch') + Len(write_queue') <= Len(batch) + Len(write_queue)
    BY <1>0, <1>t, <1>4 DEF WriterCheck, PipelineTypeOK
  <2>2. Len(batch') \in Nat /\ Len(write_queue') \in Nat
    BY TypeStep DEF PipelineTypeOK
  <2>3. QED
    BY <1>0, <1>t, <1>4, <2>1, <2>2 DEF WriterCheck
<1>5. CASE OpenFails
  <2>1. Len(write_queue') = Len(batch) + Len(write_queue) /\ Len(batch') = 0
    BY <1>0, <1>5 DEF OpenFails, PutBack, PipelineTypeOK
  <2>2. QED
    BY <1>0, <1>t, <1>5, <2>1 DEF OpenFails
<1>6. CASE WriteBatch
  <2>1. written_to_disk_count' <= written_to_disk_count + Len(batch)
    BY <1>0, <1>6, WriteBatchEffect
  <2>2. written_to_disk_count' \in Nat /\ Len(batch') = 0
    BY <1>6, TypeStep DEF PipelineTypeOK, WriteBatch
  <2>3. QED
    BY <1>0, <1>t, <1>6, <2>1, <2>2 DEF WriteBatch
<1>7. CASE SendQueued
  <2>1. Len(write_queue') = Len(write_queue) - 1
    BY <1>0, <1>7 DEF SendQueued, PipelineTypeOK
  <2>2. QED
    BY <1>0, <1>t, <1>7, <2>1 DEF SendQueued
<1>8. CASE BeginTerminate \/ ReadBack \/ SendCached \/ CloseWriter
  BY <1>1, <1>8 DEF BeginTerminate, ReadBack, SendCached, CloseWriter
<1>9. QED
  BY <1>1, <1>2, <1>3, <1>4, <1>5, <1>6, <1>7, <1>8, NextCases, ServerFrame
     DEF WriterStep, WriterThread, OwnerThread, vars

(* ~ProtoReceiver and ~Server take the threads down one by one. *)
LEMMA ServerEndsStep == PipelineInv /\ [Next]_vars => ServerEnds'
<1> SUFFICES ASSUME PipelineInv, [Next]_vars PROVE ServerEnds'
  OBVIOUS
<1>0. PipelineTypeOK /\ ServerEnds
  BY DEF PipelineInv
<1> USE DEF ServerEnds, receiverVars, rowVars
<1>1. CASE UNCHANGED <<receiverVars, transaction>>
  BY <1>0, <1>1
<1>2. CASE Connect \/ BeginShutdown \/ HandleCommand
  BY <1>0, <1>2 DEF Connect, BeginShutdown, HandleCommand, EndReceiver
<1>3. CASE ReceiveMessage
  <2>1. ~terminate_proto_converter /\ converter \notin {"finish", "ended"}
    BY <1>0, <1>3 DEF ReceiveMessage
  <2>2. converter' = converter \/ (converter = "waiting" /\ converter' = "check")
    BY <1>3 DEF ReceiveMessage, Notified
  <2>3. UNCHANGED <<converting, terminate_proto_converter, server, transaction>>
    BY <1>3 DEF ReceiveMessage
  <2>4. QED
    BY <1>0, <2>1, <2>2, <2>3
<1>4. CASE ConverterCheck
  BY <1>0, <1>4 DEF ConverterCheck, ConverterReady
<1>5. CASE ProcessMessage
  BY <1>0, <1>5 DEF ProcessMessage
<1>6. CASE ConverterNext
  BY <1>0, <1>6 DEF ConverterNext
<1>7. CASE JoinReceiver
  <2>1. converter \notin {"finish", "ended"}
    BY <1>0, <1>7 DEF JoinReceiver
  <2>2. converter' = converter \/ (converter = "waiting" /\ converter' = "check")
    BY <1>7 DEF JoinReceiver, Notified
  <2>3. QED
    BY <1>0, <1>7, <2>1, <2>2 DEF JoinReceiver
<1>8. CASE CloseDatabase
  BY <1>0, <1>8 DEF CloseDatabase
<1>9. QED
  BY <1>1, <1>2, <1>3, <1>4, <1>5, <1>6, <1>7, <1>8, NextCases, WriterFrame
     DEF ServerStep, ReceiverThread, ConverterThread, ServerThread, vars

(* Terminate of a writer waits for its thread before it reads the file. *)
LEMMA WriterEndsStep == PipelineInv /\ [Next]_vars => WriterEnds'
<1> SUFFICES ASSUME PipelineInv, [Next]_vars PROVE WriterEnds'
  OBVIOUS
<1>0. PipelineTypeOK /\ WriterEnds
  BY DEF PipelineInv
<1> USE DEF WriterEnds, writerVars
<1>1. CASE UNCHANGED writerVars
  BY <1>0, <1>1
<1>2. CASE PushCached
  BY <1>0, <1>2 DEF PushCached, Notified
<1>3. CASE PushLive
  BY <1>0, <1>3 DEF PushLive
<1>4. CASE BeginTerminate
  BY <1>0, <1>4 DEF BeginTerminate, Notified, PipelineTypeOK
<1>5. CASE WriterCheck
  BY <1>0, <1>5 DEF WriterCheck, WriterMayEnd
<1>6. CASE OpenFails \/ WriteBatch
  BY <1>0, <1>6 DEF OpenFails, WriteBatch
<1>7. CASE ReadBack
  BY <1>0, <1>7 DEF ReadBack
<1>8. CASE SendCached \/ SendQueued
  BY <1>0, <1>8 DEF SendCached, SendQueued
<1>9. CASE CloseWriter
  BY <1>0, <1>9 DEF CloseWriter
<1>10. QED
  BY <1>1, <1>2, <1>3, <1>4, <1>5, <1>6, <1>7, <1>8, <1>9, NextCases, ServerFrame
     DEF WriterStep, WriterThread, OwnerThread, vars

(* Nothing is put into the file that is not counted, unless it is torn. *)
LEMMA FileCountsStep == PipelineInv /\ [Next]_vars => FileCounts'
<1> SUFFICES ASSUME PipelineInv, [Next]_vars PROVE FileCounts'
  OBVIOUS
<1>0. PipelineTypeOK /\ FileCounts
  BY DEF PipelineInv
<1> USE DEF FileCounts, writerVars
<1>1. CASE UNCHANGED <<file, written_to_disk_count>> /\ (excused => excused')
  BY <1>0, <1>1
<1>2. CASE WriteBatch
  BY <1>0, <1>2, WriteBatchEffect
<1>3. CASE CloseWriter
  BY <1>3, EmptyPlace DEF CloseWriter
<1>4. CASE \/ PushCached \/ PushLive \/ BeginTerminate \/ WriterCheck \/ OpenFails
           \/ ReadBack \/ SendCached \/ SendQueued
  <2>1. UNCHANGED <<file, written_to_disk_count>>
    BY <1>4 DEF PushCached, PushLive, BeginTerminate, WriterCheck, OpenFails, ReadBack, SendCached,
       SendQueued
  <2>2. excused => excused'
    BY <1>4 DEF PushCached, PushLive, BeginTerminate, WriterCheck, OpenFails, ReadBack, SendCached,
       SendQueued, Publish
  <2>3. QED
    BY <1>1, <2>1, <2>2
<1>5. CASE ServerStep
  <2>1. excused => excused'
    BY <1>5 DEF ServerStep, ReceiverThread, ConverterThread, ServerThread, Connect, BeginShutdown,
       HandleCommand, ReceiveMessage, ConverterCheck, ProcessMessage, ConverterNext, JoinReceiver,
       CloseDatabase, EndReceiver
  <2>2. QED
    BY <1>1, <1>5, <2>1, ServerFrame
<1>6. QED
  BY <1>1, <1>2, <1>3, <1>4, <1>5, NextCases DEF WriterStep, WriterThread, OwnerThread, vars

(* Nonsense comes from the file and only travels with it. *)
LEMMA NoNonsenseStep == PipelineInv /\ [Next]_vars => NoNonsense'
<1> SUFFICES ASSUME PipelineInv, [Next]_vars, cut' # TRUE PROVE NoNonsense'
  <2>1. CASE cut' = TRUE
    BY <2>1 DEF NoNonsense
  <2>2. QED
    BY <2>1
<1>0. PipelineTypeOK /\ NoNonsense /\ cut' \in BOOLEAN
  BY TypeStep DEF PipelineInv, PipelineTypeOK
<1>1. CASE WriteBatch
  <2>1. cut' = cut /\ (In(Torn, file') => In(Torn, file))
    BY <1>0, <1>1, WriteBatchEffect
  <2>2. QED
    BY <1>0, <1>1, <2>1 DEF NoNonsense, WriteBatch, netVars, receiverVars, rowVars
<1>2. ASSUME ~WriteBatch PROVE ~cut /\ UNCHANGED cut
  BY <1>0, <1>2, NextCases, ServerFrame
     DEF PipelineTypeOK, writerVars, vars, WriterStep, WriterThread, OwnerThread, PushCached,
         PushLive, BeginTerminate, WriterCheck, OpenFails, ReadBack, SendCached, SendQueued,
         CloseWriter
<1> DEFINE Clean == /\ ~In(Torn, file) /\ ~In(Torn, cached_messages) /\ ~In(Torn, wire)
                    /\ ~In(Torn, rx_message_queue) /\ ~In(Torn, converting)
                    /\ ~In(Torn, transaction) /\ ~In(Torn, database)
<1>3. ASSUME ~WriteBatch PROVE Clean
  BY <1>0, <1>2, <1>3 DEF NoNonsense
<1> SUFFICES ASSUME ~WriteBatch PROVE Clean'
  BY <1>1 DEF NoNonsense
<1>4. Clean
  BY <1>3
<1>5. ASSUME NEW m \in Record, m # Torn, Publish(m) PROVE ~In(Torn, wire')
  BY <1>0, <1>4, <1>5, AppendPlace DEF Publish, PipelineTypeOK
<1>6. CASE UNCHANGED <<file, cached_messages, wire, rx_message_queue, converting, transaction, database>>
  BY <1>4, <1>6
<1>7. CASE PushCached \/ BeginTerminate \/ WriterCheck \/ OpenFails
  BY <1>6, <1>7 DEF PushCached, BeginTerminate, WriterCheck, OpenFails, netVars, receiverVars, rowVars
<1>8. CASE PushLive
  <2>1. accepted' \in Record /\ accepted' # Torn
    <3>1. accepted \in 0 .. MaxMessages /\ accepted < MaxMessages /\ accepted' = accepted + 1
      BY <1>0, <1>8 DEF PushLive, PipelineTypeOK
    <3>2. QED
      BY <3>1, PipelineAssumption DEF Number, Record
  <2>2. ~In(Torn, wire')
    BY <1>5, <1>8, <2>1 DEF PushLive
  <2>3. QED
    BY <1>4, <1>8, <2>2 DEF PushLive, receiverVars, rowVars
<1>9. CASE ReadBack
  <2>1. \A m \in FileRecords : m = file
    BY <1>0, <1>4, FileRecordsFacts DEF PipelineTypeOK
  <2>2. ~In(Torn, cached_messages')
    BY <1>4, <1>9, <2>1, EmptyPlace DEF ReadBack
  <2>3. QED
    BY <1>4, <1>9, <2>2 DEF ReadBack, netVars, receiverVars, rowVars
<1>10. CASE SendCached
  <2>1. /\ Head(cached_messages) \in Record /\ Head(cached_messages) # Torn
        /\ ~In(Torn, cached_messages')
    BY <1>0, <1>4, <1>10, TailPlace DEF SendCached, PipelineTypeOK
  <2>2. ~In(Torn, wire')
    BY <1>5, <1>10, <2>1 DEF SendCached
  <2>3. QED
    BY <1>4, <1>10, <2>1, <2>2 DEF SendCached, receiverVars, rowVars
<1>11. CASE SendQueued
  <2>1. Head(write_queue) \in Record /\ Head(write_queue) # Torn
    <3>1. Head(write_queue) \in Number
      BY <1>0, <1>11 DEF SendQueued, PipelineTypeOK
    <3>2. QED
      BY <3>1, NumbersAreRecords DEF Record
  <2>2. ~In(Torn, wire')
    BY <1>5, <1>11, <2>1 DEF SendQueued
  <2>3. QED
    BY <1>4, <1>11, <2>2 DEF SendQueued, receiverVars, rowVars
<1>12. CASE CloseWriter
  BY <1>4, <1>12, EmptyPlace DEF CloseWriter, netVars, receiverVars, rowVars
<1>13. CASE Connect \/ BeginShutdown \/ JoinReceiver \/ ConverterNext
  BY <1>6, <1>13 DEF Connect, BeginShutdown, JoinReceiver, ConverterNext, writerVars, netVars, rowVars
<1>14. CASE HandleCommand
  BY <1>4, <1>14, EmptyPlace DEF HandleCommand, EndReceiver, writerVars, rowVars
<1>15. CASE ReceiveMessage
  <2>1. Head(wire) \in Record /\ Head(wire) # Torn /\ ~In(Torn, Tail(wire))
    BY <1>0, <1>4, <1>15, TailPlace DEF ReceiveMessage, PipelineTypeOK
  <2>2. ~In(Torn, rx_message_queue')
    BY <1>0, <1>4, <1>15, <2>1, AppendPlace DEF ReceiveMessage, PipelineTypeOK
  <2>3. ~In(Torn, wire')
    BY <1>15, <2>1, EmptyPlace DEF ReceiveMessage, EndReceiver
  <2>4. QED
    BY <1>4, <1>15, <2>2, <2>3 DEF ReceiveMessage, writerVars, rowVars
<1>16. CASE ConverterCheck
  BY <1>4, <1>16, EmptyPlace DEF ConverterCheck, writerVars, netVars, rowVars
<1>17. CASE ProcessMessage
  <2> DEFINE m == Head(converting)
  <2>1. m \in Record /\ m # Torn /\ ~In(Torn, converting')
    BY <1>0, <1>4, <1>17, TailPlace DEF ProcessMessage, PipelineTypeOK
  <2>2. ExecuteSqlStatement(m)
    BY <1>17, <2>1 DEF ProcessMessage, Parses
  <2> HIDE DEF m
  <2>3. /\ ~In(Torn, Append(transaction, m)) /\ ~In(Torn, database \o transaction)
        /\ database \o transaction \in Seq(Record)
    BY <1>0, <1>4, <2>1, AppendPlace, ConcatPlace DEF PipelineTypeOK
  <2>4. <<m>> \in Seq(Record) /\ ~In(Torn, <<m>>)
    BY <2>1 DEF In
  <2>5. ~In(Torn, database \o transaction \o <<m>>)
    BY <2>3, <2>4, ConcatPlace
  <2>6. ~In(Torn, transaction') /\ ~In(Torn, database')
    BY <1>4, <2>2, <2>3, <2>5, EmptyPlace DEF ExecuteSqlStatement
  <2>7. QED
    BY <1>4, <1>17, <2>1, <2>6 DEF ProcessMessage, writerVars, netVars
<1>18. CASE CloseDatabase
  <2>1. ~In(Torn, database \o transaction)
    BY <1>0, <1>4, ConcatPlace DEF PipelineTypeOK
  <2>2. QED
    BY <1>4, <1>18, <2>1, EmptyPlace DEF CloseDatabase, writerVars, netVars
<1>19. QED
  BY <1>6, <1>7, <1>8, <1>9, <1>10, <1>11, <1>12, <1>13, <1>14, <1>15, <1>16, <1>17, <1>18, NextCases
     DEF WriterStep, WriterThread, OwnerThread, ServerStep, ReceiverThread, ConverterThread,
         ServerThread, vars, writerVars, netVars, receiverVars, rowVars

(* The flow of events: order and completeness together. *)
Flow == PlacesInOrder /\ Chain /\ NothingLost

(* The nine places as the provers see them. *)
PlaceTypes ==
  /\ write_queue \in Seq(Record) /\ batch \in Seq(Record) /\ file \in Seq(Record)
  /\ cached_messages \in Seq(Record) /\ wire \in Seq(Record)
  /\ rx_message_queue \in Seq(Record) /\ converting \in Seq(Record)
  /\ transaction \in Seq(Record) /\ database \in Seq(Record)

(* Every place is a sequence of records. *)
LEMMA PlacesAreRecords == PipelineTypeOK => PlaceTypes
  BY NumbersAreRecords DEF PipelineTypeOK, PlaceTypes

(* Where no place changes, neither order nor completeness does. *)
LEMMA FlowFrame ==
  ASSUME Flow, excused => excused',
         UNCHANGED <<write_queue, batch, OnDisk, file, cached_messages, wire, rx_message_queue,
                     converting, transaction, database, accepted>>
  PROVE  Flow'
  BY DEF Flow, PlacesInOrder, Chain, NothingLost, From1, From2, From3, From4, From5, From6, From7,
         From8, From9

(* An event that is published comes after all that was published before.   *)
LEMMA PublishEffect ==
  ASSUME PlaceTypes, NEW m \in Record, Publish(m)
  PROVE  /\ excused => excused'
         /\ \/ wire' = wire /\ excused'
            \/ /\ Numbers(wire') = Numbers(wire) \cup ({m} \cap Number)
               /\ Increasing(wire) /\ Below(Numbers(wire), {m} \cap Number) => Increasing(wire')
  BY AppendPlace DEF Publish, PlaceTypes

(* The pushes, which add an event behind all others. *)
LEMMA PushFlow == PipelineInv /\ (PushCached \/ PushLive) => Flow'
<1> SUFFICES ASSUME PipelineInv, PushCached \/ PushLive PROVE Flow'
  OBVIOUS
<1>0. PipelineTypeOK /\ PlaceTypes /\ WriterEnds /\ PlacesInOrder /\ Chain /\ NothingLost
  BY PlacesAreRecords DEF PipelineInv
<1>1. /\ accepted \in Nat /\ accepted' = accepted + 1 /\ accepted' \in Number /\ accepted' \in Record
      /\ {accepted'} \cap Number = {accepted'}
  <2>1. accepted \in 0 .. MaxMessages /\ accepted < MaxMessages /\ accepted' = accepted + 1
    BY <1>0 DEF PushCached, PushLive, PipelineTypeOK
  <2>2. QED
    BY <2>1, PipelineAssumption DEF Number, Record
<1>2. \A n \in From1 : n <= accepted
  BY <1>0 DEF Chain
<1>3. From1 \subseteq Nat
  BY NumbersAreRecords DEF From1, From2, From3, From4, From5, From6, From7, From8, From9, Numbers
<1>4. \A n \in From1 : n < accepted' /\ n <= accepted'
  BY <1>1, <1>2, <1>3
<1>5. 1 .. accepted' = (1 .. accepted) \cup {accepted'}
  BY <1>1
<1> USE DEF From1, From2, From3, From4, From5, From6, From7, From8, From9
<1>6. CASE PushCached
  <2>1. /\ write_queue' = Append(write_queue, accepted')
        /\ UNCHANGED <<batch, OnDisk, file, cached_messages, wire, rx_message_queue, converting,
                       transaction, database, excused>>
    BY <1>6 DEF PushCached, netVars, receiverVars, rowVars, OnDisk
  <2>2. Below(Numbers(write_queue), {accepted'})
    BY <1>4 DEF Below
  <2>3. Numbers(write_queue') = Numbers(write_queue) \cup {accepted'} /\ Increasing(write_queue')
    <3>1. write_queue \in Seq(Record) /\ Increasing(write_queue)
      BY <1>0 DEF PlaceTypes, PlacesInOrder
    <3>2. /\ Numbers(Append(write_queue, accepted')) = Numbers(write_queue) \cup {accepted'}
          /\ Increasing(Append(write_queue, accepted'))
      BY <1>1, <2>2, <3>1, AppendPlace
    <3>3. QED
      BY <2>1, <3>2
  <2>4. Chain'
    BY <1>0, <1>1, <1>4, <2>1, <2>3 DEF Chain, Below
  <2>5. NothingLost'
    BY <1>0, <1>5, <2>1, <2>3 DEF NothingLost
  <2>6. QED
    BY <1>0, <2>1, <2>3, <2>4, <2>5 DEF Flow, PlacesInOrder
<1>7. CASE PushLive
  <2>1. /\ Publish(accepted')
        /\ UNCHANGED <<write_queue, batch, OnDisk, file, cached_messages, rx_message_queue,
                       converting, transaction, database>>
    BY <1>7 DEF PushLive, receiverVars, rowVars, OnDisk
  <2>2. /\ Numbers(write_queue) = {} /\ Numbers(batch) = {} /\ Numbers(OnDisk) = {}
        /\ Numbers(cached_messages) = {}
    BY <1>0, <1>7, EmptyPlace DEF PushLive, WriterEnds, OnDisk
  <2>3. Below(Numbers(wire), {accepted'})
    BY <1>4 DEF Below
  <2>4. /\ excused => excused'
        /\ \/ wire' = wire /\ excused'
           \/ Numbers(wire') = Numbers(wire) \cup {accepted'} /\ Increasing(wire')
    BY <1>0, <1>1, <2>1, <2>3, PublishEffect DEF PlacesInOrder
  <2>5. Chain'
    BY <1>0, <1>1, <1>4, <2>1, <2>2, <2>4 DEF Chain, Below
  <2>6. NothingLost'
    BY <1>0, <1>5, <2>1, <2>4 DEF NothingLost
  <2>7. Increasing(wire')
    BY <1>0, <2>4 DEF PlacesInOrder
  <2>8. QED
    BY <1>0, <2>1, <2>5, <2>6, <2>7 DEF Flow, PlacesInOrder
<1>8. QED
  BY <1>6, <1>7

(* The writer's thread, which moves events between the queue and the file. *)
LEMMA WriterThreadFlow == PipelineInv /\ (BeginTerminate \/ WriterThread) => Flow'
<1> SUFFICES ASSUME PipelineInv, BeginTerminate \/ WriterThread PROVE Flow'
  OBVIOUS
<1>0. PipelineTypeOK /\ PlaceTypes /\ WriterEnds /\ PlacesInOrder /\ Chain /\ NothingLost
  BY PlacesAreRecords DEF PipelineInv
<1> USE DEF From1, From2, From3, From4, From5, From6, From7, From8, From9
<1>1. UNCHANGED <<cached_messages, wire, rx_message_queue, converting, transaction, database,
                  accepted>>
  BY DEF BeginTerminate, WriterThread, WriterCheck, OpenFails, WriteBatch, netVars, receiverVars,
         rowVars
<1>2. CASE BeginTerminate
  <2>1. UNCHANGED <<write_queue, batch, file, excused>>
    BY <1>2 DEF BeginTerminate
  <2>2. UNCHANGED OnDisk
    BY <1>0, <1>2 DEF BeginTerminate, OnDisk, WriterEnds, PipelineTypeOK
  <2>3. QED
    BY <1>0, <1>1, <2>1, <2>2, FlowFrame DEF Flow
<1>3. CASE WriterCheck
  <2>1. UNCHANGED <<file, OnDisk, excused>> /\ batch = <<>>
    BY <1>0, <1>3 DEF WriterCheck, OnDisk, WriterEnds
  <2>2. \/ UNCHANGED <<write_queue, batch>>
        \/ batch' = write_queue /\ write_queue' = <<>>
    BY <1>3 DEF WriterCheck
  <2>3. CASE UNCHANGED <<write_queue, batch>>
    BY <1>0, <1>1, <2>1, <2>3, FlowFrame DEF Flow
  <2>4. CASE batch' = write_queue /\ write_queue' = <<>>
    <3>1. /\ Numbers(batch) = {} /\ Numbers(write_queue') = {}
          /\ Numbers(batch') = Numbers(write_queue)
          /\ Increasing(write_queue') /\ Increasing(batch')
      BY <1>0, <2>1, <2>4, EmptyPlace DEF PlacesInOrder
    <3>2. Chain'
      BY <1>0, <1>1, <2>1, <3>1 DEF Chain, Below
    <3>3. NothingLost'
      BY <1>0, <1>1, <2>1, <3>1 DEF NothingLost
    <3>4. QED
      BY <1>0, <1>1, <2>1, <3>1, <3>2, <3>3 DEF Flow, PlacesInOrder
  <2>5. QED
    BY <2>2, <2>3, <2>4
<1>4. CASE OpenFails
  <2>1. /\ write_queue' = batch \o write_queue /\ batch' = <<>>
        /\ UNCHANGED <<file, OnDisk, excused>>
    BY <1>4 DEF OpenFails, PutBack, OnDisk
  <2>2. Below(Numbers(batch), Numbers(write_queue))
    BY <1>0 DEF Chain
  <2>3. /\ Numbers(write_queue') = Numbers(batch) \cup Numbers(write_queue)
        /\ Increasing(write_queue')
    BY <1>0, <2>1, <2>2, ConcatPlace DEF PlaceTypes, PlacesInOrder
  <2>4. Numbers(batch') = {} /\ Increasing(batch')
    BY <2>1, EmptyPlace
  <2>5. Chain'
    BY <1>0, <1>1, <2>1, <2>3, <2>4 DEF Chain, Below
  <2>6. NothingLost'
    BY <1>0, <1>1, <2>1, <2>3, <2>4 DEF NothingLost
  <2>7. QED
    BY <1>0, <1>1, <2>1, <2>3, <2>4, <2>5, <2>6 DEF Flow, PlacesInOrder
<1>5. CASE WriteBatch
  <2>1. OnDisk = file /\ OnDisk' = file' /\ batch' = <<>> /\ UNCHANGED write_queue
    BY <1>0, <1>5 DEF WriteBatch, OnDisk, WriterEnds, PipelineTypeOK
  <2>2. PICK A \in SUBSET Numbers(batch) :
          /\ Numbers(file') = Numbers(file) \cup A
          /\ excused => excused'
          /\ excused' \/ A = Numbers(batch)
          /\ Increasing(file) /\ Increasing(batch) /\ Below(Numbers(file), Numbers(batch))
               => Increasing(file')
    BY <1>0, <1>5, WriteBatchEffect
  <2>3. Below(Numbers(file), Numbers(batch))
    BY <1>0, <2>1 DEF Chain, Below
  <2>4. Increasing(file') /\ Increasing(batch') /\ Numbers(batch') = {}
    BY <1>0, <2>1, <2>2, <2>3, EmptyPlace DEF PlacesInOrder
  <2>5. Numbers(OnDisk') = Numbers(OnDisk) \cup A
    BY <2>1, <2>2
  <2>6. Chain'
    BY <1>0, <1>1, <2>1, <2>4, <2>5 DEF Chain, Below
  <2>7. NothingLost'
    BY <1>0, <1>1, <2>1, <2>2, <2>4, <2>5 DEF NothingLost
  <2>8. QED
    BY <1>0, <1>1, <2>1, <2>4, <2>6, <2>7 DEF Flow, PlacesInOrder
<1>6. QED
  BY <1>2, <1>3, <1>4, <1>5 DEF WriterThread

(* Terminate reads back a part of the file, in order; it is all of it      *)
(* unless a record is torn or the file cannot be opened.                   *)
LEMMA ReadBackEffect ==
  ASSUME PipelineTypeOK, WriterEnds, FileCounts, Increasing(file), ReadBack
  PROVE  /\ Numbers(cached_messages') \subseteq Numbers(file)
         /\ Increasing(cached_messages')
         /\ excused => excused'
         /\ excused' \/ Numbers(cached_messages') = Numbers(file)
<1>0. file \in Seq(Record) /\ cached_messages = <<>> /\ excused \in BOOLEAN
  BY DEF PipelineTypeOK, WriterEnds, ReadBack
<1>1. CASE written_to_disk_count = 0
  BY <1>0, <1>1, EmptyPlace DEF ReadBack, FileCounts
<1>2. CASE cached_messages' \in FileRecords /\ excused' = excused
  <2>1. /\ Numbers(cached_messages') \subseteq Numbers(file)
        /\ Increasing(cached_messages')
        /\ ~In(Torn, file) => cached_messages' = file
    BY <1>0, <1>2, FileRecordsFacts
  <2>2. QED
    BY <1>2, <2>1 DEF FileCounts
<1>3. CASE cached_messages' = <<>> /\ excused' = TRUE
  BY <1>3, EmptyPlace
<1>4. QED
  BY <1>1, <1>2, <1>3 DEF ReadBack

(* Terminate publishes what the file and the queue hold and closes. *)
LEMMA OwnerFlow == PipelineInv /\ OwnerThread => Flow'
<1> SUFFICES ASSUME PipelineInv, OwnerThread PROVE Flow'
  OBVIOUS
<1>0. /\ PipelineTypeOK /\ PlaceTypes /\ WriterEnds /\ FileCounts
      /\ PlacesInOrder /\ Chain /\ NothingLost
  BY PlacesAreRecords DEF PipelineInv
<1> USE DEF From1, From2, From3, From4, From5, From6, From7, From8, From9
<1>1. UNCHANGED <<batch, rx_message_queue, converting, transaction, database, accepted>>
  BY DEF OwnerThread, ReadBack, SendCached, SendQueued, CloseWriter, receiverVars, rowVars
<1>2. CASE ReadBack
  <2>1. OnDisk = file /\ OnDisk' = <<>> /\ UNCHANGED <<write_queue, file, wire>>
    BY <1>2 DEF ReadBack, OnDisk, netVars
  <2>2. Numbers(cached_messages) = {} /\ Numbers(OnDisk') = {}
    BY <1>0, <1>2, <2>1, EmptyPlace DEF ReadBack, WriterEnds
  <2>3. /\ Numbers(cached_messages') \subseteq Numbers(OnDisk)
        /\ Increasing(cached_messages')
        /\ excused => excused'
        /\ excused' \/ Numbers(cached_messages') = Numbers(OnDisk)
    BY <1>0, <1>2, <2>1, ReadBackEffect DEF PlacesInOrder
  <2>4. Chain'
    BY <1>0, <1>1, <2>1, <2>2, <2>3 DEF Chain, Below
  <2>5. NothingLost'
    BY <1>0, <1>1, <2>1, <2>2, <2>3 DEF NothingLost
  <2>6. QED
    BY <1>0, <1>1, <2>1, <2>3, <2>4, <2>5 DEF Flow, PlacesInOrder
<1>3. CASE SendCached
  <2> DEFINE m == Head(cached_messages)
             M == {m} \cap Number
  <2>1. /\ UNCHANGED <<write_queue, file, OnDisk>>
        /\ cached_messages' = Tail(cached_messages) /\ cached_messages # <<>> /\ Publish(m)
    BY <1>3 DEF SendCached, OnDisk
  <2>2. /\ m \in Record /\ Numbers(cached_messages) = M \cup Numbers(cached_messages')
        /\ Increasing(cached_messages') /\ Below(M, Numbers(cached_messages'))
    BY <1>0, <2>1, TailPlace DEF PlaceTypes, PlacesInOrder
  <2> HIDE DEF m
  <2>3. Below(Numbers(wire), M)
    BY <1>0, <2>2 DEF Chain, Below
  <2>4. /\ excused => excused'
        /\ Increasing(wire')
        /\ \/ Numbers(wire') = Numbers(wire) /\ excused'
           \/ Numbers(wire') = Numbers(wire) \cup M
    BY <1>0, <2>1, <2>2, <2>3, PublishEffect DEF PlacesInOrder
  <2> HIDE DEF M
  <2>5. Chain'
    BY <1>0, <1>1, <2>1, <2>2, <2>4 DEF Chain, Below
  <2>6. NothingLost'
    BY <1>0, <1>1, <2>1, <2>2, <2>4 DEF NothingLost
  <2>7. QED
    BY <1>0, <1>1, <2>1, <2>2, <2>4, <2>5, <2>6 DEF Flow, PlacesInOrder
<1>4. CASE SendQueued
  <2> DEFINE m == Head(write_queue)
             M == {m} \cap Number
  <2>1. /\ UNCHANGED <<cached_messages, file, OnDisk>>
        /\ write_queue' = Tail(write_queue) /\ write_queue # <<>> /\ Publish(m)
    BY <1>4 DEF SendQueued, OnDisk
  <2>2. /\ m \in Record /\ Numbers(write_queue) = M \cup Numbers(write_queue')
        /\ Increasing(write_queue') /\ Below(M, Numbers(write_queue'))
    BY <1>0, <2>1, TailPlace DEF PlaceTypes, PlacesInOrder
  <2>e. Numbers(cached_messages) = {} /\ Numbers(OnDisk) = {} /\ Numbers(batch) = {}
    BY <1>0, <1>4, EmptyPlace DEF SendQueued, OnDisk, WriterEnds
  <2> HIDE DEF m
  <2>3. Below(Numbers(wire), M)
    BY <1>0, <2>2 DEF Chain, Below
  <2>4. /\ excused => excused'
        /\ Increasing(wire')
        /\ \/ Numbers(wire') = Numbers(wire) /\ excused'
           \/ Numbers(wire') = Numbers(wire) \cup M
    BY <1>0, <2>1, <2>2, <2>3, PublishEffect DEF PlacesInOrder
  <2> HIDE DEF M
  <2>5. Chain'
    BY <1>0, <1>1, <2>1, <2>2, <2>4, <2>e DEF Chain, Below
  <2>6. NothingLost'
    BY <1>0, <1>1, <2>1, <2>2, <2>4 DEF NothingLost
  <2>7. QED
    BY <1>0, <1>1, <2>1, <2>2, <2>4, <2>5, <2>6 DEF Flow, PlacesInOrder
<1>5. CASE CloseWriter
  <2>1. /\ UNCHANGED <<write_queue, cached_messages, wire, excused>>
        /\ OnDisk = <<>> /\ OnDisk' = <<>> /\ file' = <<>>
    BY <1>5 DEF CloseWriter, OnDisk, netVars
  <2>2. Increasing(file') /\ Numbers(OnDisk') = Numbers(OnDisk)
    BY <2>1, EmptyPlace
  <2>3. Chain' /\ NothingLost'
    BY <1>0, <1>1, <2>1 DEF Chain, NothingLost
  <2>4. QED
    BY <1>0, <1>1, <2>1, <2>2, <2>3 DEF Flow, PlacesInOrder
<1>6. QED
  BY <1>2, <1>3, <1>4, <1>5 DEF OwnerThread

(* The receiver and the converter move events on towards the database. *)
LEMMA ReceiverFlow == PipelineInv /\ ReceiverThread => Flow'
<1> SUFFICES ASSUME PipelineInv, ReceiverThread PROVE Flow'
  OBVIOUS
<1>0. PipelineTypeOK /\ PlaceTypes /\ PlacesInOrder /\ Chain /\ NothingLost
  BY PlacesAreRecords DEF PipelineInv
<1>1. UNCHANGED <<write_queue, batch, file, OnDisk, cached_messages, converting, transaction,
                  database, accepted>>
  BY DEF ReceiverThread, HandleCommand, ReceiveMessage, writerVars, rowVars, OnDisk
<1>2. CASE HandleCommand
  <2>1. UNCHANGED rx_message_queue
    BY <1>2 DEF HandleCommand
  <2>2. \/ wire' = wire /\ excused' = excused
        \/ wire' = <<>> /\ excused' = (excused \/ wire # <<>>)
    BY <1>2 DEF HandleCommand, EndReceiver
  <2>3. CASE wire' = wire /\ excused' = excused
    BY <1>0, <1>1, <2>1, <2>3, FlowFrame DEF Flow
  <2>4. CASE wire' = <<>> /\ excused' = (excused \/ wire # <<>>)
    <3>1. CASE wire = <<>>
      BY <1>0, <1>1, <2>1, <2>4, <3>1, FlowFrame DEF Flow
    <3>2. CASE wire # <<>>
      <4> USE DEF From1, From2, From3, From4, From5, From6, From7, From8, From9
      <4>1. Numbers(wire') = {} /\ Increasing(wire')
        BY <2>4, EmptyPlace
      <4>2. Chain'
        BY <1>0, <1>1, <2>1, <4>1 DEF Chain, Below
      <4>3. NothingLost'
        BY <2>4, <3>2 DEF NothingLost
      <4>4. QED
        BY <1>0, <1>1, <2>1, <4>1, <4>2, <4>3 DEF Flow, PlacesInOrder
    <3>3. QED
      BY <3>1, <3>2
  <2>5. QED
    BY <2>2, <2>3, <2>4
<1>3. CASE ReceiveMessage
  <2> DEFINE m == Head(wire)
             M == {m} \cap Number
  <2>1. wire # <<>> /\ rx_message_queue' = Append(rx_message_queue, m)
    BY <1>3 DEF ReceiveMessage
  <2>2. /\ m \in Record /\ Tail(wire) \in Seq(Record)
        /\ Numbers(wire) = M \cup Numbers(Tail(wire))
        /\ Increasing(Tail(wire)) /\ Below(M, Numbers(Tail(wire)))
    BY <1>0, <2>1, TailPlace DEF PlaceTypes, PlacesInOrder
  <2>3. \/ wire' = Tail(wire) /\ excused' = excused
        \/ wire' = <<>> /\ excused' = (excused \/ Tail(wire) # <<>>)
    BY <1>3 DEF ReceiveMessage, EndReceiver
  <2>4. /\ excused => excused'
        /\ Increasing(wire') /\ Numbers(wire') \subseteq Numbers(Tail(wire))
        /\ excused' \/ Numbers(wire') = Numbers(Tail(wire))
    <3>1. CASE wire' = Tail(wire) /\ excused' = excused
      BY <2>2, <3>1
    <3>2. CASE wire' = <<>> /\ excused' = (excused \/ Tail(wire) # <<>>)
      <4>1. (excused => excused') /\ (excused' \/ Tail(wire) = <<>>)
        BY <3>2
      <4>2. Numbers(wire') = {} /\ Increasing(wire')
        BY <3>2, EmptyPlace
      <4>3. QED
        BY <4>1, <4>2, EmptyPlace
    <3>3. QED
      BY <2>3, <3>1, <3>2
  <2> HIDE DEF m
  <2> USE DEF From1, From2, From3, From4, From5, From6, From7, From8, From9
  <2>5. Below(Numbers(rx_message_queue), M)
    BY <1>0, <2>2 DEF Chain, Below
  <2>6. /\ Numbers(rx_message_queue') = Numbers(rx_message_queue) \cup M
        /\ Increasing(rx_message_queue')
    BY <1>0, <2>1, <2>2, <2>5, AppendPlace DEF PlaceTypes, PlacesInOrder
  <2> HIDE DEF M
  <2>7. Chain'
    BY <1>0, <1>1, <2>2, <2>4, <2>6 DEF Chain, Below
  <2>8. NothingLost'
    BY <1>0, <1>1, <2>2, <2>4, <2>6 DEF NothingLost
  <2>9. QED
    BY <1>0, <1>1, <2>4, <2>6, <2>7, <2>8 DEF Flow, PlacesInOrder
<1>4. QED
  BY <1>2, <1>3 DEF ReceiverThread

(* A row joins the transaction behind all rows, committed or not. *)
LEMMA InsertEffect ==
  ASSUME PlaceTypes, PlacesInOrder, NEW m \in Record, NEW M, M = {m} \cap Number,
         ExecuteSqlStatement(m),
         Below(Numbers(database), Numbers(transaction) \cup M), Below(Numbers(transaction), M)
  PROVE  /\ Increasing(database') /\ Increasing(transaction')
         /\ \/ /\ Numbers(database') = Numbers(database) \cup Numbers(transaction) \cup M
               /\ Numbers(transaction') = {}
            \/ /\ Numbers(database') = Numbers(database)
               /\ Numbers(transaction') = Numbers(transaction) \cup M
<1>0. /\ database \in Seq(Record) /\ transaction \in Seq(Record)
      /\ Increasing(database) /\ Increasing(transaction)
  BY DEF PlaceTypes, PlacesInOrder
<1>2. /\ Append(transaction, m) \in Seq(Record)
      /\ Numbers(Append(transaction, m)) = Numbers(transaction) \cup M
      /\ Increasing(Append(transaction, m))
  BY <1>0, AppendPlace
<1>3. CASE transaction' = Append(transaction, m) /\ UNCHANGED database
  BY <1>0, <1>2, <1>3
<1>4. CASE database' = database \o transaction \o <<m>> /\ transaction' = <<>>
  <2> DEFINE rows == database \o transaction
  <2>1. /\ rows \in Seq(Record) /\ Increasing(rows)
        /\ Numbers(rows) = Numbers(database) \cup Numbers(transaction)
    <3>1. Below(Numbers(database), Numbers(transaction))
      BY DEF Below
    <3>2. QED
      BY <1>0, <3>1, ConcatPlace
  <2>2. <<m>> \in Seq(Record) /\ Numbers(<<m>>) = M /\ Increasing(<<m>>)
    BY DEF Numbers, In, Increasing
  <2>3. Below(Numbers(rows), Numbers(<<m>>))
    BY <2>1, <2>2 DEF Below
  <2>4. database' = rows \o <<m>>
    BY <1>4
  <2> HIDE DEF rows
  <2>5. Numbers(rows \o <<m>>) = Numbers(rows) \cup Numbers(<<m>>) /\ Increasing(rows \o <<m>>)
    BY <2>1, <2>2, <2>3, ConcatPlace
  <2>6. QED
    BY <1>4, <2>1, <2>2, <2>4, <2>5, EmptyPlace
<1>5. QED
  BY <1>3, <1>4 DEF ExecuteSqlStatement

(* The converter takes the queue over and turns its events into rows. *)
LEMMA ConverterFlow == PipelineInv /\ ConverterThread => Flow'
<1> SUFFICES ASSUME PipelineInv, ConverterThread PROVE Flow'
  OBVIOUS
<1>0. PipelineTypeOK /\ PlaceTypes /\ ServerEnds /\ PlacesInOrder /\ Chain /\ NothingLost
  BY PlacesAreRecords DEF PipelineInv
<1>1. UNCHANGED <<write_queue, batch, file, OnDisk, cached_messages, wire, accepted, excused>>
  BY DEF ConverterThread, ConverterCheck, ProcessMessage, ConverterNext, writerVars, netVars,
         OnDisk
<1>2. CASE ConverterCheck
  <2>1. converting = <<>> /\ UNCHANGED <<transaction, database>>
    BY <1>0, <1>2 DEF ConverterCheck, ServerEnds, rowVars
  <2>2. \/ UNCHANGED <<converting, rx_message_queue>>
        \/ converting' = rx_message_queue /\ rx_message_queue' = <<>>
    BY <1>2 DEF ConverterCheck
  <2>3. CASE UNCHANGED <<converting, rx_message_queue>>
    BY <1>0, <1>1, <2>1, <2>3, FlowFrame DEF Flow
  <2>4. CASE converting' = rx_message_queue /\ rx_message_queue' = <<>>
    <3> USE DEF From1, From2, From3, From4, From5, From6, From7, From8, From9
    <3>1. /\ Numbers(converting) = {} /\ Numbers(rx_message_queue') = {}
          /\ Numbers(converting') = Numbers(rx_message_queue)
          /\ Increasing(rx_message_queue') /\ Increasing(converting')
      BY <1>0, <2>1, <2>4, EmptyPlace DEF PlacesInOrder
    <3>2. Chain'
      BY <1>0, <1>1, <2>1, <3>1 DEF Chain, Below
    <3>3. NothingLost'
      BY <1>0, <1>1, <2>1, <3>1 DEF NothingLost
    <3>4. QED
      BY <1>0, <1>1, <2>1, <3>1, <3>2, <3>3 DEF Flow, PlacesInOrder
  <2>5. QED
    BY <2>2, <2>3, <2>4
<1>3. CASE ProcessMessage
  <2> DEFINE m == Head(converting)
             M == {m} \cap Number
  <2>1. /\ converting # <<>> /\ converting' = Tail(converting) /\ UNCHANGED rx_message_queue
        /\ \/ m = Torn /\ UNCHANGED <<transaction, database>>
           \/ ExecuteSqlStatement(m)
    BY <1>3 DEF ProcessMessage, Parses, rowVars
  <2>2. /\ m \in Record /\ Numbers(converting) = M \cup Numbers(converting')
        /\ Increasing(converting') /\ Below(M, Numbers(converting'))
    BY <1>0, <2>1, TailPlace DEF PlaceTypes, PlacesInOrder
  <2> HIDE DEF m
  <2> USE DEF From1, From2, From3, From4, From5, From6, From7, From8, From9
  <2>3. CASE m = Torn /\ UNCHANGED <<transaction, database>>
    <3>1. M = {}
      BY <2>3, NumbersAreRecords
    <3>2. Numbers(converting') = Numbers(converting)
      BY <2>2, <3>1
    <3>3. Chain' /\ NothingLost'
      BY <1>0, <1>1, <2>1, <2>3, <3>2 DEF Chain, NothingLost
    <3>4. QED
      BY <1>0, <1>1, <2>1, <2>2, <2>3, <3>3 DEF Flow, PlacesInOrder
  <2>4. CASE ExecuteSqlStatement(m)
    <3>3. /\ Below(Numbers(database), Numbers(transaction) \cup M)
          /\ Below(Numbers(transaction), M)
      BY <1>0, <2>2 DEF Chain, Below
    <3>4. /\ Increasing(database') /\ Increasing(transaction')
          /\ \/ /\ Numbers(database') = Numbers(database) \cup Numbers(transaction) \cup M
                /\ Numbers(transaction') = {}
             \/ /\ Numbers(database') = Numbers(database)
                /\ Numbers(transaction') = Numbers(transaction) \cup M
      BY <1>0, <2>2, <2>4, <3>3, InsertEffect
    <3> HIDE DEF M
    <3>5. Chain'
      BY <1>0, <1>1, <2>1, <2>2, <3>4 DEF Chain, Below
    <3>6. NothingLost'
      BY <1>0, <1>1, <2>1, <2>2, <3>4 DEF NothingLost
    <3>7. QED
      BY <1>0, <1>1, <2>1, <2>2, <3>4, <3>5, <3>6 DEF Flow, PlacesInOrder
  <2>5. QED
    BY <2>1, <2>3, <2>4
<1>4. CASE ConverterNext
  <2>1. UNCHANGED <<converting, rx_message_queue, transaction, database>>
    BY <1>4 DEF ConverterNext, rowVars
  <2>2. QED
    BY <1>0, <1>1, <2>1, FlowFrame DEF Flow
<1>5. QED
  BY <1>2, <1>3, <1>4 DEF ConverterThread

(* The owner of the server commits the last transaction. *)
LEMMA ServerFlow == PipelineInv /\ (Connect \/ BeginShutdown \/ ServerThread) => Flow'
<1> SUFFICES ASSUME PipelineInv, Connect \/ BeginShutdown \/ ServerThread PROVE Flow'
  OBVIOUS
<1>0. PlaceTypes /\ PlacesInOrder /\ Chain /\ NothingLost
  BY PlacesAreRecords DEF PipelineInv
<1>1. UNCHANGED <<write_queue, batch, file, OnDisk, cached_messages, wire, rx_message_queue,
                  converting, accepted, excused>>
  BY DEF Connect, BeginShutdown, ServerThread, JoinReceiver, CloseDatabase, writerVars, netVars,
         OnDisk
<1>2. CASE Connect \/ BeginShutdown \/ JoinReceiver
  <2>1. UNCHANGED <<transaction, database>>
    BY <1>2 DEF Connect, BeginShutdown, JoinReceiver, rowVars
  <2>2. QED
    BY <1>0, <1>1, <2>1, FlowFrame DEF Flow
<1>3. CASE CloseDatabase
  <2> USE DEF From1, From2, From3, From4, From5, From6, From7, From8, From9
  <2>1. Below(Numbers(database), Numbers(transaction))
    BY <1>0 DEF Chain, Below
  <2>2. database' = database \o transaction /\ transaction' = <<>>
    BY <1>3 DEF CloseDatabase
  <2>3. /\ Numbers(database') = Numbers(database) \cup Numbers(transaction)
        /\ Increasing(database') /\ Numbers(transaction') = {} /\ Increasing(transaction')
    BY <1>0, <2>1, <2>2, ConcatPlace, EmptyPlace DEF PlaceTypes, PlacesInOrder
  <2>4. Chain'
    BY <1>0, <1>1, <2>3 DEF Chain, Below
  <2>5. NothingLost'
    BY <1>0, <1>1, <2>3 DEF NothingLost
  <2>6. QED
    BY <1>0, <1>1, <2>3, <2>4, <2>5 DEF Flow, PlacesInOrder
<1>4. QED
  BY <1>2, <1>3 DEF ServerThread

(* Every step keeps order and completeness. *)
LEMMA FlowStep == PipelineInv /\ [Next]_vars => Flow'
<1>1. PipelineInv /\ UNCHANGED vars => Flow'
  BY FlowFrame DEF PipelineInv, Flow, vars, writerVars, netVars, receiverVars, rowVars, OnDisk
<1>2. QED
  BY <1>1, PushFlow, WriterThreadFlow, OwnerFlow, ReceiverFlow, ConverterFlow, ServerFlow
     DEF Next

-----------------------------------------------------------------------------
(* The theorems. *)

(* All places are empty and nobody has ended. *)
LEMMA InitHolds == Init => PipelineInv
<1> SUFFICES ASSUME Init PROVE PipelineInv
  OBVIOUS
<1>1. PipelineTypeOK
  <2>1. accepted \in 0 .. MaxMessages /\ written_to_disk_count \in Nat
    BY PipelineAssumption DEF Init
  <2>2. writer \in {"check", "waiting", "open", "ended"}
    BY DEF Init
  <2>3. QED
    BY <2>1, <2>2, EmptyPlace DEF Init, PipelineTypeOK
<1>2. DiskCount
  BY DEF Init, DiskCount
<1>3. ServerEnds /\ WriterEnds
  BY DEF Init, ServerEnds, WriterEnds
<1>4. FileCounts /\ NoNonsense /\ PlacesInOrder
  BY EmptyPlace DEF Init, FileCounts, NoNonsense, PlacesInOrder
<1>5. OnDisk = <<>>
  BY DEF Init, OnDisk
<1>6. /\ Numbers(database) = {} /\ From1 = {} /\ From2 = {} /\ From3 = {} /\ From4 = {}
      /\ From5 = {} /\ From6 = {} /\ From7 = {} /\ From8 = {} /\ From9 = {}
  BY <1>5, EmptyPlace DEF Init, From1, From2, From3, From4, From5, From6, From7, From8, From9
<1>7. Chain
  BY <1>6 DEF Chain, Below
<1>8. NothingLost
  BY DEF Init, NothingLost
<1>9. QED
  BY <1>1, <1>2, <1>3, <1>4, <1>7, <1>8 DEF PipelineInv

(* The inductive invariant of the log pipeline.                            *)
THEOREM PipelineInvariant == Spec => []PipelineInv
<1>1. PipelineInv /\ [Next]_vars => PipelineInv'
  BY TypeStep, DiskCountStep, ServerEndsStep, WriterEndsStep, FileCountsStep, NoNonsenseStep,
     FlowStep
     DEF PipelineInv, Flow
<1>2. QED
  BY <1>1, InitHolds, PTL DEF Spec

(* Types, and with them that the writer counts no event as written to disk *)
(* twice or before its time, however often the file failed to open.        *)
THEOREM PipelineTypes == Spec => []TypeOK
<1>1. PipelineInv => TypeOK
  <2> SUFFICES ASSUME PipelineTypeOK, DiskCount PROVE TypeOK
    BY DEF PipelineInv
  <2>1. Number \subseteq Nat /\ Record \subseteq Events
    BY NumbersAreRecords DEF Record, Events
  <2>2. {file, cached_messages, wire, rx_message_queue, converting, transaction, database}
          \subseteq Seq(Events)
    <3>1. \A s \in Seq(Record) : s \in Seq(Events)
      BY <2>1
    <3>2. QED
      BY <3>1 DEF PipelineTypeOK
  <2>3. QED
    BY <2>2 DEF PipelineTypeOK, DiskCount, TypeOK, Number
<1>2. QED
  BY <1>1, PipelineInvariant, PTL

(* ~Server leaves nothing uncommitted: the three threads of the log server *)
(* hand on what they have before they end, in whatever order they are      *)
(* woken.                                                                  *)
THEOREM CommittedWhenDown == Spec => []DownIsCommitted
<1>1. PipelineInv => DownIsCommitted
  BY DEF PipelineInv, ServerEnds, DownIsCommitted
<1>2. QED
  BY <1>1, PipelineInvariant, PTL

(* RowsAreEvents: without a record that the disk cut off, every row is an  *)
(* event that somebody has pushed.                                         *)
THEOREM RowsStayEvents == Spec => []RowsAreEvents
<1>1. PipelineInv => RowsAreEvents
  <2> SUFFICES ASSUME PipelineTypeOK, NoNonsense, Chain, ~cut PROVE RowsAreEvents
    BY DEF PipelineInv, RowsAreEvents
  <2>1. ASSUME NEW s \in Seq(Record), ~In(Torn, s), \A n \in Numbers(s) : n <= accepted
        PROVE  s \in Seq(1 .. accepted)
    <3>1. \A i \in 1 .. Len(s) : s[i] \in Number /\ s[i] \in Numbers(s)
      BY <2>1 DEF In, Record, Numbers
    <3>2. \A i \in 1 .. Len(s) : s[i] \in 1 .. accepted
      BY <2>1, <3>1 DEF Number
    <3>3. s \in [1 .. Len(s) -> 1 .. accepted] /\ Len(s) \in Nat
      BY <2>1, <3>2
    <3>4. QED
      BY <3>3, FunctionIsSeq
  <2>2. /\ \A n \in Numbers(database) : n <= accepted
        /\ \A n \in Numbers(transaction) : n <= accepted
    BY DEF Chain, From1, From2
  <2>3. database \in Seq(1 .. accepted) /\ transaction \in Seq(1 .. accepted)
    BY <2>1, <2>2 DEF PipelineTypeOK, NoNonsense
  <2>4. QED
    BY <2>3 DEF RowsAreEvents
<1>2. QED
  BY <1>1, PipelineInvariant, PTL

(* Events are inserted in the order of the pushes, each once. *)
THEOREM RowsStayInOrder == Spec => []RowsInOrder
<1>1. PipelineInv => RowsInOrder
  <2> SUFFICES ASSUME PipelineTypeOK, PlacesInOrder, Chain PROVE RowsInOrder
    BY DEF PipelineInv
  <2> DEFINE rows == database \o transaction
  <2>1. database \in Seq(Record) /\ transaction \in Seq(Record)
    BY DEF PipelineTypeOK
  <2>2. Below(Numbers(database), Numbers(transaction))
    BY DEF Chain, Below, From2
  <2>3. Increasing(rows)
    BY <2>1, <2>2, ConcatPlace, NumbersAreRecords DEF PlacesInOrder
  <2>4. QED
    BY <2>3 DEF RowsInOrder, Increasing
<1>2. QED
  BY <1>1, PipelineInvariant, PTL

(* No event is lost while nothing failed. *)
THEOREM NoEventIsLost == Spec => []NothingLost
<1>1. PipelineInv => NothingLost
  BY DEF PipelineInv
<1>2. QED
  BY <1>1, PipelineInvariant, PTL
=============================================================================
