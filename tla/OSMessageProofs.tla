--------------------------- MODULE OSMessageProofs ---------------------------
(***************************************************************************)
(* A message queue is a bounded FIFO queue, for every capacity, any        *)
(* messages and whatever the threads that use it and the scheduler do.     *)
(*                                                                         *)
(* The ring arithmetic is in the lemmas.  The steps of the guest threads   *)
(* do not touch the queue and are stutters; a round of MsgQueueOp has one  *)
(* effect or none.                                                         *)
(***************************************************************************)
EXTENDS OSMessage, OSThreadsProofs

Word == Message \cup {NoMessage}

\* The word of the array that holds the i-th message, and the messages of a ring.
Cell(f, i) == (f + i - 1) % Capacity
Contents(a, f, u) == [i \in 1 .. u |-> a[Cell(f, i)]]

-----------------------------------------------------------------------------
(* The indices of the ring.                                                *)

\* What the assumptions say of the capacity.
LEMMA CapacityType == Capacity \in Nat \ {0}
BY MessageConstants

\* A remainder, for a dividend less than twice the divisor.
LEMMA ModOnce ==
  ASSUME NEW c \in Nat \ {0}, NEW n \in Nat, n < 2 * c
  PROVE  n % c = IF n < c THEN n ELSE n - c
OBVIOUS

\* An index wraps at most once.
LEMMA CellValue ==
  ASSUME NEW f \in Index, NEW i \in 1 .. Capacity
  PROVE  /\ Cell(f, i) = IF f + i - 1 < Capacity THEN f + i - 1
                                                 ELSE f + i - 1 - Capacity
         /\ Cell(f, i) \in Index
<1>1. PICK n \in Nat : n = f + i - 1
  BY CapacityType DEF Index
<1>2. n < 2 * Capacity
  BY <1>1, CapacityType DEF Index
<1>3. n % Capacity = IF n < Capacity THEN n ELSE n - Capacity
  BY <1>2, CapacityType, ModOnce
<1>4. Cell(f, i) = n % Capacity
  BY <1>1 DEF Cell
<1> QED
  BY <1>1, <1>2, <1>3, <1>4, CapacityType DEF Index

\* Different messages are in different words.
LEMMA CellsDistinct ==
  ASSUME NEW f \in Index, NEW i \in 1 .. Capacity, NEW j \in 1 .. Capacity, i # j
  PROVE  Cell(f, i) # Cell(f, j)
<1>1. Cell(f, i) = IF f + i - 1 < Capacity THEN f + i - 1 ELSE f + i - 1 - Capacity
  BY CellValue
<1>2. Cell(f, j) = IF f + j - 1 < Capacity THEN f + j - 1 ELSE f + j - 1 - Capacity
  BY CellValue
<1> QED
  BY <1>1, <1>2, CapacityType DEF Index

\* The index after an index.
LEMMA NextIndex ==
  ASSUME NEW f \in Index
  PROVE  /\ (f + 1) % Capacity = IF f + 1 < Capacity THEN f + 1 ELSE 0
         /\ (f + 1) % Capacity \in Index
<1>1. PICK n \in Nat : n = f + 1
  BY CapacityType DEF Index
<1>2. n < 2 * Capacity /\ n <= Capacity
  BY <1>1, CapacityType DEF Index
<1>3. n % Capacity = IF n < Capacity THEN n ELSE n - Capacity
  BY <1>2, CapacityType, ModOnce
<1> QED
  BY <1>1, <1>2, <1>3, CapacityType DEF Index

\* After a receive, the words are numbered from the second one on.
LEMMA CellAfterNext ==
  ASSUME NEW f \in Index, NEW i \in 1 .. Capacity - 1
  PROVE  Cell((f + 1) % Capacity, i) = Cell(f, i + 1)
<1>1. i \in 1 .. Capacity /\ i + 1 \in 1 .. Capacity
  BY CapacityType
<1>2. PICK g \in Index : g = (f + 1) % Capacity
  BY NextIndex
<1>3. g = IF f + 1 < Capacity THEN f + 1 ELSE 0
  BY <1>2, NextIndex
<1>4. /\ Cell(g, i) = IF g + i - 1 < Capacity THEN g + i - 1 ELSE g + i - 1 - Capacity
      /\ Cell(f, i + 1) = IF f + i < Capacity THEN f + i ELSE f + i - Capacity
  BY <1>1, CellValue, CapacityType DEF Index
<1> QED
  BY <1>2, <1>3, <1>4, CapacityType DEF Index

\* What a jam puts in front is the first word, and the others follow it.
LEMMA CellBefore ==
  ASSUME NEW f \in Index, NEW b \in Index,
         b = IF f = 0 THEN Capacity - 1 ELSE f - 1
  PROVE  /\ Cell(b, 1) = b
         /\ \A i \in 2 .. Capacity : Cell(b, i) = Cell(f, i - 1)
<1>1. Cell(b, 1) = b
  BY CellValue, CapacityType DEF Index
<1>2. ASSUME NEW i \in 2 .. Capacity
      PROVE  Cell(b, i) = Cell(f, i - 1)
  <2>1. i \in 1 .. Capacity /\ i - 1 \in 1 .. Capacity
    BY CapacityType
  <2>2. PICK j \in 1 .. Capacity : j = i - 1
    BY <2>1
  <2>3. Cell(b, i) = IF b + i - 1 < Capacity THEN b + i - 1 ELSE b + i - 1 - Capacity
    BY <2>1, CellValue
  <2>4. Cell(f, j) = IF f + j - 1 < Capacity THEN f + j - 1 ELSE f + j - 1 - Capacity
    BY CellValue
  <2>5. Cell(b, i) = Cell(f, j)
    BY <2>2, <2>3, <2>4, CapacityType DEF Index
  <2> QED
    BY <2>2, <2>5
<1> QED
  BY <1>1, <1>2

-----------------------------------------------------------------------------
(* The effects on the ring, as effects on the sequence of messages.        *)

\* The messages are a sequence of words.
LEMMA ContentsType ==
  ASSUME NEW a \in [Index -> Word], NEW f \in Index, NEW u \in 0 .. Capacity
  PROVE  /\ Contents(a, f, u) \in Seq(Word)
         /\ Len(Contents(a, f, u)) = u
         /\ \A i \in 1 .. u : Contents(a, f, u)[i] = a[Cell(f, i)]
<1>1. \A i \in 1 .. u : a[Cell(f, i)] \in Word
  <2>1. \A i \in 1 .. u : i \in 1 .. Capacity
    BY CapacityType
  <2> QED
    BY <2>1, CellValue
<1>2. u \in Nat
  BY CapacityType
<1> QED
  BY <1>1, <1>2 DEF Contents

\* A send appends its message.
LEMMA EnqueueAppends ==
  ASSUME NEW a \in [Index -> Word], NEW f \in Index, NEW u \in 0 .. Capacity,
         u < Capacity, NEW m \in Word, NEW b \in [Index -> Word],
         \A i \in Index : b[i] = IF i = (f + u) % Capacity THEN m ELSE a[i]
  PROVE  Contents(b, f, u + 1) = Append(Contents(a, f, u), m)
<1>1. u + 1 \in 1 .. Capacity /\ u + 1 \in 0 .. Capacity
  BY CapacityType
<1>2. Cell(f, u + 1) = (f + u) % Capacity
  <2>1. f + (u + 1) - 1 = f + u
    BY CapacityType DEF Index
  <2> QED
    BY <2>1 DEF Cell
<1>3. /\ \A i \in Index : b[i] = IF i = Cell(f, u + 1) THEN m ELSE a[i]
      /\ Cell(f, u + 1) \in Index
  BY <1>1, <1>2, CellValue
<1>4. b \in [Index -> Word]
  OBVIOUS
<1>5. ASSUME NEW i \in 1 .. u
      PROVE  b[Cell(f, i)] = a[Cell(f, i)]
  <2>1. i \in 1 .. Capacity /\ i # u + 1
    BY CapacityType
  <2>2. Cell(f, i) # Cell(f, u + 1) /\ Cell(f, i) \in Index
    BY <1>1, <2>1, CellsDistinct, CellValue
  <2> QED
    BY <1>3, <2>2
<1>6. b[Cell(f, u + 1)] = m
  BY <1>3
<1>7. /\ Contents(b, f, u + 1) \in Seq(Word) /\ Len(Contents(b, f, u + 1)) = u + 1
      /\ \A i \in 1 .. u + 1 : Contents(b, f, u + 1)[i] = b[Cell(f, i)]
  BY <1>1, <1>4, ContentsType
<1>8. /\ Contents(a, f, u) \in Seq(Word) /\ Len(Contents(a, f, u)) = u
      /\ \A i \in 1 .. u : Contents(a, f, u)[i] = a[Cell(f, i)]
  BY ContentsType
<1>9. /\ Append(Contents(a, f, u), m) \in Seq(Word)
      /\ Len(Append(Contents(a, f, u), m)) = u + 1
      /\ \A i \in 1 .. u : Append(Contents(a, f, u), m)[i] = Contents(a, f, u)[i]
      /\ Append(Contents(a, f, u), m)[u + 1] = m
  BY <1>8
<1>10. \A i \in 1 .. u + 1 : Contents(b, f, u + 1)[i] = Append(Contents(a, f, u), m)[i]
  <2>1. \A i \in 1 .. u + 1 : i \in 1 .. u \/ i = u + 1
    BY CapacityType
  <2> QED
    BY <1>5, <1>6, <1>7, <1>8, <1>9, <2>1
<1> QED
  BY <1>4, <1>7, <1>9, <1>10, SeqEqual

\* A jam puts its message in front.
LEMMA JamPrepends ==
  ASSUME NEW a \in [Index -> Word], NEW f \in Index, NEW u \in 0 .. Capacity,
         u < Capacity, NEW m \in Word,
         NEW g \in Index, f = 0 => g = Capacity - 1, f # 0 => g = f - 1,
         NEW b \in [Index -> Word],
         \A i \in Index : b[i] = IF i = g THEN m ELSE a[i]
  PROVE  Contents(b, g, u + 1) = << m >> \o Contents(a, f, u)
<1>1. u + 1 \in 1 .. Capacity /\ u + 1 \in 0 .. Capacity
  BY CapacityType
<1>2. g \in Index
  OBVIOUS
<1>3. b \in [Index -> Word]
  OBVIOUS
<1>4. Cell(g, 1) = g /\ \A i \in 2 .. Capacity : Cell(g, i) = Cell(f, i - 1)
  BY <1>2, CellBefore
<1>5. ASSUME NEW i \in 2 .. u + 1
      PROVE  b[Cell(g, i)] = a[Cell(f, i - 1)]
  <2>1. i \in 2 .. Capacity /\ i \in 1 .. Capacity /\ 1 \in 1 .. Capacity /\ i # 1
    BY CapacityType
  <2>2. Cell(g, i) # g /\ Cell(g, i) \in Index
    BY <1>2, <1>4, <2>1, CellsDistinct, CellValue
  <2> QED
    BY <1>4, <2>1, <2>2
<1>6. b[Cell(g, 1)] = m
  BY <1>2, <1>4
<1>7. /\ Contents(b, g, u + 1) \in Seq(Word) /\ Len(Contents(b, g, u + 1)) = u + 1
      /\ \A i \in 1 .. u + 1 : Contents(b, g, u + 1)[i] = b[Cell(g, i)]
  <2>1. PICK v \in 0 .. Capacity : v = u + 1
    BY <1>1
  <2>2. /\ Contents(b, g, v) \in Seq(Word) /\ Len(Contents(b, g, v)) = v
        /\ \A i \in 1 .. v : Contents(b, g, v)[i] = b[Cell(g, i)]
    BY <1>2, <1>3, ContentsType
  <2> QED
    BY <2>1, <2>2
<1>8. /\ Contents(a, f, u) \in Seq(Word) /\ Len(Contents(a, f, u)) = u
      /\ \A i \in 1 .. u : Contents(a, f, u)[i] = a[Cell(f, i)]
  BY ContentsType
<1>9. /\ << m >> \o Contents(a, f, u) \in Seq(Word)
      /\ Len(<< m >> \o Contents(a, f, u)) = u + 1
      /\ \A i \in 2 .. u + 1 : (<< m >> \o Contents(a, f, u))[i] = Contents(a, f, u)[i - 1]
      /\ (<< m >> \o Contents(a, f, u))[1] = m
  BY <1>8
<1>10. \A i \in 1 .. u + 1 :
         Contents(b, g, u + 1)[i] = (<< m >> \o Contents(a, f, u))[i]
  <2> SUFFICES ASSUME NEW i \in 1 .. u + 1
               PROVE  Contents(b, g, u + 1)[i] = (<< m >> \o Contents(a, f, u))[i]
    OBVIOUS
  <2>1. i = 1 \/ (i \in 2 .. u + 1 /\ i - 1 \in 1 .. u)
    BY CapacityType
  <2>2. Contents(b, g, u + 1)[i] = b[Cell(g, i)]
    BY <1>7, Zenon
  <2>3. CASE i = 1
    BY <1>6, <1>9, <2>2, <2>3, Zenon
  <2>4. CASE i \in 2 .. u + 1 /\ i - 1 \in 1 .. u
    <3>1. b[Cell(g, i)] = a[Cell(f, i - 1)]
      BY <1>5, <2>4, Zenon
    <3>2. Contents(a, f, u)[i - 1] = a[Cell(f, i - 1)]
      BY <1>8, <2>4, Zenon
    <3>3. (<< m >> \o Contents(a, f, u))[i] = Contents(a, f, u)[i - 1]
      BY <1>9, <2>4, Zenon
    <3> QED  BY <2>2, <3>1, <3>2, <3>3, Zenon
  <2> QED  BY <2>1, <2>3, <2>4, Zenon
<1> QED
  BY <1>2, <1>3, <1>7, <1>9, <1>10, SeqEqual

\* A receive takes the first message.
LEMMA DequeueTakesHead ==
  ASSUME NEW a \in [Index -> Word], NEW f \in Index, NEW u \in 0 .. Capacity, u # 0
  PROVE  /\ Contents(a, f, u) # << >>
         /\ Head(Contents(a, f, u)) = a[f]
         /\ Contents(a, (f + 1) % Capacity, u - 1) = Tail(Contents(a, f, u))
<1>1. PICK g \in Index : g = (f + 1) % Capacity
  BY NextIndex
<1>2. /\ u - 1 \in 0 .. Capacity
      /\ \A i \in 1 .. u - 1 : i \in 1 .. Capacity - 1 /\ i + 1 \in 1 .. u
      /\ 1 \in 1 .. u /\ 1 \in 1 .. Capacity
  BY CapacityType
<1>3. Cell(f, 1) = f
  BY <1>2, CellValue, CapacityType DEF Index
<1>4. /\ Contents(a, f, u) \in Seq(Word) /\ Len(Contents(a, f, u)) = u
      /\ \A i \in 1 .. u : Contents(a, f, u)[i] = a[Cell(f, i)]
  BY ContentsType
<1>5. /\ Contents(a, g, u - 1) \in Seq(Word) /\ Len(Contents(a, g, u - 1)) = u - 1
      /\ \A i \in 1 .. u - 1 : Contents(a, g, u - 1)[i] = a[Cell(g, i)]
  BY <1>2, ContentsType
<1>6. Contents(a, f, u) # << >> /\ Head(Contents(a, f, u)) = a[f]
  BY <1>2, <1>3, <1>4
<1>7. /\ Tail(Contents(a, f, u)) \in Seq(Word)
      /\ Len(Tail(Contents(a, f, u))) = u - 1
      /\ \A i \in 1 .. u - 1 : Tail(Contents(a, f, u))[i] = Contents(a, f, u)[i + 1]
  BY <1>4, <1>6
<1>8. \A i \in 1 .. u - 1 : Contents(a, g, u - 1)[i] = Tail(Contents(a, f, u))[i]
  BY <1>1, <1>2, <1>4, <1>5, <1>7, CellAfterNext
<1> QED
  BY <1>1, <1>5, <1>6, <1>7, <1>8, SeqEqual

-----------------------------------------------------------------------------
(* The steps.                                                              *)

\* Of the words the type invariant gives, in the terms of the lemmas.
LEMMA RingTypes ==
  ASSUME MessageTypeOK
  PROVE  /\ array \in [Index -> Word] /\ first \in Index /\ used \in 0 .. Capacity
         /\ inbox \in [Thread -> Word]
BY DEF MessageTypeOK, Word

\* OSSendMessage's effect is a Put of the abstract queue,
LEMMA SendIsPut ==
  ASSUME MessageTypeOK, ~ MsgQueueIsFull, NEW m \in Message, MsgQueueEnqueue(m)
  PROVE  MessageTypeOK' /\ Queue!Put
<1>1. used < Capacity /\ used + 1 \in 0 .. Capacity
  BY CapacityType DEF MsgQueueIsFull, MessageTypeOK
<1>2. m \in Word
  BY DEF Word
<1>3. /\ array' = [array EXCEPT ![(first + used) % Capacity] = m]
      /\ first' = first /\ used' = used + 1 /\ inbox' = inbox
  BY DEF MsgQueueEnqueue
<1>4. array' \in [Index -> Word]
  BY <1>2, <1>3, RingTypes
<1>5. Contents(array', first, used + 1) = Append(Contents(array, first, used), m)
  <2>1. \A i \in Index : array'[i] = IF i = (first + used) % Capacity THEN m ELSE array[i]
    BY <1>3, RingTypes
  <2>2. PICK b \in [Index -> Word] : b = array'
    BY <1>4
  <2>3. \A i \in Index : b[i] = IF i = (first + used) % Capacity THEN m ELSE array[i]
    BY <2>1, <2>2
  <2>4. Contents(b, first, used + 1) = Append(Contents(array, first, used), m)
    BY <1>1, <1>2, <2>3, RingTypes, EnqueueAppends, ZenonT(60)
  <2> QED
    BY <2>2, <2>4
<1>6. Items = Contents(array, first, used) /\ Items' = Contents(array', first', used')
  BY DEF Items, Contents, Cell
<1>7. Len(Items) = used
  BY <1>6, RingTypes, ContentsType
<1>8. MessageTypeOK'
  BY <1>1, <1>3, <1>4, RingTypes DEF MessageTypeOK, Word
<1>9. Items' = Append(Items, m)
  BY <1>3, <1>5, <1>6
<1> QED
  BY <1>1, <1>3, <1>7, <1>8, <1>9 DEF Queue!Put

\* OSJamMessage's a Jam,
LEMMA JamIsJam ==
  ASSUME MessageTypeOK, ~ MsgQueueIsFull, NEW m \in Message, MsgQueueJam(m)
  PROVE  MessageTypeOK' /\ Queue!Jam
<1>1. used < Capacity /\ used + 1 \in 0 .. Capacity
  BY CapacityType DEF MsgQueueIsFull, MessageTypeOK
<1>2. m \in Word
  BY DEF Word
<1>3. /\ array' = [array EXCEPT ![first'] = m]
      /\ first' = IF first = 0 THEN Capacity - 1 ELSE first - 1
      /\ used' = used + 1 /\ inbox' = inbox
  BY DEF MsgQueueJam
<1>4. first' \in Index
  BY <1>3, RingTypes, CapacityType DEF Index
<1>5. array' \in [Index -> Word]
  BY <1>2, <1>3, RingTypes
<1>6. Contents(array', first', used + 1) = << m >> \o Contents(array, first, used)
  <2>1. \A i \in Index : array'[i] = IF i = first' THEN m ELSE array[i]
    BY <1>3, RingTypes
  <2>2. PICK b \in [Index -> Word] : b = array'
    BY <1>5
  <2>3. PICK g \in Index : g = first'
    BY <1>4
  <2>4. \A i \in Index : b[i] = IF i = g THEN m ELSE array[i]
    BY <2>1, <2>2, <2>3
  <2>5. (first = 0 => g = Capacity - 1) /\ (first # 0 => g = first - 1)
    BY <1>3, <2>3
  <2>6. Contents(b, g, used + 1) = << m >> \o Contents(array, first, used)
    BY <1>1, <1>2, <2>4, <2>5, RingTypes, JamPrepends, ZenonT(60)
  <2> QED
    BY <2>2, <2>3, <2>6
<1>7. Items = Contents(array, first, used) /\ Items' = Contents(array', first', used')
  BY DEF Items, Contents, Cell
<1>8. Len(Items) = used
  BY <1>7, RingTypes, ContentsType
<1>9. MessageTypeOK'
  BY <1>1, <1>3, <1>4, <1>5, RingTypes DEF MessageTypeOK, Word
<1>10. Items' = << m >> \o Items
  BY <1>3, <1>6, <1>7
<1> QED
  BY <1>1, <1>3, <1>8, <1>9, <1>10 DEF Queue!Jam

\* and OSReceiveMessage's a Get.
LEMMA ReceiveIsGet ==
  ASSUME MessageTypeOK, ~ MsgQueueIsEmpty, NEW keep \in BOOLEAN, MsgQueueDequeue(keep)
  PROVE  MessageTypeOK' /\ Queue!Get
<1>1. used # 0 /\ used - 1 \in 0 .. Capacity
  BY CapacityType DEF MsgQueueIsEmpty, MessageTypeOK
<1>2. /\ array' = array /\ first' = (first + 1) % Capacity /\ used' = used - 1
      /\ inbox' = IF keep THEN [inbox EXCEPT ![exec] = array[first]] ELSE inbox
  BY DEF MsgQueueDequeue
<1>3. first' \in Index
  BY <1>2, RingTypes, NextIndex
<1>4. Items = Contents(array, first, used) /\ Items' = Contents(array', first', used')
  BY DEF Items, Contents, Cell
<1>5. Items # << >> /\ Head(Items) = array[first] /\ Items' = Tail(Items)
  BY <1>1, <1>2, <1>4, RingTypes, DequeueTakesHead
<1>6. array[first] \in Word
  BY RingTypes
<1>7. MessageTypeOK'
  BY <1>1, <1>2, <1>3, <1>6, RingTypes DEF MessageTypeOK, Word
<1>8. \/ \E r \in Thread : inbox' = [inbox EXCEPT ![r] = Head(Items)]
      \/ inbox' = inbox
  <2>1. CASE exec \in Thread
    BY <1>2, <1>5, <2>1
  <2>2. CASE exec \notin Thread
    BY <1>2, <2>2, RingTypes
  <2> QED
    BY <2>1, <2>2
<1> QED
  BY <1>5, <1>7, <1>8 DEF Queue!Get

\* A round of MsgQueueOp has one of these effects, or leaves the queue alone.
LEMMA RoundIsEffect ==
  ASSUME MessageTypeOK, MsgQueueOp
  PROVE  MessageTypeOK' /\ (Queue!Next \/ UNCHANGED << Items, inbox >>)
<1>1. PICK r \in Request : IF MsgReady(r) THEN MsgApply(r) ELSE UNCHANGED messageVars
  BY DEF MsgQueueOp
<1>2. CASE ~ MsgReady(r)
  BY <1>1, <1>2 DEF messageVars, queueVars, MessageTypeOK, Items
<1>3. CASE MsgReady(r) /\ r.op = "OSSendMessage"
  <2>1. MsgQueueEnqueue(r.msg) /\ ~ MsgQueueIsFull /\ r.msg \in Message
    BY <1>1, <1>3 DEF MsgApply, MsgReady, Request
  <2> QED
    BY <2>1, SendIsPut DEF Queue!Next
<1>4. CASE MsgReady(r) /\ r.op = "OSJamMessage"
  <2>1. MsgQueueJam(r.msg) /\ ~ MsgQueueIsFull /\ r.msg \in Message
    BY <1>1, <1>4 DEF MsgApply, MsgReady, Request
  <2> QED
    BY <2>1, JamIsJam DEF Queue!Next
<1>5. CASE MsgReady(r) /\ r.op = "OSReceiveMessage"
  <2>1. MsgQueueDequeue(r.keep) /\ ~ MsgQueueIsEmpty /\ r.keep \in BOOLEAN
    BY <1>1, <1>5 DEF MsgApply, MsgReady, Request
  <2> QED
    BY <2>1, ReceiveIsGet DEF Queue!Next
<1>6. r.op \in {"OSSendMessage", "OSJamMessage", "OSReceiveMessage"}
  BY DEF Request
<1> QED
  BY <1>2, <1>3, <1>4, <1>5, <1>6

\* Whatever the threads and the scheduler do, a step of the system is a step of
\* the abstract queue or none of its business.
LEMMA StepIsEffect ==
  ASSUME MessageTypeOK, [MessageNext]_allVars
  PROVE  MessageTypeOK' /\ [Queue!Next]_<< Items, inbox >>
<1>1. CASE OSStep \/ GuestMessageCall \/ UNCHANGED allVars
  <2>1. UNCHANGED << array, first, used, inbox >>
    BY <1>1 DEF OSStep, GuestMessageCall, allVars, messageVars, queueVars
  <2> QED
    BY <2>1 DEF MessageTypeOK, Items
<1>2. CASE MsgQueueOp
  BY <1>2, RoundIsEffect
<1>3. CASE OSInitMessageQueue
  <2>1. array' = array /\ first' = 0 /\ used' = 0 /\ inbox' = inbox
    BY <1>3 DEF OSInitMessageQueue
  <2>2. MessageTypeOK'
    BY <2>1, CapacityType DEF MessageTypeOK, Index
  <2>3. Items' = << >>
    BY <2>1 DEF Items
  <2> QED
    BY <2>1, <2>2, <2>3 DEF Queue!Next, Queue!Reset
<1> QED
  BY <1>1, <1>2, <1>3 DEF MessageNext

\* The queue starts empty.
LEMMA InitIsEmpty ==
  ASSUME MessageInit
  PROVE  MessageTypeOK /\ Queue!Init
<1>1. used = 0 /\ first = 0
  BY DEF MessageInit
<1>2. MessageTypeOK
  BY CapacityType DEF MessageInit, MessageTypeOK, Index
<1>3. Items = << >>
  BY <1>1 DEF Items
<1> QED
  BY <1>2, <1>3 DEF MessageInit, Queue!Init

-----------------------------------------------------------------------------
(* The threads that use a message queue.  The steps of this module change  *)
(* nothing but call chains, so that the invariants of OSThreads hold with  *)
(* message queues in use.                                                  *)

\* What the theorems assume of guest code, besides what OSThreads needs: that
\* callbacks, which have no thread to block, do not ask to.
MessagesDisciplined == Disciplined /\ \A r \in CallbackRequests : ~ r.block

\* A call of MsgQueueOp as a frame, and the queues it wakes and blocks on.
LEMMA RoundFacts ==
  ASSUME NEW r \in Request
  PROVE  /\ Round(r) \in Frame /\ Round(r).arg = r /\ r.block \in BOOLEAN
         /\ Round(r).op = IF r.block THEN "MsgQueueWait" ELSE "MsgQueueTry"
         /\ WakeQueue(r) \in WaitQueue /\ BlockQueue(r) \in WaitQueue
<1>1. r \in MessageCall /\ r.block \in BOOLEAN
  BY MessageConstants DEF Request
<1>2. WakeQueue(r) \in WaitQueue /\ BlockQueue(r) \in WaitQueue
  BY MessageConstants DEF WakeQueue, BlockQueue
<1>3. CASE r.block
  BY <1>1, <1>2, <1>3 DEF Round, Call, Frame
<1>4. CASE ~ r.block
  BY <1>1, <1>2, <1>4 DEF Round, Call, Frame
<1> QED  BY <1>3, <1>4

\* What a round of MsgQueueOp leads to.
Follows(r, g) ==
  \/ MsgReady(r) /\ MsgApply(r) /\ g = << Call("OSWakeupThread", WakeQueue(r)) >>
  \/ /\ ~ MsgReady(r) /\ UNCHANGED messageVars
     /\ \/ ~ r.block /\ g = << >>
        \/ r.block /\ g = << Call("OSSleepThread", BlockQueue(r)), Round(r) >>

LEMMA RoundLeads ==
  ASSUME IInv, MsgQueueOp
  PROVE  /\ UNCHANGED osVars /\ exec' = exec
         /\ \E r \in Request : \E g \in Seq(Frame) :
              /\ stack[exec] # << >> /\ Head(stack[exec]).op = Round(r).op
              /\ Continue(g) /\ Follows(r, g)
<1>1. PICK r \in Request :
        /\ Arg = r
        /\ IF MsgReady(r)
           THEN /\ MsgApply(r)
                /\ Continue(<< Call("OSWakeupThread", WakeQueue(r)) >>)
           ELSE /\ Continue(IF MayBlock(r)
                            THEN << Call("OSSleepThread", BlockQueue(r)), Round(r) >>
                            ELSE << >>)
                /\ UNCHANGED messageVars
  BY DEF MsgQueueOp
<1>2. At({"MsgQueueWait", "MsgQueueTry"}) /\ UNCHANGED osVars /\ exec' = exec
  BY DEF MsgQueueOp
<1>3. /\ Round(r) \in Frame /\ r.block \in BOOLEAN
      /\ Round(r).op = IF r.block THEN "MsgQueueWait" ELSE "MsgQueueTry"
      /\ WakeQueue(r) \in WaitQueue /\ BlockQueue(r) \in WaitQueue
  BY RoundFacts
<1>4. /\ Call("OSWakeupThread", WakeQueue(r)) \in Frame
      /\ Call("OSSleepThread", BlockQueue(r)) \in Frame
  BY <1>3, AddressFacts, FrameFacts
<1>5. /\ stack[exec] # << >> /\ Head(stack[exec]) \in Frame
      /\ Head(stack[exec]).op \in {"MsgQueueWait", "MsgQueueTry"}
  BY <1>2, TopFacts
<1>6. Head(stack[exec]).arg = r
  BY <1>1 DEF Arg
<1>7. Head(stack[exec]).op = Round(r).op
  <2>1. \/ Head(stack[exec]).op = "MsgQueueWait" /\ Head(stack[exec]).arg.block
        \/ Head(stack[exec]).op = "MsgQueueTry" /\ ~ Head(stack[exec]).arg.block
    BY <1>5 DEF Frame, ThreadCall, QueueCall, MutexCall, PlainCall
  <2> QED  BY <1>3, <1>6, <2>1
<1>8. CASE MsgReady(r)
  <2> DEFINE g == << Call("OSWakeupThread", WakeQueue(r)) >>
  <2>1. g \in Seq(Frame) /\ Continue(g) /\ Follows(r, g)
    BY <1>1, <1>4, <1>8, FramesFacts DEF Follows
  <2> QED  BY <1>2, <1>5, <1>7, <2>1
<1>9. CASE ~ MsgReady(r) /\ ~ r.block
  <2>1. << >> \in Seq(Frame) /\ Continue(<< >>) /\ Follows(r, << >>)
    BY <1>1, <1>9, FramesFacts DEF Follows, MayBlock
  <2> QED  BY <1>2, <1>5, <1>7, <2>1
<1>10. CASE ~ MsgReady(r) /\ r.block
  <2> DEFINE g == << Call("OSSleepThread", BlockQueue(r)), Round(r) >>
  <2>1. g \in Seq(Frame) /\ Continue(g) /\ Follows(r, g)
    BY <1>1, <1>3, <1>4, <1>10, FramesFacts DEF Follows, MayBlock
  <2> QED  BY <1>2, <1>5, <1>7, <2>1
<1> QED  BY <1>8, <1>9, <1>10

\* The frames of a round are no special ones, and those of one that may not block
\* are quiet.
LEMMA FollowFacts ==
  ASSUME NEW r \in Request, NEW g, Follows(r, g)
  PROVE  /\ \A i \in DOMAIN g :
              g[i].op \in {"OSWakeupThread", "OSSleepThread", "MsgQueueWait"}
         /\ ~ r.block => \A i \in DOMAIN g : g[i].op = "OSWakeupThread"
<1>1. Call("OSWakeupThread", WakeQueue(r)) \in Frame
  BY RoundFacts, AddressFacts, FrameFacts
<1>2. Call("OSSleepThread", BlockQueue(r)) \in Frame /\ Round(r) \in Frame
  BY RoundFacts, AddressFacts, FrameFacts
<1>3. r.block => Round(r).op = "MsgQueueWait"
  BY RoundFacts
<1>4. CASE g = << Call("OSWakeupThread", WakeQueue(r)) >>
  BY <1>1, <1>4, FramesFacts
<1>5. CASE g = << >>
  BY <1>5, FramesFacts
<1>6. CASE r.block /\ g = << Call("OSSleepThread", BlockQueue(r)), Round(r) >>
  BY <1>2, <1>3, <1>6, FramesFacts
<1> QED  BY <1>4, <1>5, <1>6 DEF Follows

LEMMA RoundKeepsInvariant ==
  ASSUME IInv, MsgQueueOp
  PROVE  IInv'
<1>1. UNCHANGED osVars /\ exec' = exec
  BY RoundLeads
<1>2. PICK r \in Request : \E g \in Seq(Frame) :
        /\ stack[exec] # << >> /\ Head(stack[exec]).op = Round(r).op
        /\ Continue(g) /\ Follows(r, g)
  BY RoundLeads
<1>3. PICK g \in Seq(Frame) :
        /\ stack[exec] # << >> /\ Head(stack[exec]).op = Round(r).op
        /\ Continue(g) /\ Follows(r, g)
  BY <1>2
<1>4. /\ Head(stack[exec]).op = IF r.block THEN "MsgQueueWait" ELSE "MsgQueueTry"
      /\ \A i \in DOMAIN g :
           g[i].op \in {"OSWakeupThread", "OSSleepThread", "MsgQueueWait"}
      /\ ~ r.block => \A i \in DOMAIN g : g[i].op = "OSWakeupThread"
  BY <1>3, RoundFacts, FollowFacts
<1>5. Replaces(g)
  BY <1>3, ChainNow, ContinueFacts
<1>6. TypeOK' /\ MutexInv'
  BY <1>1, <1>5
  DEF IInv, TypeOK, MutexInv, Replaces, osVars, threadVars, lifeVars, schedVars, mutexVars,
      timerVars
<1>7. UNCHANGED << state, suspend, prio, links, exec, disable, running, current, resched >>
  BY <1>1 DEF osVars, threadVars, schedVars
<1>8. /\ Head(stack[exec]).op \notin Special
      /\ \A i \in DOMAIN g : g[i].op \notin Special
      /\ Head(stack[exec]).op \in Quiet => ~ r.block
      /\ ~ r.block => \A i \in DOMAIN g : g[i].op \in Quiet
      /\ r.block => Head(stack[exec]).op \notin Quiet \cup {"ExitReschedule"}
      /\ ~ Leaves(Head(stack[exec]), resched)
  BY <1>4 DEF Special, Barrier, Quiet, Leaves
<1>9. \/ Head(stack[exec]).op \notin Quiet \cup {"ExitReschedule"}
      \/ ~ Leaves(Head(stack[exec]), resched) /\ \A i \in DOMAIN g : g[i].op \in Quiet
  BY <1>8
<1> QED  BY <1>5, <1>6, <1>7, <1>8, <1>9, StillStep

LEMMA MessageCallKeepsInvariant ==
  ASSUME MessagesDisciplined, IInv, GuestMessageCall
  PROVE  IInv'
<1>1. PICK r \in IF InGuestCode THEN ThreadRequests[exec] ELSE CallbackRequests :
        stack' = [stack EXCEPT ![exec] = << Round(r) >> \o @]
  BY DEF GuestMessageCall
<1>2. /\ InGuestCode \/ InCallback
      /\ UNCHANGED << threadVars, lifeVars, links, resched, schedVars, mutexVars, timerVars,
                      exec >>
  BY DEF GuestMessageCall, osVars
<1>3. timers' \in SUBSET Thread /\ disable' = disable /\ disable \in Nat /\ exec \in Thread
  BY <1>2 DEF timerVars, schedVars, IInv, TypeOK
<1>4. r \in Request /\ (~ InGuestCode => ~ r.block)
  BY <1>1, <1>3, MessageConstants DEF MessagesDisciplined
<1>5. /\ Round(r) \in Frame
      /\ Round(r).op = IF r.block THEN "MsgQueueWait" ELSE "MsgQueueTry"
  BY <1>4, RoundFacts
<1>6. CASE ~ InGuestCode
  <2>1. At({"Callback", "IdleCallback"})
    BY <1>2, <1>6 DEF InCallback
  <2>2. stack[exec] # << >> /\ Head(stack[exec]).op \notin {"Dispatch", "OSCreateThread"}
    BY <2>1, TopFacts
  <2>3. /\ << Round(r) >> \in Seq(Frame)
        /\ \A i \in DOMAIN << Round(r) >> : << Round(r) >>[i].op \in Quiet
    BY <1>4, <1>5, <1>6, FramesFacts DEF Quiet
  <2> QED  BY <1>1, <1>2, <1>3, <2>2, <2>3, QuietAbove DEF timerVars
<1>7. CASE InGuestCode
  <2> DEFINE c == Round(r)
             s == stack[exec]
             w == << c >> \o s
  <2>1. s = << >> /\ s \in Seq(Frame) /\ Shaped(s) /\ \A ops : ~ Has(s, ops)
    BY <1>7 DEF InGuestCode, Shaped, Has
  <2>2. /\ state[exec] = "running" /\ running = exec /\ current = exec /\ disable = 0
    BY <1>7, GuestFacts DEF IInv
  <2>3. stack' = [stack EXCEPT ![exec] = w]
    BY <1>1
  <2>4. c \in Frame /\ c.op \in {"MsgQueueWait", "MsgQueueTry"}
    BY <1>5
  <2> HIDE DEF c, s, w
  <2>5. /\ w \in Seq(Frame) /\ w # << >> /\ Head(w) = c /\ Tail(w) = s
        /\ \A ops : Has(w, ops) <=> c.op \in ops
    BY <2>1, <2>4, OnTopFacts DEF w
  <2>6. Shaped(w)
    <3>1. \A j \in DOMAIN s : FALSE
      BY <2>1
    <3> QED  BY <2>1, <2>4, <3>1, OneAbove DEF w
  <2>7. ChainInv(w, disable)
    BY <2>1, <2>2, <2>4, <2>5, <2>6 DEF ChainInv, Barrier
  <2> QED  BY <1>2, <1>3, <2>3, <2>5, <2>7, ChainStep DEF timerVars, schedVars
<1> QED  BY <1>6, <1>7

-----------------------------------------------------------------------------
(* What a round decides and whom it wakes.                                 *)

\* A round that cannot have its effect decides to wait on its own side; nothing
\* else decides to wait.
LEMMA RoundDecides ==
  ASSUME IInv, IInv', DecidingNext, MsgQueueOp
  PROVE  \/ NobodyDecides'
         \/ /\ DecidingNext' /\ UNCHANGED messageVars
            /\ \E r \in Request :
                 ~ MsgReady(r) /\ \A q : AboutToSleep(q)' => q = BlockQueue(r)
<1>1. UNCHANGED osVars /\ exec' = exec
  BY RoundLeads
<1>2. PICK r \in Request : \E g \in Seq(Frame) :
        /\ stack[exec] # << >> /\ Head(stack[exec]).op = Round(r).op
        /\ Continue(g) /\ Follows(r, g)
  BY RoundLeads
<1>3. PICK g \in Seq(Frame) :
        /\ stack[exec] # << >> /\ Head(stack[exec]).op = Round(r).op
        /\ Continue(g) /\ Follows(r, g)
  BY <1>2
<1>4. ~ At({"Promote"})
  BY <1>3, RoundFacts DEF At
<1>5. CASE \A i \in DOMAIN g : g[i].op \notin Deciding
  BY <1>3, <1>4, <1>5, ContinueAdds, NobodyDecidesAfter
<1>6. CASE ~ \A i \in DOMAIN g : g[i].op \notin Deciding
  <2> DEFINE f1 == Call("OSSleepThread", BlockQueue(r))
             f2 == Round(r)
             T == Tail(stack[exec])
             w == << f1, f2 >> \o T
  <2>1. /\ Call("OSWakeupThread", WakeQueue(r)) \in Frame
        /\ Call("OSWakeupThread", WakeQueue(r)).op \notin Deciding
    BY RoundFacts, AddressFacts, FrameFacts, FramesFacts DEF Deciding
  <2>2. ~ MsgReady(r) /\ UNCHANGED messageVars /\ g = << f1, f2 >>
    BY <1>3, <1>6, <2>1, FramesFacts DEF Follows
  <2>3. f1 \in Frame /\ f2 \in Frame /\ f2.op \in {"MsgQueueWait", "MsgQueueTry"}
    BY RoundFacts, FrameFacts, AddressFacts
  <2>4. /\ f1.op = "OSSleepThread"
        /\ \A q : Call("OSSleepThread", q) = f1 => q = BlockQueue(r)
        /\ \A q : Call("OSSleepThread", q).op = "OSSleepThread"
    BY FramesFacts
  <2>5. T \in Seq(Frame) /\ ~ Has(T, Deciding)
    BY <1>3, <1>4, BelowTop DEF DecidingNext
  <2>6. stack' = [stack EXCEPT ![exec] = w]
    BY <1>3, <2>2 DEF Continue
  <2> HIDE DEF f1, f2, T
  <2> DEFINE w2 == << f2 >> \o T
  <2>7. w = << f1 >> \o w2
    BY <2>3, <2>5, OnTopTwo
  <2>8. w2 \in Seq(Frame) /\ ~ Has(w2, Deciding) /\ ToSet(w2) = {f2} \cup ToSet(T)
    <3>1. f2.op \notin Deciding
      BY <2>3 DEF Deciding
    <3>2. w2 \in Seq(Frame) /\ ~ Has(w2, Deciding)
      BY <2>3, <2>5, <3>1, OnTopFacts
    <3> QED  BY <2>3, <2>5, <3>2, OnTopSets
  <2> HIDE DEF w2, w
  <2>9. w # << >> /\ Head(w) = f1 /\ Tail(w) = w2 /\ ToSet(w) = {f1} \cup ToSet(w2)
    BY <2>3, <2>7, <2>8, OnTopFacts, OnTopSets
  <2>10. \A q : Call("OSSleepThread", q) \in ToSet(w) => q = BlockQueue(r)
    <3>1. SUFFICES ASSUME NEW q, Call("OSSleepThread", q) \in ToSet(w)
                   PROVE  q = BlockQueue(r)
      OBVIOUS
    <3>2. Call("OSSleepThread", q) \notin ToSet(T) /\ Call("OSSleepThread", q) # f2
      BY <2>3, <2>4, <2>5, NothingSleeps
    <3> QED  BY <2>4, <2>8, <2>9, <3>1, <3>2
  <2>11. stack'[exec] = w /\ \A u \in Thread \ {exec} : stack'[u] = stack[u]
    BY <2>6, ChainNow
  <2>12. \A u \in Thread \ {exec} : ~ Has(stack'[u], Deciding)
    BY <2>11 DEF DecidingNext
  <2>13. DecidingNext'
    BY <1>1, <2>4, <2>8, <2>9, <2>11, <2>12 DEF DecidingNext, At
  <2> QED  BY <1>1, <2>2, <2>10, <2>11, <2>13 DEF AboutToSleep
<1> QED  BY <1>5, <1>6

\* A round that has its effect wakes the other side next.
LEMMA RoundWakes ==
  ASSUME IInv, MsgQueueOp
  PROVE  /\ \A q : ~ Waking(q)
         /\ \/ UNCHANGED messageVars
            \/ \E r \in Request : MsgReady(r) /\ MsgApply(r) /\ Waking(WakeQueue(r))'
<1>1. UNCHANGED osVars /\ exec' = exec
  BY RoundLeads
<1>2. PICK r \in Request : \E g \in Seq(Frame) :
        /\ stack[exec] # << >> /\ Head(stack[exec]).op = Round(r).op
        /\ Continue(g) /\ Follows(r, g)
  BY RoundLeads
<1>3. PICK g \in Seq(Frame) :
        /\ stack[exec] # << >> /\ Head(stack[exec]).op = Round(r).op
        /\ Continue(g) /\ Follows(r, g)
  BY <1>2
<1>4. \A q : ~ Waking(q)
  BY <1>3, RoundFacts DEF Waking, At
<1>5. CASE MsgReady(r) /\ MsgApply(r) /\ g = << Call("OSWakeupThread", WakeQueue(r)) >>
  <2> DEFINE f == Call("OSWakeupThread", WakeQueue(r))
  <2>1. f \in Frame
    BY RoundFacts, AddressFacts, FrameFacts
  <2>2. f.op = "OSWakeupThread" /\ f.arg = WakeQueue(r)
    BY FramesFacts
  <2> HIDE DEF f
  <2>3. stack'[exec'] # << >> /\ Head(stack'[exec']) = f
    BY <1>1, <1>3, <1>5, <2>1, NextFrame DEF f
  <2>4. PICK q \in WaitQueue : q = WakeQueue(r)
    BY RoundFacts
  <2>5. Waking(q)'
    BY <2>2, <2>3, <2>4 DEF Waking, At, Arg
  <2>6. Waking(WakeQueue(r))'
    <3>1. WakeQueue(r)' = WakeQueue(r)
      BY DEF WakeQueue
    <3> QED  BY <2>4, <2>5, <3>1
  <2> QED  BY <1>4, <1>5, <2>6
<1> QED  BY <1>3, <1>4, <1>5 DEF Follows

\* The call of MsgQueueOp decides and wakes nothing yet.
LEMMA MessageCallDecides ==
  ASSUME MessagesDisciplined, IInv, IInv', DecidingNext, GuestMessageCall
  PROVE  NobodyDecides' /\ \A q : ~ Waking(q)
<1>1. PICK r \in IF InGuestCode THEN ThreadRequests[exec] ELSE CallbackRequests :
        stack' = [stack EXCEPT ![exec] = << Round(r) >> \o @]
  BY DEF GuestMessageCall
<1>2. InGuestCode \/ InCallback
  BY DEF GuestMessageCall
<1>3. r \in Request
  BY <1>1, ChainNow, MessageConstants
<1>4. Round(r) \in Frame /\ Round(r).op \notin Deciding
  BY <1>3, RoundFacts DEF Deciding
<1>5. stack[exec] = << >> \/ Head(stack[exec]).op \in {"Callback", "IdleCallback"}
  BY <1>2 DEF InGuestCode, InCallback, At
<1>6. stack[exec] = << >> \/ Head(stack[exec]).op \notin Deciding
  BY <1>5 DEF Deciding
<1>7. AddsNone(Deciding)
  BY <1>1, <1>4, <1>6, PushAdds
<1>8. ~ At({"Promote"}) /\ \A q : ~ Waking(q)
  BY <1>5 DEF At, Waking
<1> QED  BY <1>7, <1>8, NobodyDecidesAfter

\* A step that changes only what is left to do keeps the order of the queues, and
\* the waiters of the mutexes where they are.
LEMMA ChainsKeepWaits ==
  ASSUME IInv, IInv', WaitInv, UNCHANGED osVars, exec' = exec, DecidingNext',
         \A q : ~ Waking(q), \A q : AboutToSleep(q)' => q \in WaitQueue
  PROVE  WaitInv'
<1>1. UNCHANGED << state, prio, links, blockedOn, owner >>
  BY DEF osVars, threadVars, mutexVars
<1>2. WaitQueuesSorted'
  BY <1>1 DEF WaitInv, WaitQueuesSorted
<1>3. WaitersLinked'
  BY <1>1 DEF WaitInv, WaitersLinked, Members
<1>4. SleepsOnOwned'
  BY AddressesDistinct DEF SleepsOnOwned
<1>5. \A m \in Mutex : /\ \A t \in Members(m) : blockedOn[t] = m
                       /\ links.queue[m] # << >> => owner[m] # Null
  BY DEF WaitInv, LockWaiters
<1>6. LockWaiters'
  BY <1>1, <1>5 DEF LockWaiters, Members
<1> QED  BY <1>2, <1>3, <1>4, <1>6 DEF WaitInv

\* Nobody who has not decided is about to sleep.
LEMMA UndecidedStay ==
  ASSUME IInv', NobodyDecides'
  PROVE  DecidingNext' /\ \A q : ~ AboutToSleep(q)'
BY NobodyDecidesNext, NobodySleepsNext

\* The invariants of OSThreads, in every step of the system.
LEMMA InvariantKept ==
  ASSUME MessagesDisciplined, IInv, [MessageNext]_allVars
  PROVE  IInv'
<1>1. CASE OSStep
  BY <1>1, NextInvariant DEF MessagesDisciplined, OSStep
<1>2. CASE OSInitMessageQueue \/ UNCHANGED allVars
  <2>1. UNCHANGED vars
    BY <1>2 DEF OSInitMessageQueue, osVars, allVars, vars, fiberVars
  <2> QED  BY <2>1, NextInvariant DEF MessagesDisciplined
<1> QED  BY <1>1, <1>2, RoundKeepsInvariant, MessageCallKeepsInvariant DEF MessageNext

LEMMA WaitsKept ==
  ASSUME MessagesDisciplined, IInv, IInv', WaitInv, [MessageNext]_allVars
  PROVE  WaitInv'
<1>1. CASE OSStep
  BY <1>1, WaitStep DEF MessagesDisciplined, OSStep
<1>2. CASE OSInitMessageQueue \/ UNCHANGED allVars
  <2>1. UNCHANGED vars
    BY <1>2 DEF OSInitMessageQueue, osVars, allVars, vars, fiberVars
  <2> QED  BY <2>1, WaitStep DEF MessagesDisciplined
<1>3. CASE MsgQueueOp
  <2>1. UNCHANGED osVars /\ exec' = exec /\ \A q : ~ Waking(q)
    BY <1>3, RoundLeads, RoundWakes
  <2>2. DecidingNext
    BY DEF WaitInv
  <2>3. DecidingNext' /\ \A q : AboutToSleep(q)' => q \in WaitQueue
    BY <1>3, <2>2, RoundDecides, UndecidedStay, RoundFacts
  <2> QED  BY <2>1, <2>3, ChainsKeepWaits
<1>4. CASE GuestMessageCall
  <2>1. UNCHANGED osVars /\ exec' = exec
    BY <1>4 DEF GuestMessageCall
  <2>2. DecidingNext
    BY DEF WaitInv
  <2>3. /\ DecidingNext' /\ \A q : AboutToSleep(q)' => q \in WaitQueue
        /\ \A q : ~ Waking(q)
    BY <1>4, <2>2, MessageCallDecides, UndecidedStay
  <2> QED  BY <2>1, <2>3, ChainsKeepWaits
<1> QED  BY <1>1, <1>2, <1>3, <1>4 DEF MessageNext

-----------------------------------------------------------------------------
(* Whoever is blocked on a message queue is blocked by it.                 *)

\* The two queues of a message queue belong to it: guest code does not sleep on
\* them by itself.
OnlyQueueSleeps ==
  At({"OSSleepThread"}) /\ Arg \in {SendQueue, RecvQueue} =>
    /\ Tail(stack[exec]) # << >>
    /\ Head(Tail(stack[exec])).op \in {"MsgQueueWait", "MsgQueueTry"}

\* The decision to wait is still right when the thread waits, and every effect is
\* followed to the end by the wakeup of the other side.
BlockedKept ==
  /\ AboutToSleep(RecvQueue) => MsgQueueIsEmpty
  /\ AboutToSleep(SendQueue) => MsgQueueIsFull
  /\ links.queue[RecvQueue] # << >> /\ ~ MsgQueueIsEmpty => Waking(RecvQueue)
  /\ links.queue[SendQueue] # << >> /\ ~ MsgQueueIsFull => Waking(SendQueue)

\* The same of one side, whose effect is not possible when S.
SideKept(q, S) == (AboutToSleep(q) => S) /\ (links.queue[q] # << >> /\ ~ S => Waking(q))

LEMMA SidesKept ==
  BlockedKept <=> SideKept(RecvQueue, MsgQueueIsEmpty) /\ SideKept(SendQueue, MsgQueueIsFull)
BY DEF BlockedKept, SideKept

\* In a step of the guest threads, nobody new is about to sleep on a queue of a
\* message queue: only MsgQueueOp decides to.
LEMMA QueueSleepersStay ==
  ASSUME MessagesDisciplined, IInv, IInv', WaitInv, OnlyQueueSleeps', [Next]_vars,
         NEW q \in {SendQueue, RecvQueue}, AboutToSleep(q)'
  PROVE  AboutToSleep(q)
<1>1. DecidingNext /\ Disciplined
  BY DEF WaitInv, MessagesDisciplined
<1>2. q \in WaitQueue /\ q \notin Mutex /\ q \notin Thread
  BY MessageConstants, AddressesDistinct
<1>3. ~ NobodyDecides'
  BY NobodySleepsNext
<1>4. CASE Promote
  BY <1>1, <1>4, PromoteDecides
<1>5. CASE OSLockMutex
  <2>1. q = Arg /\ At({"OSLockMutex"})
    BY <1>1, <1>3, <1>5, LockDecides DEF OSLockMutex
  <2> QED  BY <1>2, <2>1, TopFacts, ArgFacts DEF Arg
<1>6. CASE OSJoinThread
  <2>1. q = Arg /\ At({"OSJoinThread"})
    BY <1>1, <1>3, <1>6, JoinDecides DEF OSJoinThread
  <2> QED  BY <1>2, <2>1, TopFacts, ArgFacts DEF Arg, ThreadCall
<1>7. CASE GuestCall
  <2>1. exec' = exec /\ \E c \in Frame : stack'[exec] = << c >>
    BY <1>1, <1>3, <1>7, GuestDecides
  <2>2. PICK c \in Frame : stack'[exec] = << c >>
    BY <2>1
  <2>3. /\ << c >> # << >> /\ Head(<< c >>) = c /\ Tail(<< c >>) = << >>
        /\ ToSet(<< c >>) = {c}
    BY DEF ToSet
  <2>4. c = Call("OSSleepThread", q)
    BY <2>1, <2>2, <2>3 DEF AboutToSleep
  <2>5. c.op = "OSSleepThread" /\ c.arg = q
    BY <2>4, FramesFacts
  <2>6. At({"OSSleepThread"})' /\ Arg' = q /\ Tail(stack'[exec']) = << >>
    BY <2>1, <2>2, <2>3, <2>5 DEF At, Arg
  <2> QED  BY <2>6 DEF OnlyQueueSleeps
<1>8. CASE UNCHANGED vars
  BY <1>8 DEF AboutToSleep, vars, fiberVars
<1> QED  BY <1>1, <1>3, <1>4, <1>5, <1>6, <1>7, <1>8, DecideSteps

\* So a side stays as it has to be while the messages stay as they are.
LEMMA SideStep ==
  ASSUME MessagesDisciplined, IInv, IInv', WaitInv, OnlyQueueSleeps', [Next]_vars,
         NEW q \in {SendQueue, RecvQueue}, NEW S, S \in BOOLEAN,
         AboutToSleep(q) => S, links.queue[q] # << >> /\ ~ S => Waking(q)
  PROVE  /\ AboutToSleep(q)' => S
         /\ links'.queue[q] # << >> /\ ~ S => Waking(q)'
<1>1. q \in WaitQueueId /\ q \in QueueId /\ q \notin Thread
  BY MessageConstants, AddressesDistinct, AddressFacts
<1>2. AboutToSleep(q)' => S
  BY QueueSleepersStay
<1>3. SUFFICES ASSUME links'.queue[q] # << >>, ~ S
               PROVE  Waking(q)'
  BY <1>2
<1>4. links'.queue[q] \in Seq(Thread)
  BY <1>1 DEF IInv, TypeOK
<1>5. PICK t : t \in In(links', q)
  BY <1>3, <1>4, ToSetEmpty DEF In
<1>6. t \in Thread
  <2>1. ToSet(links'.queue[q]) \subseteq Thread
    BY <1>4 DEF ToSet
  <2> QED  BY <1>5, <2>1 DEF In
<1>7. \/ state[t] = "waiting" /\ links.at[t] = q
      \/ At({"OSSleepThread"}) /\ Arg = q
  BY <1>1, <1>5, LinksStep DEF LinkStep, EnterStep
<1>8. ~ (At({"OSSleepThread"}) /\ Arg = q)
  BY <1>3, SleepsAbout
<1>9. t \in Members(q)
  BY <1>1, <1>6, <1>7, <1>8 DEF WaitInv, WaitersLinked
<1>10. links.queue[q] # << >>
  BY <1>9, ToSetEmpty DEF Members, ToSet
<1>11. Waking(q)
  BY <1>3, <1>10
<1> QED  BY <1>1, <1>10, <1>11, WakingStep

LEMMA BlockedStep ==
  ASSUME MessagesDisciplined, MessageTypeOK, IInv, IInv', WaitInv, BlockedKept,
         OnlyQueueSleeps', [MessageNext]_allVars
  PROVE  BlockedKept'
<1>1. DecidingNext
  BY DEF WaitInv
<1>2. /\ used \in Nat /\ Capacity \in Nat \ {0}
      /\ MsgQueueIsEmpty \in BOOLEAN /\ MsgQueueIsFull \in BOOLEAN
  BY CapacityType DEF MessageTypeOK, MsgQueueIsEmpty, MsgQueueIsFull
<1>3. CASE [Next]_vars /\ UNCHANGED used
  <2>1. /\ SideKept(RecvQueue, MsgQueueIsEmpty) /\ SideKept(SendQueue, MsgQueueIsFull)
    BY SidesKept
  <2>2. /\ AboutToSleep(RecvQueue)' => MsgQueueIsEmpty
        /\ links'.queue[RecvQueue] # << >> /\ ~ MsgQueueIsEmpty => Waking(RecvQueue)'
    BY <1>2, <1>3, <2>1, SideStep DEF SideKept
  <2>3. /\ AboutToSleep(SendQueue)' => MsgQueueIsFull
        /\ links'.queue[SendQueue] # << >> /\ ~ MsgQueueIsFull => Waking(SendQueue)'
    BY <1>2, <1>3, <2>1, SideStep DEF SideKept
  <2>4. MsgQueueIsEmpty' = MsgQueueIsEmpty /\ MsgQueueIsFull' = MsgQueueIsFull
    BY <1>3 DEF MsgQueueIsEmpty, MsgQueueIsFull
  <2> QED  BY <2>2, <2>3, <2>4 DEF BlockedKept
<1>4. CASE OSInitMessageQueue
  <2>1. /\ links'.queue[SendQueue] = << >> /\ links'.queue[RecvQueue] = << >>
        /\ stack'[exec'] = << >>
    BY <1>4 DEF OSInitMessageQueue, osVars, InGuestCode
  <2>2. \A q : ~ AboutToSleep(q)'
    BY <2>1 DEF AboutToSleep, ToSet
  <2> QED  BY <2>1, <2>2 DEF BlockedKept
<1>5. CASE GuestMessageCall
  <2>1. links' = links /\ used' = used /\ exec' = exec
    BY <1>5 DEF GuestMessageCall, osVars, messageVars, queueVars
  <2>2. (\A q : ~ Waking(q)) /\ (\A q : ~ AboutToSleep(q)')
    BY <1>1, <1>5, MessageCallDecides, UndecidedStay
  <2> QED  BY <2>1, <2>2 DEF BlockedKept, MsgQueueIsEmpty, MsgQueueIsFull
<1>6. CASE MsgQueueOp
  <2>1. links' = links /\ \A q : ~ Waking(q)
    BY <1>6, RoundLeads, RoundWakes DEF osVars
  <2>2. /\ links.queue[RecvQueue] # << >> => MsgQueueIsEmpty
        /\ links.queue[SendQueue] # << >> => MsgQueueIsFull
    BY <2>1 DEF BlockedKept
  <2>3. CASE UNCHANGED messageVars
    <3>1. MsgQueueIsEmpty' = MsgQueueIsEmpty /\ MsgQueueIsFull' = MsgQueueIsFull
      BY <2>3 DEF MsgQueueIsEmpty, MsgQueueIsFull, messageVars, queueVars
    <3>2. /\ AboutToSleep(RecvQueue)' => MsgQueueIsEmpty
          /\ AboutToSleep(SendQueue)' => MsgQueueIsFull
      <4>1. CASE NobodyDecides'
        BY <4>1, UndecidedStay
      <4>2. CASE \E r \in Request :
                   ~ MsgReady(r) /\ \A q : AboutToSleep(q)' => q = BlockQueue(r)
        BY <4>2, MessageConstants DEF MsgReady, BlockQueue
      <4> QED  BY <1>1, <1>6, <4>1, <4>2, RoundDecides
    <3> QED  BY <2>1, <2>2, <3>1, <3>2 DEF BlockedKept
  <2>4. CASE ~ UNCHANGED messageVars
    <3>1. PICK r \in Request : MsgReady(r) /\ MsgApply(r) /\ Waking(WakeQueue(r))'
      BY <1>6, <2>4, RoundWakes
    <3>2. \A q : ~ AboutToSleep(q)'
      BY <1>1, <1>6, <2>4, RoundDecides, UndecidedStay
    <3>3. CASE r.op = "OSReceiveMessage"
      <4>1. used' = used - 1 /\ used # 0 /\ Waking(SendQueue)'
        BY <3>1, <3>3 DEF MsgApply, MsgReady, MsgQueueDequeue, MsgQueueIsEmpty, WakeQueue
      <4>2. links.queue[RecvQueue] = << >>
        BY <2>2, <4>1 DEF MsgQueueIsEmpty
      <4> QED  BY <2>1, <3>2, <4>1, <4>2 DEF BlockedKept
    <3>4. CASE r.op # "OSReceiveMessage"
      <4>1. ~ MsgQueueIsFull /\ Waking(RecvQueue)'
        BY <3>1, <3>4 DEF MsgApply, MsgReady, WakeQueue
      <4>2. links.queue[SendQueue] = << >>
        BY <2>2, <4>1
      <4> QED  BY <2>1, <3>2, <4>1, <4>2 DEF BlockedKept
    <3> QED  BY <3>3, <3>4
  <2> QED  BY <2>3, <2>4
<1>7. CASE UNCHANGED allVars
  BY <1>3, <1>7 DEF allVars, messageVars, queueVars
<1>8. CASE OSStep
  BY <1>3, <1>8 DEF OSStep, messageVars, queueVars
<1> QED  BY <1>4, <1>5, <1>6, <1>7, <1>8 DEF MessageNext

-----------------------------------------------------------------------------
(* The theorems.                                                           *)

\* The indices stay within the array: os_message.cpp:62-112 never writes beside it.
THEOREM MessageTypesHold == MessageSpec => []MessageTypeOK
<1>1. MessageInit => MessageTypeOK
  BY InitIsEmpty
<1>2. MessageTypeOK /\ [MessageNext]_allVars => MessageTypeOK'
  BY StepIsEffect
<1> QED
  BY <1>1, <1>2, PTL DEF MessageSpec

\* The message queue of os_message.cpp implements the bounded FIFO queue.
THEOREM MessageQueueIsFifo == MessageSpec => ImplementsQueue
<1>1. MessageInit => Queue!Init
  BY InitIsEmpty
<1>2. MessageTypeOK /\ [MessageNext]_allVars => [Queue!Next]_<< Items, inbox >>
  BY StepIsEffect
<1> QED
  BY <1>1, <1>2, MessageTypesHold, PTL DEF MessageSpec, ImplementsQueue, Queue!Spec
\* The guest threads and the scheduler keep their inductive invariants while
\* threads and callbacks send and receive.
THEOREM SchedulerHoldsWithMessages ==
  ASSUME MessagesDisciplined
  PROVE  MessageSpec => [](IInv /\ WaitInv)
<1>1. MessageInit => IInv /\ WaitInv
  BY InitInvariant, InitWaits DEF MessageInit
<1>2. IInv /\ WaitInv /\ [MessageNext]_allVars => (IInv /\ WaitInv)'
  BY InvariantKept, WaitsKept
<1> QED  BY <1>1, <1>2, PTL DEF MessageSpec

\* No wakeup is lost: while a receiver is blocked and there is a message, or a
\* sender is blocked and there is space, os_message.cpp:134 is still waking them.
THEOREM BlockedAreWoken ==
  ASSUME MessagesDisciplined
  PROVE  MessageSpec /\ []OnlyQueueSleeps => []BlockedOnlyByQueue
<1>1. MessageInit => BlockedKept
  <2>1. SUFFICES ASSUME MessageInit PROVE BlockedKept
    OBVIOUS
  <2>2. \A q \in WaitQueue : links.queue[q] = << >> /\ ~ AboutToSleep(q)
    <3>1. \A t \in Thread : stack[t] = << >>
      BY <2>1 DEF MessageInit, Init
    <3>2. exec \in Thread /\ ToSet(<< >>) = {}
      BY <2>1, ConstantTypes DEF MessageInit, Init, ConstantTypes, ToSet
    <3> QED  BY <2>1, <3>1, <3>2, AddressFacts DEF MessageInit, Init, AboutToSleep
  <2> QED  BY <2>2, MessageConstants DEF BlockedKept
<1>2. /\ MessageTypeOK /\ IInv /\ IInv' /\ WaitInv /\ BlockedKept /\ OnlyQueueSleeps'
      /\ [MessageNext]_allVars
      => BlockedKept'
  BY BlockedStep
<1>3. IInv /\ BlockedKept => BlockedOnlyByQueue
  <2>1. SUFFICES ASSUME IInv, BlockedKept PROVE BlockedOnlyByQueue
    OBVIOUS
  <2>2. ASSUME NEW q \in WaitQueue, Waking(q)
        PROVE  \E op \in {"OSWakeupThread", "WakeupLinked"} : Pending(Call(op, q))
    <3>1. PICK op \in {"OSWakeupThread", "WakeupLinked"} :
            Head(stack[exec]).op = op /\ Head(stack[exec]).arg = q /\ stack[exec] # << >>
      BY <2>2 DEF Waking, At, Arg
    <3>2. Head(stack[exec]) = Call(op, q)
      <4>1. Head(stack[exec]) \in Frame
        BY <2>1, <3>1, BelowTop
      <4> QED  BY <3>1, <4>1 DEF Frame, Call, ThreadCall, QueueCall, MutexCall, PlainCall
    <3>3. Call(op, q) \in ToSet(stack[exec]) /\ exec \in Thread
      BY <2>1, <3>1, <3>2, ChainNow, ChainSets
    <3> QED  BY <3>3 DEF Pending
  <2> QED  BY <2>1, <2>2, MessageConstants DEF BlockedKept, BlockedOnlyByQueue
<1> QED
  BY <1>1, <1>2, <1>3, MessageTypesHold, SchedulerHoldsWithMessages, PTL DEF MessageSpec
=============================================================================
