--------------------------- MODULE ShipmentsProofs ---------------------------
(****************************************************************************)
(* What the shipments promise, for any number of overlapping requests, any  *)
(* clock, any widths of the number's fields and any number of crashes.      *)
(*                                                                          *)
(* The argument about files is that a creation in progress has its file to  *)
(* itself: no row and no other request names it, because the name is fresh  *)
(* and a deletion takes its name from a row.  So what a creation undoes is  *)
(* its own, and what a deletion removes was saved.  The argument about      *)
(* numbers is that the pair of millisecond and sequence grows.              *)
(****************************************************************************)
EXTENDS Shipments, TLAPS

CreationsApart ==
    \A r \in Callers : request[r].phase \in Creating =>
        /\ request[r].file \in files
        /\ request[r].file \notin RowFiles
        /\ \A s \in Callers \ {r} : request[s].file # request[r].file

RemovedIsGone ==
    \A r \in Callers : request[r].phase = "remove" => request[r].file \notin files

NamesCover ==
    /\ files \cup RowFiles \subseteq named
    /\ \A r \in Callers : request[r].phase # "idle" => request[r].file \in named

IInv ==
    /\ ShipmentsTypeOK
    /\ CreationsApart
    /\ RemovedIsGone
    /\ NamesCover
    /\ FilesHaveRows
    /\ RowsHaveFiles

(***************************** The generator ******************************)
LEMMA FollowingIs ==
    ASSUME NEW seq \in 0 .. MaxSequence
    PROVE  /\ Following(seq) \in 0 .. MaxSequence
           /\ Following(seq) # 0 => Following(seq) = seq + 1
           /\ Following(seq) = 0 => seq = MaxSequence
<1>1. MaxSequence \in Nat /\ seq \in Nat /\ seq <= MaxSequence
  BY FieldsFit
<1>2. CASE seq = MaxSequence
  <2>1. (MaxSequence + 1) % (MaxSequence + 1) = 0
    BY <1>1
  <2> QED BY <1>1, <1>2, <2>1 DEF Following
<1>3. CASE seq < MaxSequence
  <2>1. (seq + 1) % (MaxSequence + 1) = seq + 1
    BY <1>1, <1>3
  <2> QED BY <1>1, <1>3, <2>1 DEF Following
<1> QED BY <1>1, <1>2, <1>3

LEMMA NextMultiple ==
    ASSUME NEW a \in Int, NEW b \in Int, NEW k \in Nat \ {0}, a < b
    PROVE  a * k \in Int /\ b * k \in Int /\ a * k + k <= b * k
<1> DEFINE d == b - a - 1
<1>1. d \in Nat /\ b = a + d + 1
  OBVIOUS
<1>2. d * k \in Nat /\ a * k \in Int
  BY <1>1
<1>3. (a + d + 1) * k = a * k + d * k + k
  BY <1>1
<1> HIDE DEF d
<1> QED BY <1>1, <1>2, <1>3

(* Numbers are ordered by millisecond, then by sequence.                   *)
LEMMA NumberGrows ==
    ASSUME NEW m1 \in Int, NEW m2 \in Int,
           NEW s1 \in 0 .. MaxSequence, NEW s2 \in 0 .. MaxSequence,
           m1 < m2 \/ (m1 = m2 /\ s1 < s2)
    PROVE  /\ Number(m1, s1) \in Int /\ Number(m2, s2) \in Int
           /\ Number(m1, s1) < Number(m2, s2)
<1> DEFINE k == MaxSequence + 1
           a(m) == (m - Epoch) * Workers + Worker
<1>1. /\ Workers \in Nat \ {0} /\ k \in Nat \ {0} /\ Worker \in Nat /\ Epoch \in Int
      /\ s1 \in Nat /\ s2 \in Nat /\ s1 < k
  BY FieldsFit
<1>2. \A m \in Int : (m - Epoch) * Workers \in Int /\ a(m) \in Int
  BY <1>1
<1>3. \A x \in Int : x * k \in Int
  BY <1>1
<1>4. Number(m1, s1) = a(m1) * k + s1 /\ Number(m2, s2) = a(m2) * k + s2
  BY DEF Number
<1>5. CASE m1 = m2 /\ s1 < s2
  <2>1. a(m1) * k \in Int
    BY <1>2, <1>3
  <2> QED BY <2>1, <1>1, <1>4, <1>5
<1>6. CASE m1 < m2
  <2>1. (m1 - Epoch) * Workers + Workers <= (m2 - Epoch) * Workers
    <3>1. m1 - Epoch \in Int /\ m2 - Epoch \in Int /\ m1 - Epoch < m2 - Epoch
      BY <1>1, <1>6
    <3> QED BY <1>1, <3>1, NextMultiple
  <2>2. a(m1) < a(m2)
    BY <1>1, <1>2, <2>1
  <2>3. a(m1) * k \in Int /\ a(m2) * k \in Int /\ a(m1) * k + k <= a(m2) * k
    <3> HIDE DEF a, k
    <3> QED BY <1>1, <1>2, <2>2, NextMultiple
  <2> HIDE DEF a, k
  <2> QED BY <1>1, <1>4, <2>3
<1> QED BY <1>5, <1>6

LEMMA DrawTyped ==
    ASSUME GeneratorTypeOK, NEW c \in Callers, NextId(c) \/ Spin(c)
    PROVE  GeneratorTypeOK'
<1>1. Times \subseteq Nat /\ 0 \in 0 .. MaxSequence
  BY TimesAreNat, FieldsFit
<1>2. Following(sequence) \in 0 .. MaxSequence
  BY FollowingIs DEF GeneratorTypeOK
<1>3. CASE NextId(c)
  <2>1. CASE NextMillisecond(c)
    <3>1. Clamped \in Times
      BY <2>1, <1>1 DEF NextMillisecond, Clamped, GeneratorTypeOK
    <3>2. [ms |-> Clamped, seq |-> 0] \in Drawn
      BY <3>1, <1>1 DEF Drawn
    <3> QED BY <1>1, <1>3, <2>1, <3>1, <3>2 DEF NextId, NextMillisecond, Return,
         GeneratorTypeOK
  <2>2. CASE SameMillisecond(c)
    <3>1. [ms |-> lastMs, seq |-> Following(sequence)] \in Drawn
      BY <1>1, <1>2 DEF Drawn, GeneratorTypeOK
    <3> QED BY <1>2, <1>3, <2>2, <3>1 DEF NextId, SameMillisecond, Return, GeneratorTypeOK
  <2>3. CASE Exhausted(c)
    BY <1>1, <1>3, <2>3 DEF NextId, Exhausted, GeneratorTypeOK
  <2> QED BY <1>3, <2>1, <2>2, <2>3 DEF NextId
<1>4. CASE Spin(c)
  <2>1. [ms |-> clock, seq |-> sequence] \in Drawn
    BY <1>1 DEF Drawn, GeneratorTypeOK
  <2> QED BY <1>4, <2>1 DEF Spin, Return, GeneratorTypeOK
<1> QED BY <1>3, <1>4

(* Drawing a number is a Draw of Numbering, or, where a spin begins, a     *)
(* step nobody sees.                                                       *)
LEMMA DrawGrows ==
    ASSUME GeneratorTypeOK, NEW c \in Callers, NextId(c) \/ Spin(c)
    PROVE  LastNumber' = LastNumber \/ (LastNumber' \in Int /\ LastNumber' > LastNumber)
<1>1. /\ Times \subseteq Nat /\ lastMs \in Int /\ clock \in Int
      /\ sequence \in 0 .. MaxSequence /\ 0 \in 0 .. MaxSequence
      /\ MaxSequence \in 0 .. MaxSequence /\ None # c
  BY TimesAreNat, FieldsFit, NoneIsNoCaller DEF GeneratorTypeOK
<1>2. CASE NextId(c)
  <2>1. LastNumber = Number(lastMs, sequence)
    BY <1>2 DEF NextId, LastNumber
  <2>2. CASE NextMillisecond(c)
    <3>1. Clamped \in Int /\ lastMs < Clamped
      BY <1>1, <2>2 DEF NextMillisecond, Clamped
    <3>2. LastNumber' = Number(Clamped, 0)
      BY <1>2, <2>2 DEF NextId, NextMillisecond, Return, LastNumber, Number
    <3>3. Number(lastMs, sequence) < Number(Clamped, 0) /\ Number(Clamped, 0) \in Int
      BY <1>1, <3>1, NumberGrows
    <3>4. Number(lastMs, sequence) \in Int
      BY <1>1, <3>1, NumberGrows
    <3> QED BY <2>1, <3>2, <3>3, <3>4
  <2>3. CASE SameMillisecond(c)
    <3>1. /\ Following(sequence) \in 0 .. MaxSequence
          /\ sequence < Following(sequence)
      BY <1>1, <2>3, FollowingIs DEF SameMillisecond
    <3>2. LastNumber' = Number(lastMs, Following(sequence))
      BY <1>2, <2>3 DEF NextId, SameMillisecond, Return, LastNumber, Number
    <3>3. /\ Number(lastMs, sequence) < Number(lastMs, Following(sequence))
          /\ Number(lastMs, Following(sequence)) \in Int
          /\ Number(lastMs, sequence) \in Int
      BY <1>1, <3>1, NumberGrows
    <3> QED BY <2>1, <3>2, <3>3
  <2>4. CASE Exhausted(c)
    <3>1. sequence = MaxSequence
      BY <1>1, <2>4, FollowingIs DEF Exhausted
    <3>2. LastNumber' = Number(lastMs, MaxSequence)
      BY <1>1, <2>4 DEF Exhausted, LastNumber, Number
    <3> QED BY <2>1, <3>1, <3>2
  <2> QED BY <1>2, <2>2, <2>3, <2>4 DEF NextId
<1>3. CASE Spin(c)
  <2>1. LastNumber = Number(lastMs, MaxSequence)
    BY <1>1, <1>3 DEF Spin, LastNumber
  <2>2. LastNumber' = Number(clock, sequence)
    BY <1>3 DEF Spin, Return, LastNumber, Number
  <2>3. lastMs < clock
    BY <1>1, <1>3 DEF Spin, LeavesSpin
  <2>4. /\ Number(lastMs, MaxSequence) < Number(clock, sequence)
        /\ Number(clock, sequence) \in Int /\ Number(lastMs, MaxSequence) \in Int
    BY <1>1, <2>3, NumberGrows
  <2> QED BY <2>1, <2>2, <2>4
<1> QED BY <1>2, <1>3

(***************************** The requests *******************************)
LEMMA RequestIs ==
    ASSUME ShipmentsTypeOK, NEW r \in Callers
    PROVE  /\ request[r] \in Request
           /\ request[r].phase \in Phase
           /\ request[r].phase # "idle" => request[r].file \in Files
           /\ request[r].phase = "idle" => request[r] = Idle
           /\ Idle \in Request /\ Idle.phase = "idle" /\ Idle.file = None /\ None \notin Files
BY NoneIsNoFile DEF ShipmentsTypeOK, Request, Idle, Phase

LEMMA IdleIs == Idle \in Request /\ Idle.phase = "idle" /\ Idle.file = None
BY DEF Request, Idle

LEMMA SavedFiles ==
    ASSUME NEW r \in Callers, Save(r)
    PROVE  RowFiles' = RowFiles \cup {request[r].file}
<1> DEFINE new == [file |-> request[r].file, ms |-> drawn[r].ms, seq |-> drawn[r].seq]
<1>1. rows' = rows \cup {new} /\ new.file = request[r].file
  BY DEF Save
<1> HIDE DEF new
<1> QED BY <1>1 DEF RowFiles

LEMMA BeginCreateOK == ASSUME IInv, NEW r \in Callers, BeginCreate(r) PROVE IInv'
<1>1. ShipmentsTypeOK'
  BY DEF IInv, ShipmentsTypeOK, GeneratorTypeOK, Request, Phase, generatorVars, BeginCreate
<1>2. CreationsApart'
  BY RequestIs DEF IInv, CreationsApart, NamesCover, BeginCreate, RowFiles, FreshFile
<1>3. RemovedIsGone'
  BY DEF IInv, RemovedIsGone, NamesCover, BeginCreate, FreshFile
<1>4. NamesCover'
  BY DEF IInv, NamesCover, BeginCreate, RowFiles
<1>5. FilesHaveRows'
  BY DEF IInv, FilesHaveRows, ShipmentsTypeOK, BeginCreate, In, Creating, FilesOf, RowFiles
<1>6. RowsHaveFiles'
  BY DEF IInv, RowsHaveFiles, BeginCreate, In, FilesOf, RowFiles
<1> QED BY <1>1, <1>2, <1>3, <1>4, <1>5, <1>6 DEF IInv

LEMMA UploadedOK == ASSUME IInv, NEW r \in Callers, Uploaded(r) PROVE IInv'
<1>1. ShipmentsTypeOK'
  BY RequestIs DEF IInv, ShipmentsTypeOK, GeneratorTypeOK, Request, Phase, generatorVars, Uploaded,
       In, Goes
<1>2. CreationsApart'
  BY DEF IInv, CreationsApart, Uploaded, In, Goes, Creating, RowFiles
<1>3. RemovedIsGone'
  BY DEF IInv, RemovedIsGone, Uploaded, Goes
<1>4. NamesCover'
  BY DEF IInv, NamesCover, Uploaded, In, Goes, RowFiles
<1>5. FilesHaveRows'
  BY DEF IInv, FilesHaveRows, Uploaded, Goes, Creating, FilesOf, RowFiles
<1>6. RowsHaveFiles'
  BY DEF IInv, RowsHaveFiles, Uploaded, In, Goes, FilesOf, RowFiles
<1> QED BY <1>1, <1>2, <1>3, <1>4, <1>5, <1>6 DEF IInv

LEMMA UploadBreaksOK == ASSUME IInv, NEW r \in Callers, UploadBreaks(r) PROVE IInv'
<1>1. ShipmentsTypeOK'
  BY RequestIs DEF IInv, ShipmentsTypeOK, GeneratorTypeOK, generatorVars, UploadBreaks, In, Ends
<1>2. CreationsApart'
  BY RequestIs DEF IInv, CreationsApart, UploadBreaks, Ends, Creating, RowFiles
<1>3. RemovedIsGone'
  BY RequestIs DEF IInv, RemovedIsGone, UploadBreaks, Ends
<1>4. NamesCover'
  BY RequestIs DEF IInv, NamesCover, UploadBreaks, Ends, RowFiles
<1>5. FilesHaveRows'
  BY DEF IInv, FilesHaveRows, UploadBreaks, Ends, FilesOf, RowFiles
<1>6. RowsHaveFiles'
  BY DEF IInv, RowsHaveFiles, UploadBreaks, In, Ends, FilesOf, RowFiles
<1> QED BY <1>1, <1>2, <1>3, <1>4, <1>5, <1>6 DEF IInv

LEMMA DrawNumberOK == ASSUME IInv, NEW r \in Callers, DrawNumber(r) PROVE IInv'
<1>1. ShipmentsTypeOK'
  BY DrawTyped DEF IInv, ShipmentsTypeOK, storeVars, DrawNumber
<1>2. CreationsApart'
  BY DEF IInv, CreationsApart, storeVars, DrawNumber, RowFiles
<1>3. RemovedIsGone'
  BY DEF IInv, RemovedIsGone, storeVars, DrawNumber
<1>4. NamesCover'
  BY DEF IInv, NamesCover, storeVars, DrawNumber, RowFiles
<1>5. FilesHaveRows'
  BY DEF IInv, FilesHaveRows, storeVars, DrawNumber, FilesOf, RowFiles
<1>6. RowsHaveFiles'
  BY DEF IInv, RowsHaveFiles, storeVars, DrawNumber, FilesOf, RowFiles
<1> QED BY <1>1, <1>2, <1>3, <1>4, <1>5, <1>6 DEF IInv

LEMMA SaveOK == ASSUME IInv, NEW r \in Callers, Save(r) PROVE IInv'
<1>1. ShipmentsTypeOK'
  BY RequestIs DEF IInv, ShipmentsTypeOK, GeneratorTypeOK, Row, Drawn, Save, In, Ends
<1>2. CreationsApart'
  BY RequestIs DEF IInv, CreationsApart, ShipmentsTypeOK, Save, Ends, Creating, RowFiles
<1>3. RemovedIsGone'
  BY RequestIs DEF IInv, RemovedIsGone, Save, Ends
<1>4. NamesCover'
  BY RequestIs DEF IInv, NamesCover, Save, In, Ends, RowFiles
<1>5. FilesHaveRows'
  <2>1. RowFiles' = RowFiles \cup {request[r].file}
    BY SavedFiles
  <2>2. \A s \in Callers \ {r} : request'[s] = request[s]
    BY DEF Save, Ends
  <2> QED BY <2>1, <2>2 DEF Save, IInv, FilesHaveRows, FilesOf
<1>6. RowsHaveFiles'
  BY DEF IInv, RowsHaveFiles, CreationsApart, Save, In, Ends, Creating, FilesOf, RowFiles
<1> QED BY <1>1, <1>2, <1>3, <1>4, <1>5, <1>6 DEF IInv

LEMMA SaveFailsOK == ASSUME IInv, NEW r \in Callers, SaveFails(r) PROVE IInv'
<1>1. ShipmentsTypeOK'
  BY RequestIs DEF IInv, ShipmentsTypeOK, GeneratorTypeOK, Request, Phase, SaveFails, In, Goes
<1>2. CreationsApart'
  BY DEF IInv, CreationsApart, SaveFails, In, Goes, Creating, RowFiles
<1>3. RemovedIsGone'
  BY DEF IInv, RemovedIsGone, SaveFails, Goes
<1>4. NamesCover'
  BY DEF IInv, NamesCover, SaveFails, In, Goes, RowFiles
<1>5. FilesHaveRows'
  BY DEF IInv, FilesHaveRows, SaveFails, Goes, Creating, FilesOf, RowFiles
<1>6. RowsHaveFiles'
  BY DEF IInv, RowsHaveFiles, SaveFails, In, Goes, FilesOf, RowFiles
<1> QED BY <1>1, <1>2, <1>3, <1>4, <1>5, <1>6 DEF IInv

LEMMA UndoOK == ASSUME IInv, NEW r \in Callers, Undo(r) PROVE IInv'
<1>1. ShipmentsTypeOK'
  BY RequestIs DEF IInv, ShipmentsTypeOK, GeneratorTypeOK, generatorVars, Undo, Ends
<1>2. CreationsApart'
  BY RequestIs DEF IInv, CreationsApart, ShipmentsTypeOK, Undo, Ends, Creating, RowFiles
<1>3. RemovedIsGone'
  BY RequestIs DEF IInv, RemovedIsGone, Undo, Ends
<1>4. NamesCover'
  BY RequestIs DEF IInv, NamesCover, Undo, Ends, RowFiles
<1>5. FilesHaveRows'
  BY DEF IInv, FilesHaveRows, Undo, Ends, FilesOf, RowFiles
<1>6. RowsHaveFiles'
  BY DEF IInv, RowsHaveFiles, CreationsApart, Undo, In, Ends, Creating, FilesOf, RowFiles
<1> QED BY <1>1, <1>2, <1>3, <1>4, <1>5, <1>6 DEF IInv

LEMMA UndoFailsOK == ASSUME IInv, NEW r \in Callers, UndoFails(r) PROVE IInv'
<1>1. ShipmentsTypeOK'
  BY RequestIs DEF IInv, ShipmentsTypeOK, GeneratorTypeOK, generatorVars, UndoFails, In, Ends
<1>2. CreationsApart'
  BY RequestIs DEF IInv, CreationsApart, UndoFails, Ends, Creating, RowFiles
<1>3. RemovedIsGone'
  BY RequestIs DEF IInv, RemovedIsGone, UndoFails, Ends
<1>4. NamesCover'
  BY RequestIs DEF IInv, NamesCover, UndoFails, Ends, RowFiles
<1>5. FilesHaveRows'
  BY DEF IInv, FilesHaveRows, UndoFails, Ends, FilesOf, RowFiles
<1>6. RowsHaveFiles'
  BY DEF IInv, RowsHaveFiles, UndoFails, In, Ends, FilesOf, RowFiles
<1> QED BY <1>1, <1>2, <1>3, <1>4, <1>5, <1>6 DEF IInv

LEMMA BeginDeleteOK == ASSUME IInv, NEW r \in Callers, BeginDelete(r) PROVE IInv'
<1>1. ShipmentsTypeOK'
  BY DEF IInv, ShipmentsTypeOK, GeneratorTypeOK, Request, Phase, generatorVars, Row, BeginDelete,
       RowFiles
<1>2. CreationsApart'
  BY DEF IInv, CreationsApart, BeginDelete, Creating, RowFiles
<1>3. RemovedIsGone'
  BY DEF IInv, RemovedIsGone, BeginDelete
<1>4. NamesCover'
  BY DEF IInv, NamesCover, BeginDelete, RowFiles
<1>5. FilesHaveRows'
  BY DEF IInv, FilesHaveRows, BeginDelete, In, Creating, FilesOf, RowFiles
<1>6. RowsHaveFiles'
  BY DEF IInv, RowsHaveFiles, BeginDelete, In, FilesOf, RowFiles
<1> QED BY <1>1, <1>2, <1>3, <1>4, <1>5, <1>6 DEF IInv

LEMMA UnlinkOK == ASSUME IInv, NEW r \in Callers, Unlink(r) PROVE IInv'
<1>1. ShipmentsTypeOK'
  BY RequestIs DEF IInv, ShipmentsTypeOK, GeneratorTypeOK, Request, Phase, generatorVars, Unlink, In,
       Goes
<1>2. CreationsApart'
  BY DEF IInv, CreationsApart, Unlink, In, Goes, Creating, RowFiles
<1>3. RemovedIsGone'
  BY DEF IInv, RemovedIsGone, Unlink, Goes
<1>4. NamesCover'
  BY DEF IInv, NamesCover, Unlink, In, Goes, RowFiles
<1>5. FilesHaveRows'
  BY DEF IInv, FilesHaveRows, Unlink, Goes, FilesOf, RowFiles
<1>6. RowsHaveFiles'
  BY DEF IInv, RowsHaveFiles, ShipmentsTypeOK, Unlink, Goes, FilesOf, RowFiles
<1> QED BY <1>1, <1>2, <1>3, <1>4, <1>5, <1>6 DEF IInv

LEMMA UnlinkFailsOK == ASSUME IInv, NEW r \in Callers, UnlinkFails(r) PROVE IInv'
<1>1. ShipmentsTypeOK'
  BY RequestIs DEF IInv, ShipmentsTypeOK, GeneratorTypeOK, generatorVars, UnlinkFails, In, Ends
<1>2. CreationsApart'
  BY RequestIs DEF IInv, CreationsApart, UnlinkFails, Ends, Creating, RowFiles
<1>3. RemovedIsGone'
  BY RequestIs DEF IInv, RemovedIsGone, UnlinkFails, Ends
<1>4. NamesCover'
  BY RequestIs DEF IInv, NamesCover, UnlinkFails, Ends, RowFiles
<1>5. FilesHaveRows'
  BY DEF IInv, FilesHaveRows, UnlinkFails, In, Ends, Creating, FilesOf, RowFiles
<1>6. RowsHaveFiles'
  BY DEF IInv, RowsHaveFiles, UnlinkFails, In, Ends, FilesOf, RowFiles
<1> QED BY <1>1, <1>2, <1>3, <1>4, <1>5, <1>6 DEF IInv

LEMMA RemoveOK == ASSUME IInv, NEW r \in Callers, Remove(r) PROVE IInv'
<1>1. ShipmentsTypeOK'
  BY RequestIs DEF IInv, ShipmentsTypeOK, GeneratorTypeOK, generatorVars, Remove, Ends
<1>2. CreationsApart'
  BY RequestIs DEF IInv, CreationsApart, Remove, Ends, Creating, RowFiles
<1>3. RemovedIsGone'
  BY RequestIs DEF IInv, RemovedIsGone, Remove, Ends
<1>4. NamesCover'
  BY RequestIs DEF IInv, NamesCover, Remove, Ends, RowFiles
<1>5. FilesHaveRows'
  BY DEF IInv, FilesHaveRows, RemovedIsGone, Remove, In, Ends, FilesOf, RowFiles
<1>6. RowsHaveFiles'
  BY DEF IInv, RowsHaveFiles, Remove, Ends, FilesOf, RowFiles
<1> QED BY <1>1, <1>2, <1>3, <1>4, <1>5, <1>6 DEF IInv

LEMMA RemoveFailsOK == ASSUME IInv, NEW r \in Callers, RemoveFails(r) PROVE IInv'
<1>1. ShipmentsTypeOK'
  BY RequestIs DEF IInv, ShipmentsTypeOK, GeneratorTypeOK, generatorVars, RemoveFails, In, Ends
<1>2. CreationsApart'
  BY RequestIs DEF IInv, CreationsApart, RemoveFails, Ends, Creating, RowFiles
<1>3. RemovedIsGone'
  BY RequestIs DEF IInv, RemovedIsGone, RemoveFails, Ends
<1>4. NamesCover'
  BY RequestIs DEF IInv, NamesCover, RemoveFails, Ends, RowFiles
<1>5. FilesHaveRows'
  BY DEF IInv, FilesHaveRows, RemoveFails, In, Ends, Creating, FilesOf, RowFiles
<1>6. RowsHaveFiles'
  BY DEF IInv, RowsHaveFiles, RemoveFails, Ends, FilesOf, RowFiles
<1> QED BY <1>1, <1>2, <1>3, <1>4, <1>5, <1>6 DEF IInv

LEMMA CrashOK == ASSUME IInv, Crash PROVE IInv'
<1>1. ShipmentsTypeOK'
  <2>1. FilesOf(Creating) \subseteq Files /\ FilesOf({"remove"}) \subseteq Files
    BY RequestIs DEF IInv, FilesOf, Creating
  <2>2. GeneratorTypeOK'
    BY FieldsFit DEF IInv, ShipmentsTypeOK, GeneratorTypeOK, Crash, NewGenerator
  <2> QED BY <2>1, <2>2, IdleIs, BootsBound DEF IInv, ShipmentsTypeOK, Crash
<1>2. \A r \in Callers : request'[r] = Idle
  BY DEF Crash
<1>3. CreationsApart' /\ RemovedIsGone' /\ NamesCover'
  BY <1>2 DEF IInv, CreationsApart, RemovedIsGone, NamesCover, Creating, Idle, Crash,
       RowFiles
<1>4. FilesHaveRows' /\ RowsHaveFiles'
  BY DEF IInv, FilesHaveRows, RowsHaveFiles, Crash, RowFiles
<1> QED BY <1>1, <1>3, <1>4 DEF IInv

LEMMA TickOK == ASSUME IInv, Tick PROVE IInv'
<1>1. ShipmentsTypeOK'
  BY DEF IInv, ShipmentsTypeOK, GeneratorTypeOK, Tick, ClockJumps, storeVars
<1> QED BY <1>1 DEF IInv, CreationsApart, RemovedIsGone, NamesCover, FilesHaveRows,
                    RowsHaveFiles, FilesOf, RowFiles, Tick, storeVars

LEMMA InitOK == ASSUME Init PROVE IInv
<1>1. ShipmentsTypeOK
  BY FieldsFit, TimesAreNat, BootsBound DEF Init, GeneratorInit, ShipmentsTypeOK, GeneratorTypeOK,
       Request
<1> QED BY <1>1 DEF Init, IInv, CreationsApart, RemovedIsGone, NamesCover, FilesHaveRows,
                    RowsHaveFiles, Creating, RowFiles, Idle

(***************************** The theorems *******************************)
(* The inductive invariant: a creation in progress has its file to itself, *)
(* a removed file stays away, and all names in use were given.             *)
THEOREM Invariance == Spec => []IInv
<1>1. Init => IInv
  BY InitOK
<1>2. IInv /\ [Next]_vars => IInv'
  <2> SUFFICES ASSUME IInv, [Next]_vars PROVE IInv'
    OBVIOUS
  <2>1. CASE UNCHANGED vars
    BY <2>1 DEF vars, generatorVars, storeVars, IInv, ShipmentsTypeOK, GeneratorTypeOK,
         CreationsApart,
                RemovedIsGone, NamesCover, FilesHaveRows, RowsHaveFiles, FilesOf, RowFiles
  <2>2. ASSUME NEW r \in Callers, Handle(r) PROVE IInv'
    BY <2>2, BeginCreateOK, UploadedOK, UploadBreaksOK, DrawNumberOK, SaveOK, SaveFailsOK,
       UndoOK, UndoFailsOK, BeginDeleteOK, UnlinkOK, UnlinkFailsOK, RemoveOK, RemoveFailsOK
       DEF Handle
  <2> QED BY <2>1, <2>2, CrashOK, TickOK DEF Next
<1> QED BY <1>1, <1>2, PTL DEF Spec

(* The generator, the tables, the directory and the requests keep their    *)
(* types.                                                                  *)
THEOREM TypeCorrect == Spec => []ShipmentsTypeOK
BY Invariance, PTL DEF IInv

(* Neither CreateAsync nor DeleteAsync leaves a file without a row, unless *)
(* the process died, the upload broke off, or the storage refused.         *)
THEOREM NoOrphans == Spec => []FilesHaveRows
BY Invariance, PTL DEF IInv

(* A row has its file, unless its deletion is in progress or was cut off.  *)
THEOREM NoBrokenPictures == Spec => []RowsHaveFiles
BY Invariance, PTL DEF IInv

(* The generator implements Numbering: numbers drawn by one process        *)
(* increase, whatever the clock does and whoever draws.                    *)
THEOREM Numbers == Spec => NumbersIncrease
<1>1. Init => N!NumberingInit
  <2> SUFFICES ASSUME Init PROVE N!NumberingInit
    OBVIOUS
  <2>1. LastNumber = Number(-1, 0)
    BY DEF Init, GeneratorInit, LastNumber
  <2>2. 0 \in 0 .. MaxSequence
    BY FieldsFit
  <2>3. Number(-1, 0) \in Int
    BY <2>2, NumberGrows
  <2> QED BY <2>1, <2>3 DEF Init, N!NumberingInit
<1>2. IInv /\ [Next]_vars => [N!NumberingNext]_(N!NumberingVars)
  <2> SUFFICES ASSUME IInv, [Next]_vars PROVE [N!NumberingNext]_(N!NumberingVars)
    OBVIOUS
  <2> USE DEF N!NumberingVars, N!NumberingNext
  <2>1. ASSUME NEW r \in Callers, DrawNumber(r) PROVE [N!NumberingNext]_(N!NumberingVars)
    <3>1. NextId(r) \/ Spin(r)
      BY <2>1 DEF DrawNumber
    <3>2. LastNumber' = LastNumber \/ (LastNumber' \in Int /\ LastNumber' > LastNumber)
      BY <3>1, DrawGrows DEF IInv, ShipmentsTypeOK
    <3> QED BY <2>1, <3>2 DEF DrawNumber, N!Draw
  <2>2. CASE Crash
    <3>1. LastNumber' = Number(-1, 0)
      BY <2>2 DEF Crash, NewGenerator, LastNumber, Number
    <3>2. 0 \in 0 .. MaxSequence
      BY FieldsFit
    <3>3. Number(-1, 0) \in Int
      BY <3>2, NumberGrows
    <3> QED BY <2>2, <3>1, <3>3 DEF Crash, N!NewEra
  <2>3. ASSUME UNCHANGED <<boots, lastMs, sequence, spinner>>
        PROVE  UNCHANGED N!NumberingVars
    BY <2>3 DEF LastNumber, Number
  <2>4. ASSUME NEW r \in Callers, Handle(r), ~DrawNumber(r)
        PROVE  UNCHANGED <<boots, lastMs, sequence, spinner>>
    BY <2>4 DEF Handle, BeginCreate, Uploaded, UploadBreaks, Save, SaveFails, Undo, UndoFails,
                BeginDelete, Unlink, UnlinkFails, Remove, RemoveFails, generatorVars
  <2>5. CASE Tick
    BY <2>3, <2>5 DEF Tick, ClockJumps
  <2>6. CASE UNCHANGED vars
    BY <2>3, <2>6 DEF vars, generatorVars
  <2> QED BY <2>1, <2>2, <2>3, <2>4, <2>5, <2>6 DEF Next
<1> QED BY <1>1, <1>2, Invariance, PTL DEF Spec, NumbersIncrease, N!NumberingSpec

(* The two stores implement ShipmentAlbum: a picture is put up by the save *)
(* of its row, whole, and taken down by the removal of its file, for good. *)
THEOREM Album == Spec => PicturesStay
<1>1. Init => A!AlbumInit
  BY DEF Init, A!AlbumInit, RowFiles
<1>2. IInv /\ [Next]_vars => [A!AlbumNext]_(A!albumVars)
  <2> SUFFICES ASSUME IInv, [Next]_vars PROVE [A!AlbumNext]_(A!albumVars)
    OBVIOUS
  <2> USE DEF A!albumVars, A!AlbumNext
  <2> DEFINE Shown == RowFiles \cap files
             Past == named \ files
  <2>1. ASSUME UNCHANGED <<rows, files, named>> PROVE UNCHANGED A!albumVars
    BY <2>1 DEF RowFiles
  <2>2. ASSUME NEW r \in Callers, BeginCreate(r) PROVE UNCHANGED A!albumVars
    BY <2>2 DEF BeginCreate, FreshFile, IInv, NamesCover, RowFiles
  <2>3. ASSUME NEW r \in Callers, Save(r) PROVE A!AlbumNext
    <3>1. RowFiles' = RowFiles \cup {request[r].file}
      BY <2>3, SavedFiles
    <3>2. request[r].file \in Files \cap files /\ request[r].file \notin RowFiles
      BY <2>3, RequestIs DEF Save, In, IInv, CreationsApart, Creating
    <3> QED BY <2>3, <3>1, <3>2 DEF Save, A!PutUp
  <2>4. ASSUME NEW r \in Callers, Undo(r) PROVE A!AlbumNext
    <3>1. /\ request[r].file \in Files \cap files /\ request[r].file \notin RowFiles
          /\ request[r].file \in named
      BY <2>4, RequestIs DEF Undo, In, IInv, CreationsApart, Creating, NamesCover
    <3>2. RowFiles' = RowFiles
      BY <2>4 DEF Undo, RowFiles
    <3> QED BY <2>4, <3>1, <3>2 DEF Undo, A!TakeDown
  <2>5. ASSUME NEW r \in Callers, Unlink(r) PROVE [A!AlbumNext]_(A!albumVars)
    <3>1. request[r].file \in Files /\ request[r].file \in named
      BY <2>5, RequestIs DEF Unlink, In, IInv, NamesCover
    <3>2. RowFiles' = RowFiles
      BY <2>5 DEF Unlink, RowFiles
    <3>3. CASE request[r].file \in files
      BY <2>5, <3>1, <3>2, <3>3 DEF Unlink, A!TakeDown
    <3>4. CASE request[r].file \notin files
      BY <2>1, <2>5, <3>4 DEF Unlink
    <3> QED BY <3>3, <3>4
  <2>6. ASSUME NEW r \in Callers, Remove(r) PROVE UNCHANGED A!albumVars
    <3>1. request[r].file \notin files
      BY <2>6 DEF Remove, In, IInv, RemovedIsGone
    <3>2. RowFiles' = RowFiles \ {request[r].file}
      BY <2>6 DEF Remove, RowFiles
    <3> QED BY <2>6, <3>1, <3>2 DEF Remove
  <2>7. ASSUME NEW r \in Callers,
               \/ Uploaded(r) \/ UploadBreaks(r) \/ DrawNumber(r)
               \/ SaveFails(r) \/ UndoFails(r) \/ BeginDelete(r)
               \/ UnlinkFails(r) \/ RemoveFails(r)
        PROVE  UNCHANGED <<rows, files, named>>
    BY <2>7 DEF Uploaded, UploadBreaks, DrawNumber, SaveFails, UndoFails, BeginDelete,
         UnlinkFails, RemoveFails, storeVars
  <2>8. CASE Crash \/ Tick \/ UNCHANGED vars
    BY <2>1, <2>8 DEF Crash, Tick, vars, storeVars
  <2> QED BY <2>1, <2>2, <2>3, <2>4, <2>5, <2>6, <2>7, <2>8 DEF Next, Handle
<1> QED BY <1>1, <1>2, Invariance, PTL DEF Spec, PicturesStay, A!AlbumSpec
=============================================================================
