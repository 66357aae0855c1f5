-------------------------- MODULE TranscriptProofs --------------------------
(* Theorems about Transcript: the file implements the abstract store.      *)
EXTENDS Transcript, TLAPS

(* The circumstances under which it does: one writer at a time, and rows   *)
(* in ASCII (two runs of TLC show what other rows can lead to).            *)
Sheltered == Exclusive = TRUE /\ NonAscii = {}

(* At most one writer is inside append_transcript.                         *)
SoleWriter == \A u, w \in Writers : pc[u] # "idle" /\ pc[w] # "idle" => u = w

(* What the one that has looked saw at the end of the file still holds.    *)
SawEnd == \A w \in Writers : pc[w] = "looked" => (needs_nl[w] <=> Torn)

NoneCut == tail # Cut /\ \A i \in DOMAIN lines : lines[i] # Cut

IInv == TypeOK /\ SoleWriter /\ SawEnd /\ NoneCut

-----------------------------------------------------------------------------
(* Appending a line that parses sets its key; any other line is not seen.  *)

LEMMA LatestOfRow ==
  ASSUME NEW t \in Seq(Text), NEW r \in Rows, NEW k \in Keys, r.val \notin Splitting
  PROVE  Latest(Append(t, r), k) = IF k = r.key THEN r.val ELSE Latest(t, k)
<1> DEFINE s == Append(t, r)
<1> DEFINE n == Len(t) + 1
<1>1. /\ Len(t) \in Nat /\ DOMAIN t = 1 .. Len(t)
      /\ DOMAIN s = 1 .. n /\ s[n] = r
      /\ \A i \in 1 .. Len(t) : s[i] = t[i]
  <2>1. r \in Text
    BY DEF Text
  <2> QED BY <2>1
<1>2. Parses(r) /\ r.val \in Values
  BY DEF Parses, Rows
<1>3. CASE k = r.key
  <2>1. n \in Having(s, k)
    BY <1>1, <1>2, <1>3 DEF Having
  <2>2. \A j \in Having(s, k) : j <= n
    BY <1>1 DEF Having
  <2>3. \A i \in Having(s, k) : (\A j \in Having(s, k) : j <= i) => i = n
    BY <1>1, <2>1, <2>2 DEF Having
  <2>4. LastOf(s, k) = {r.val}
    BY <1>1, <2>1, <2>2, <2>3 DEF LastOf
  <2>5. Having(s, k) # {}
    BY <2>1
  <2> QED BY <1>3, <2>4, <2>5 DEF Latest
<1>4. CASE k # r.key
  <2>1. Having(s, k) = Having(t, k)
    BY <1>1, <1>4 DEF Having
  <2>2. \A i \in Having(t, k) : s[i] = t[i]
    BY <1>1 DEF Having
  <2>3. LastOf(s, k) = LastOf(t, k)
    BY <2>1, <2>2 DEF LastOf
  <2> QED BY <1>4, <2>1, <2>3 DEF Latest
<1> QED BY <1>3, <1>4

LEMMA LatestOfOther ==
  ASSUME NEW t \in Seq(Text), NEW x \in Text, NEW k \in Keys, ~Parses(x)
  PROVE  Latest(Append(t, x), k) = Latest(t, k)
<1> DEFINE s == Append(t, x)
<1>1. /\ Len(t) \in Nat /\ DOMAIN t = 1 .. Len(t)
      /\ DOMAIN s = 1 .. (Len(t) + 1) /\ s[Len(t) + 1] = x
      /\ \A i \in 1 .. Len(t) : s[i] = t[i]
  OBVIOUS
<1>2. Having(s, k) = Having(t, k)
  BY <1>1 DEF Having
<1>3. \A i \in Having(t, k) : s[i] = t[i]
  BY <1>1 DEF Having
<1>4. LastOf(s, k) = LastOf(t, k)
  BY <1>2, <1>3 DEF LastOf
<1> QED BY <1>2, <1>4 DEF Latest

-----------------------------------------------------------------------------
(* The invariant.                                                          *)

LEMMA ClosedType ==
  ASSUME TypeOK, NEW w \in Writers
  PROVE  Closed(w) \in Seq(Text)
BY DEF Closed, TypeOK

LEMMA JoinedType ==
  ASSUME TypeOK, NEW w \in Writers, NEW x \in Text
  PROVE  Joined(w, x) \in Text
BY DEF Joined, TypeOK, Text

LEMMA PiecesType ==
  ASSUME NEW r \in Rows
  PROVE  Pieces(r) \subseteq Text
BY DEF Pieces, Text

(* Init and each step keep the types.                                      *)
LEMMA TypeInit == Init => TypeOK
BY DEF Init, TypeOK, Text

LEMMA TypeNext == TypeOK /\ [Next]_vars => TypeOK'
<1> SUFFICES ASSUME TypeOK, [Next]_vars PROVE TypeOK'
  OBVIOUS
<1>1. ASSUME NEW w \in Writers, NEW r \in Rows, Look(w, r) PROVE TypeOK'
  BY <1>1 DEF Look, TypeOK, Torn
<1>2. ASSUME NEW w \in Writers, Write(w) PROVE TypeOK'
  <2>1. row[w] \in Text
    BY DEF TypeOK, Text
  <2>2. lines' \in Seq(Text) /\ tail' \in Text
    BY <1>2, <2>1, ClosedType, JoinedType DEF Write, Text
  <2> QED BY <1>2, <2>2 DEF Write, TypeOK
<1>3. ASSUME NEW w \in Writers, Tear(w) PROVE TypeOK'
  <2>1. PICK x \in Pieces(row[w]) : tail' = Joined(w, x)
    BY <1>3 DEF Tear
  <2>2. x \in Text
    BY PiecesType DEF TypeOK
  <2>3. lines' \in Seq(Text) /\ tail' \in Text
    BY <1>3, <2>1, <2>2, ClosedType, JoinedType DEF Tear
  <2> QED BY <1>3, <2>3 DEF Tear, TypeOK
<1>4. ASSUME NEW w \in Writers, Return(w) PROVE TypeOK'
  BY <1>4 DEF Return, TypeOK
<1>5. ASSUME NEW w \in Writers, Crash(w) PROVE TypeOK'
  BY <1>5 DEF Crash, TypeOK
<1>6. CASE UNCHANGED vars
  BY <1>6 DEF vars, TypeOK
<1> QED BY <1>1, <1>2, <1>3, <1>4, <1>5, <1>6 DEF Next

(* Every reachable state is well typed: the file is lines of text, each    *)
(* writer is at one of its three places (append_transcript).               *)
THEOREM TypeCorrect == Spec => []TypeOK
BY TypeInit, TypeNext, PTL DEF Spec

(* One writer at a time, and what it saw of the file's end still holds.    *)
LEMMA EndInit == Init => SoleWriter /\ SawEnd /\ NoneCut
BY TranscriptAssumption DEF Init, SoleWriter, SawEnd, NoneCut, TranscriptAssumption

LEMMA EndNext ==
  ASSUME Exclusive = TRUE
  PROVE  TypeOK /\ SoleWriter /\ SawEnd /\ [Next]_vars => (SoleWriter /\ SawEnd)'
<1> SUFFICES ASSUME TypeOK, SoleWriter, SawEnd, [Next]_vars
             PROVE  (SoleWriter /\ SawEnd)'
  OBVIOUS
<1> USE DEF TypeOK
<1>1. ASSUME NEW w \in Writers, NEW r \in Rows, Look(w, r)
      PROVE  (SoleWriter /\ SawEnd)'
  <2>1. \A u \in Writers : pc[u] = "idle"
    BY <1>1 DEF Look
  <2>2. pc' = [pc EXCEPT ![w] = "looked"] /\ tail' = tail
        /\ needs_nl' = [needs_nl EXCEPT ![w] = Torn]
    BY <1>1 DEF Look
  <2>3. \A u \in Writers : pc'[u] # "idle" => u = w
    BY <2>1, <2>2
  <2>4. needs_nl'[w] <=> Torn'
    BY <2>2 DEF Torn
  <2> QED BY <2>3, <2>4 DEF SoleWriter, SawEnd
<1>2. ASSUME NEW w \in Writers, Write(w) \/ Tear(w)
      PROVE  (SoleWriter /\ SawEnd)'
  <2>1. \A u \in Writers : pc[u] # "idle" => u = w
    BY <1>2 DEF Write, Tear, SoleWriter
  <2>2. \A u \in Writers : pc'[u] # "idle" => u = w
    BY <1>2, <2>1 DEF Write, Tear
  <2>3. pc'[w] # "looked"
    BY <1>2 DEF Write, Tear
  <2> QED BY <2>2, <2>3 DEF SoleWriter, SawEnd
<1>3. ASSUME NEW w \in Writers, Return(w) \/ Crash(w)
      PROVE  (SoleWriter /\ SawEnd)'
  <2>1. /\ pc' = [pc EXCEPT ![w] = "idle"]
        /\ tail' = tail /\ needs_nl' = needs_nl
    BY <1>3 DEF Return, Crash
  <2> QED BY <2>1 DEF SoleWriter, SawEnd, Torn
<1>4. CASE UNCHANGED vars
  BY <1>4 DEF vars, SoleWriter, SawEnd, Torn
<1> QED BY <1>1, <1>2, <1>3, <1>4 DEF Next

(* With rows in ASCII no write is cut inside a character.                  *)
LEMMA CutNext ==
  ASSUME NonAscii = {}
  PROVE  TypeOK /\ NoneCut /\ [Next]_vars => NoneCut'
<1> SUFFICES ASSUME TypeOK, NoneCut, [Next]_vars PROVE NoneCut'
  OBVIOUS
<1>1. ASSUME NEW w \in Writers
      PROVE  /\ Closed(w) \in Seq(Text)
             /\ \A i \in DOMAIN Closed(w) : Closed(w)[i] # Cut
             /\ \A x \in Text \ {Cut} : Joined(w, x) \in Text \ {Cut}
  <2>1. lines \in Seq(Text) /\ tail \in Text /\ tail # Cut
    BY DEF TypeOK, NoneCut
  <2>2. \A i \in DOMAIN Append(lines, tail) : Append(lines, tail)[i] # Cut
    BY <2>1 DEF NoneCut
  <2>3. \A i \in DOMAIN Closed(w) : Closed(w)[i] # Cut
    BY <2>2 DEF Closed, NoneCut
  <2>4. \A x \in Text \ {Cut} : Joined(w, x) \in Text \ {Cut}
    BY <2>1, TranscriptAssumption DEF Joined, TranscriptAssumption, Text
  <2> QED BY <2>3, <2>4, ClosedType
<1>2. \A r \in Rows : r \in Text /\ r # Cut
  BY TranscriptAssumption DEF TranscriptAssumption, Text
<1>3. ASSUME NEW w \in Writers, Write(w) PROVE NoneCut'
  <2>1. row[w] \in Rows
    BY DEF TypeOK
  <2>2. Joined(w, row[w]) \in Text \ {Cut}
    BY <1>1, <1>2, <2>1
  <2>3. lines' = Append(Closed(w), Joined(w, row[w])) /\ tail' = Blank
    BY <1>3 DEF Write
  <2>4. \A i \in DOMAIN lines' : lines'[i] # Cut
    BY <1>1, <2>2, <2>3
  <2> QED BY <2>3, <2>4, TranscriptAssumption DEF NoneCut, TranscriptAssumption
<1>4. ASSUME NEW w \in Writers, Tear(w) PROVE NoneCut'
  <2>1. PICK x \in Pieces(row[w]) : tail' = Joined(w, x)
    BY <1>4 DEF Tear
  <2>2. x \in Text \ {Cut}
    BY <1>2, TranscriptAssumption DEF Pieces, TypeOK, Text, TranscriptAssumption
  <2>3. lines' = Closed(w)
    BY <1>4 DEF Tear
  <2> QED BY <1>1, <2>1, <2>2, <2>3 DEF NoneCut
<1>5. (\E w \in Writers : (\E r \in Rows : Look(w, r)) \/ Return(w) \/ Crash(w))
        => NoneCut'
  BY DEF Look, Return, Crash, NoneCut
<1>6. CASE UNCHANGED vars
  BY <1>6 DEF vars, NoneCut
<1> QED BY <1>3, <1>4, <1>5, <1>6 DEF Next

-----------------------------------------------------------------------------
(* The mapping.                                                            *)

LEMMA ReadableContent ==
  ASSUME TypeOK, NoneCut
  PROVE  Content = [k \in Keys |-> Latest(File, k)]
<1>1. Readable
  BY DEF TypeOK, NoneCut, Readable, File
<1> QED BY <1>1 DEF Content

LEMMA NextReadableContent ==
  ASSUME TypeOK', NoneCut'
  PROVE  Content' = [k \in Keys |-> Latest(File', k)]
<1>1. Readable'
  BY DEF TypeOK, NoneCut, Readable, File
<1> QED BY <1>1 DEF Content

(* An append that saw the file's end right keeps what is there readable... *)
LEMMA ClosedKeeps ==
  ASSUME TypeOK, SawEnd, NEW w \in Writers, pc[w] = "looked"
  PROVE  /\ Closed(w) \in Seq(Text)
         /\ \A k \in Keys : Latest(Closed(w), k) = Latest(File, k)
         /\ \A x : Joined(w, x) = x
<1>1. lines \in Seq(Text) /\ Blank \in Text /\ ~Parses(Blank)
  BY TranscriptAssumption DEF TypeOK, Text, Parses, TranscriptAssumption
<1>2. CASE needs_nl[w]
  BY <1>2, ClosedType DEF Closed, Joined, File
<1>3. CASE ~needs_nl[w]
  <2>1. tail = Blank
    BY <1>3 DEF SawEnd, Torn
  <2>2. \A k \in Keys : Latest(Append(lines, Blank), k) = Latest(lines, k)
    BY <1>1, LatestOfOther
  <2> QED BY <1>3, <2>1, <2>2, ClosedType DEF Closed, Joined, File
<1> QED BY <1>2, <1>3

(* ... and the row it writes is read from then on.                         *)
LEMMA WriteApplies ==
  ASSUME IInv, Splitting = {}, NEW w \in Writers, Write(w), NoneCut', TypeOK'
  PROVE  Content' = [Content EXCEPT ![row[w].key] = row[w].val]
<1> DEFINE r == row[w]
<1>1. r \in Rows /\ r \in Text /\ Blank \in Text /\ ~Parses(Blank)
  BY TranscriptAssumption DEF IInv, TypeOK, Text, Parses, TranscriptAssumption
<1>2. pc[w] = "looked" /\ File' = Append(Append(Closed(w), r), Blank)
  BY ClosedKeeps DEF Write, File, IInv
<1>3. Append(Closed(w), r) \in Seq(Text)
  BY <1>1, <1>2, ClosedKeeps DEF IInv
<1>4. \A k \in Keys : Latest(Append(Append(Closed(w), r), Blank), k)
                        = Latest(Append(Closed(w), r), k)
  BY <1>1, <1>3, LatestOfOther
<1>5. \A k \in Keys : Latest(Append(Closed(w), r), k)
                        = IF k = r.key THEN r.val ELSE Latest(File, k)
  BY <1>1, <1>2, ClosedKeeps, LatestOfRow DEF IInv
<1>6. Content' = [k \in Keys |-> Latest(File', k)]
  BY NextReadableContent
<1>7. Content = [k \in Keys |-> Latest(File, k)]
  BY ReadableContent DEF IInv
<1>8. Content' = [k \in Keys |-> IF k = r.key THEN r.val ELSE Content[k]]
  BY <1>2, <1>4, <1>5, <1>6, <1>7
<1> QED BY <1>7, <1>8

LEMMA TearKeepsOrApplies ==
  ASSUME IInv, Splitting = {}, NonAscii = {}, NEW w \in Writers, Tear(w), NoneCut', TypeOK'
  PROVE  \/ Content' = Content
         \/ Content' = [Content EXCEPT ![row[w].key] = row[w].val]
<1> DEFINE r == row[w]
<1>1. r \in Rows /\ pc[w] = "looked"
  BY DEF IInv, TypeOK, Tear
<1>2. PICK x \in {Blank, Junk, r} : File' = Append(Closed(w), x)
  <2>1. PICK x \in Pieces(r) : tail' = Joined(w, x)
    BY DEF Tear
  <2>2. lines' = Closed(w) /\ tail' = x
    BY <1>1, <2>1, ClosedKeeps DEF Tear, IInv
  <2> QED BY <2>1, <2>2 DEF Pieces, File
<1>3. Content' = [k \in Keys |-> Latest(File', k)]
  BY NextReadableContent
<1>4. Content = [k \in Keys |-> Latest(File, k)]
  BY ReadableContent DEF IInv
<1>5. CASE x = r
  <2>1. \A k \in Keys : Latest(File', k)
                          = IF k = r.key THEN r.val ELSE Latest(File, k)
    BY <1>1, <1>2, <1>5, ClosedKeeps, LatestOfRow DEF IInv
  <2>2. Content' = [k \in Keys |-> IF k = r.key THEN r.val ELSE Content[k]]
    BY <1>3, <1>4, <2>1
  <2> QED BY <1>4, <2>2
<1>6. CASE x # r
  <2>1. x \in Text /\ ~Parses(x)
    BY <1>2, <1>6, TranscriptAssumption DEF Text, Parses, TranscriptAssumption
  <2>2. \A k \in Keys : Latest(File', k) = Latest(File, k)
    BY <1>1, <1>2, <2>1, ClosedKeeps, LatestOfOther DEF IInv
  <2> QED BY <1>3, <1>4, <2>2
<1> QED BY <1>5, <1>6

LEMMA StoreInit == Init => Store!Init
<1> SUFFICES ASSUME Init PROVE Store!Init
  OBVIOUS
<1>1. File = <<Blank>> /\ ~Parses(Blank)
  BY TranscriptAssumption DEF Init, File, Parses, TranscriptAssumption
<1>2. \A k \in Keys : Having(File, k) = {}
  BY <1>1 DEF Having
<1>3. Content = [k \in Keys |-> NoRow]
  BY <1>2 DEF Content, Latest
<1>4. [w \in Writers |-> CallState(w)] = [w \in Writers |-> "idle"]
  BY DEF Init, CallState
<1> QED BY <1>3, <1>4 DEF Init, Store!Init, Store!Rows, Rows

LEMMA StoreNext ==
  ASSUME Sheltered, Splitting = {}
  PROVE  IInv /\ IInv' /\ [Next]_vars => [Store!Next]_(Store!vars)
<1> DEFINE st == [w \in Writers |-> CallState(w)]
<1> SUFFICES ASSUME IInv, IInv', [Next]_vars PROVE [Store!Next]_(Store!vars)
  OBVIOUS
<1>0. ASSUME lines' = lines, tail' = tail PROVE Content' = Content
  BY <1>0 DEF Content, File, Readable
<1>1. ASSUME NEW w \in Writers, NEW s \in {"idle", "looked", "written"},
             pc' = [pc EXCEPT ![w] = s]
      PROVE  st' = [st EXCEPT ![w] = CASE s = "idle" -> "idle"
                                       [] s = "looked" -> "asked"
                                       [] s = "written" -> "done"]
  BY <1>1 DEF IInv, TypeOK, CallState
<1>2. ASSUME NEW w \in Writers, NEW r \in Rows, Look(w, r) PROVE Store!Call(w, r)
  <2>1. st' = [st EXCEPT ![w] = "asked"] /\ Content' = Content
    BY <1>0, <1>1, <1>2 DEF Look
  <2> QED BY <1>2, <2>1 DEF Look, Store!Call, CallState
<1>3. ASSUME NEW w \in Writers, Write(w) PROVE Store!Apply(w)
  <2>1. st' = [st EXCEPT ![w] = "done"]
    BY <1>1, <1>3 DEF Write
  <2>2. Content' = [Content EXCEPT ![row[w].key] = row[w].val]
    BY <1>3, WriteApplies DEF IInv
  <2> QED BY <1>3, <2>1, <2>2 DEF Write, Store!Apply, Store!Applied, CallState
<1>4. ASSUME NEW w \in Writers, Tear(w) PROVE Store!Crash(w)
  <2>1. st' = [st EXCEPT ![w] = "idle"]
    BY <1>1, <1>4 DEF Tear
  <2>2. \/ Content' = Content
        \/ Content' = [Content EXCEPT ![row[w].key] = row[w].val]
    BY <1>4, TearKeepsOrApplies DEF IInv, Sheltered
  <2> QED BY <1>4, <2>1, <2>2 DEF Tear, Store!Crash, Store!Applied, CallState
<1>5. ASSUME NEW w \in Writers, Return(w) PROVE Store!Return(w)
  <2>1. st' = [st EXCEPT ![w] = "idle"] /\ Content' = Content
    BY <1>0, <1>1, <1>5 DEF Return
  <2> QED BY <1>5, <2>1 DEF Return, Store!Return, CallState
<1>6. ASSUME NEW w \in Writers, Crash(w) PROVE Store!Crash(w)
  <2>1. st' = [st EXCEPT ![w] = "idle"] /\ Content' = Content
    BY <1>0, <1>1, <1>6 DEF Crash
  <2>2. CallState(w) # "idle"
    BY <1>6 DEF Crash, CallState, IInv, TypeOK
  <2> QED BY <1>6, <2>1, <2>2 DEF Crash, Store!Crash
<1>7. CASE UNCHANGED vars
  <2>1. st' = st /\ Content' = Content
    BY <1>0, <1>7 DEF vars, CallState
  <2> QED BY <1>7, <2>1 DEF vars, Store!vars
<1>8. Rows = Store!Rows
  BY DEF Rows, Store!Rows
<1> QED BY <1>2, <1>3, <1>4, <1>5, <1>6, <1>7, <1>8 DEF Next, Store!Next

(* The file implements the store: whatever is torn, wherever writers die,  *)
(* an append that returned is read until its key is written again and      *)
(* nothing else changes -- for one writer at a time and rows in ASCII      *)
(* (append_transcript, load_transcripts).                                  *)
THEOREM FileImplementsStore ==
  ASSUME Sheltered
  PROVE  Spec => Implements
<1>1. Splitting = {}
  BY TranscriptAssumption DEF Sheltered, TranscriptAssumption
<1>2. Init => IInv
  BY TypeInit, EndInit DEF IInv
<1>3. IInv /\ [Next]_vars => IInv'
  BY TypeNext, EndNext, CutNext DEF IInv, Sheltered
<1>4. IInv /\ IInv' /\ [Next]_vars => [Store!Next]_(Store!vars)
  BY <1>1, StoreNext
<1> QED BY <1>2, <1>3, <1>4, StoreInit, PTL DEF Spec, Implements, Store!Spec
=============================================================================
