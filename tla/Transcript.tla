----------------------------- MODULE Transcript -----------------------------
(***************************************************************************)
(* results/transcripts_<label>.jsonl as config.py keeps it: an append-only *)
(* file of JSON lines.  append_transcript first looks whether the file     *)
(* ends in a newline and then writes; a process killed in the write leaves *)
(* a part of the line, which the next append closes off with a newline of  *)
(* its own.  load_transcripts skips lines that do not parse and lets the   *)
(* last row of a key win.  Content is that reader, and with it as the      *)
(* mapping the file implements ResultStore.                                *)
(*                                                                         *)
(* Of a line's bytes only these differences matter: a whole row, a part    *)
(* that no longer parses (Junk), a part that ends inside a character and   *)
(* makes the file invalid UTF-8 (Cut), nothing (Blank).                    *)
(***************************************************************************)
EXTENDS Naturals, Sequences

CONSTANTS Writers, Keys, Values, NoRow,
          NonAscii,   \* values whose text has characters outside ASCII
          Splitting,  \* of these, text with a line boundary of str.splitlines
                      \* that JSON does not escape (U+2028, U+2029, U+0085)
          Exclusive,  \* one writer at a time: ctx.lock, run_judge's lock
                      \* and, between processes, the rig lock
          Junk, Cut, Blank,
          MaxLines    \* bound on the file's length

Rows == [key : Keys, val : Values]
Text == Rows \cup {Junk, Cut, Blank}

ASSUME TranscriptAssumption ==
  /\ Splitting \subseteq NonAscii /\ NonAscii \subseteq Values
  /\ Exclusive \in BOOLEAN
  /\ {Junk, Cut, Blank} \cap Rows = {}
  /\ Junk # Cut /\ Junk # Blank /\ Cut # Blank
  /\ MaxLines \in Nat

VARIABLES lines,    \* the complete lines
          tail,     \* what follows the last newline
          pc,       \* each writer, inside append_transcript
          needs_nl, \* what it saw at the end of the file
          row       \* the row it appends

vars == <<lines, tail, pc, needs_nl, row>>

TypeOK ==
  /\ lines \in Seq(Text) /\ tail \in Text
  /\ pc \in [Writers -> {"idle", "looked", "written"}]
  /\ needs_nl \in [Writers -> BOOLEAN]
  /\ row \in [Writers -> Rows]

Init ==
  /\ lines = <<>> /\ tail = Blank
  /\ pc = [w \in Writers |-> "idle"]
  /\ needs_nl = [w \in Writers |-> FALSE]
  /\ row \in [Writers -> Rows]

-----------------------------------------------------------------------------
(* load_transcripts.                                                       *)

(* One line of the file is several for str.splitlines if it has one of the *)
(* boundaries, and then none of the pieces parses.                         *)
ParsesByNewline(t) == t \in Rows                                      \* mutant
Parses(t) == t \in Rows /\ t.val \notin Splitting

(* The value of key k in the text t: its last row wins.                    *)
Having(t, k) == {i \in DOMAIN t : Parses(t[i]) /\ t[i].key = k}
FirstOf(t, k) ==                                                      \* mutant
  {t[i].val : i \in {i \in Having(t, k) : \A j \in Having(t, k) : i <= j}}
LastOf(t, k) ==
  {t[i].val : i \in {i \in Having(t, k) : \A j \in Having(t, k) : j <= i}}
Latest(t, k) ==
  IF Having(t, k) = {} THEN NoRow ELSE CHOOSE v \in LastOf(t, k) : TRUE

File == Append(lines, tail)

(* read_text decodes the whole file at once: one byte sequence that is not *)
(* UTF-8, and the reader gets no row at all.                               *)
Readable == \A i \in DOMAIN File : File[i] # Cut
Content  == [k \in Keys |-> IF Readable THEN Latest(File, k) ELSE NoRow]

-----------------------------------------------------------------------------
(* append_transcript.                                                      *)

NeverHeals == FALSE                                                   \* mutant
LastByte   == tail                                                    \* mutant
Torn == tail # Blank

Look(w, r) ==
  /\ pc[w] = "idle" /\ Len(lines) < MaxLines
  /\ Exclusive => \A u \in Writers : pc[u] = "idle"
  /\ needs_nl' = [needs_nl EXCEPT ![w] = Torn]
  /\ row' = [row EXCEPT ![w] = r]
  /\ pc' = [pc EXCEPT ![w] = "looked"]
  /\ UNCHANGED <<lines, tail>>

(* Text x written at the end of the file, behind w's newline if it writes  *)
(* one; without it x runs into what is there, and neither parses any more. *)
Closed(w) == IF needs_nl[w] THEN Append(lines, tail) ELSE lines
Joined(w, x) == IF needs_nl[w] \/ tail = Blank THEN x
                ELSE IF x = Blank THEN tail
                ELSE IF tail = Cut THEN Cut ELSE Junk

Write(w) ==
  /\ pc[w] = "looked"
  /\ lines' = Append(Closed(w), Joined(w, row[w])) /\ tail' = Blank
  /\ pc' = [pc EXCEPT ![w] = "written"]
  /\ UNCHANGED <<needs_nl, row>>

(* What a write cut short leaves of the row: nothing, a part of it, all    *)
(* but the newline.                                                        *)
Pieces(r) == {Blank, Junk, r} \cup (IF r.val \in NonAscii THEN {Cut} ELSE {})

Tear(w) ==
  /\ pc[w] = "looked"
  /\ \E x \in Pieces(row[w]) : tail' = Joined(w, x)
  /\ lines' = Closed(w)
  /\ pc' = [pc EXCEPT ![w] = "idle"]
  /\ UNCHANGED <<needs_nl, row>>

Return(w) ==
  /\ pc[w] = "written"
  /\ pc' = [pc EXCEPT ![w] = "idle"]
  /\ UNCHANGED <<lines, tail, needs_nl, row>>

(* Killed before or after the write.                                       *)
Crash(w) ==
  /\ pc[w] # "idle"
  /\ pc' = [pc EXCEPT ![w] = "idle"]
  /\ UNCHANGED <<lines, tail, needs_nl, row>>

Next == \E w \in Writers :
  (\E r \in Rows : Look(w, r)) \/ Write(w) \/ Tear(w) \/ Return(w) \/ Crash(w)

Spec == Init /\ [][Next]_vars

-----------------------------------------------------------------------------
(* Properties.                                                             *)

CallState(w) == CASE pc[w] = "idle" -> "idle"
                  [] pc[w] = "looked" -> "asked"
                  [] pc[w] = "written" -> "done"

Store == INSTANCE ResultStore
           WITH content <- Content, state <- [w \in Writers |-> CallState(w)]

(* With one writer at a time, whatever is torn and wherever a writer dies, *)
(* a row whose append returned is read until a later append to its key,    *)
(* and no append or crash touches another key (the file heals).            *)
Implements == Store!Spec

(* config.py: "torn final line from a killed run -- skip": a key whose row *)
(* is whole on disk is read whatever else the file holds.                  *)
TornLineIsSkipped ==
  \A k \in Keys : Having(File, k) # {} => Content[k] # NoRow

(* config.py: the last row of a key wins -- an append that returned is     *)
(* what a reader gets.                                                     *)
LastRowWins ==
  \A w \in Writers : pc[w] = "written" /\ Exclusive
                       => Content[row[w].key] = row[w].val
=============================================================================
