---------------------------- MODULE ResultStore -----------------------------
(***************************************************************************)
(* What the results directory promises its users: a map from row keys      *)
(* (bench_run_id, case_id, repeat, turn) to the row written last.  A put   *)
(* takes effect at one moment between its call and its return, a put cut   *)
(* off by the death of its process may or may not have taken effect, and   *)
(* nothing else ever changes the map.                                      *)
(***************************************************************************)
CONSTANTS Writers,  \* threads and processes that append rows
          Keys,     \* row keys
          Values,   \* rows without their key
          NoRow     \* read for a key that has no row

Rows == [key : Keys, val : Values]

VARIABLES content, \* what a reader gets for each key
          state,   \* each writer's call: none, under way, taken effect
          row      \* the row of that call, or of the last one

vars == <<content, state, row>>

Init ==
  /\ content = [k \in Keys |-> NoRow]
  /\ state = [w \in Writers |-> "idle"]
  /\ row \in [Writers -> Rows]

Applied(w) == [content EXCEPT ![row[w].key] = row[w].val]

Call(w, r) ==
  /\ state[w] = "idle"
  /\ state' = [state EXCEPT ![w] = "asked"]
  /\ row' = [row EXCEPT ![w] = r]
  /\ UNCHANGED content

Apply(w) ==
  /\ state[w] = "asked"
  /\ content' = Applied(w)
  /\ state' = [state EXCEPT ![w] = "done"]
  /\ UNCHANGED row

Return(w) ==
  /\ state[w] = "done"
  /\ state' = [state EXCEPT ![w] = "idle"]
  /\ UNCHANGED <<content, row>>

Crash(w) ==
  /\ state[w] # "idle"
  /\ state' = [state EXCEPT ![w] = "idle"]
  /\ content' = content \/ (state[w] = "asked" /\ content' = Applied(w))
  /\ UNCHANGED row

Next == \E w \in Writers :
  (\E r \in Rows : Call(w, r)) \/ Apply(w) \/ Return(w) \/ Crash(w)

Spec == Init /\ [][Next]_vars
=============================================================================
