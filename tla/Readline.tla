------------------------------ MODULE Readline ------------------------------
(***************************************************************************)
(* The line editor of drivers/keyboard.c: keyboard_readline, called by     *)
(* shell_run for one line after the other, and the command history.  It is *)
(* fed the scancodes of Keyboard's queue, in any order: a full ring can    *)
(* have dropped the other half of a two-byte code.  No completion callback *)
(* is ever registered, so Tab does nothing.                                *)
(***************************************************************************)
EXTENDS Integers, Sequences, SequencesExt

CONSTANTS
  TextKeys,   \* the keys that lo[] and up[] give a character
  HIST_MAX,
  MaxInput,   \* max - 1: the longest line that keyboard_readline returns
  MaxLines    \* bound: the lines entered

ASSUME ReadlineAssumption ==
  HIST_MAX \in Nat \ {0} /\ MaxInput \in Nat \ {0} /\ MaxLines \in Nat

VARIABLES
  history, hist_count, hist_head,             \* statics
  buf, hist_pos, shift, caps, extended,       \* buf[0 .. i - 1] and other locals
  lines                                       \* the non-empty lines returned so far

statics  == <<history, hist_count, hist_head, lines>>
lineVars == <<statics, buf, hist_pos, shift, caps, extended>>

(* A character: a key, and whether it came out of up[]. *)
Chars == TextKeys \X BOOLEAN

readlineInit ==
  /\ history = [s \in 0..(HIST_MAX - 1) |-> <<>>]
  /\ hist_count = 0 /\ hist_head = 0
  /\ buf = <<>> /\ hist_pos = 0
  /\ shift = FALSE /\ caps = FALSE /\ extended = FALSE
  /\ lines = <<>>

hist_add_AtCount(line) ==  \* mutant: once full, always the same slot
  IF line = <<>> THEN UNCHANGED statics
  ELSE /\ history' = [history EXCEPT ![hist_count % HIST_MAX] = line]
       /\ hist_head' = hist_head + 1
       /\ hist_count' = IF hist_count < HIST_MAX THEN hist_count + 1 ELSE hist_count
       /\ lines' = Append(lines, line)

hist_add(line) ==
  IF line = <<>> THEN UNCHANGED statics
  ELSE /\ history' = [history EXCEPT ![hist_head % HIST_MAX] = line]
       /\ hist_head' = hist_head + 1
       /\ hist_count' = IF hist_count < HIST_MAX THEN hist_count + 1 ELSE hist_count
       /\ lines' = Append(lines, line)

(* The end of one call and the start of the next. *)
Return(line) ==
  /\ Len(lines) < MaxLines
  /\ hist_add(line)
  /\ buf' = <<>> /\ hist_pos' = hist_head'
  /\ shift' = FALSE /\ caps' = FALSE /\ extended' = FALSE

(* The loop goes round while i < max - 1; a line that fills the buffer is  *)
(* returned without an Enter, whether it was typed or recalled.            *)
Continue_TooLong(line, pos) ==  \* mutant: i <= max - 1
  IF Len(line) > MaxInput THEN Return(line)
  ELSE buf' = line /\ hist_pos' = pos /\ UNCHANGED <<statics, shift, caps>>

Continue(line, pos) ==
  IF Len(line) >= MaxInput THEN Return(line)
  ELSE buf' = line /\ hist_pos' = pos /\ UNCHANGED <<statics, shift, caps>>

Line(pos) == history[pos % HIST_MAX]

(* A prefix, and the code after it *)
prefix ==
  /\ extended' = TRUE
  /\ UNCHANGED <<statics, buf, hist_pos, shift, caps>>

Oldest_TooFar == hist_head - hist_count - 1  \* mutant

Oldest == hist_head - hist_count

arrow_up ==
  /\ extended
  /\ IF hist_pos - 1 < Oldest
     THEN UNCHANGED <<statics, buf, hist_pos, shift, caps>>
     ELSE Continue(Line(hist_pos - 1), hist_pos - 1)
  /\ extended' = FALSE

arrow_down ==
  /\ extended
  /\ IF hist_pos + 1 > hist_head
     THEN UNCHANGED <<statics, buf, hist_pos, shift, caps>>
     ELSE Continue(IF hist_pos + 1 = hist_head THEN <<>> ELSE Line(hist_pos + 1), hist_pos + 1)
  /\ extended' = FALSE

extended_other ==
  /\ extended
  /\ extended' = FALSE
  /\ UNCHANGED <<statics, buf, hist_pos, shift, caps>>

modifier(sc) ==
  /\ ~extended
  /\ shift' = CASE sc = "shift" -> TRUE [] sc = "unshift" -> FALSE [] OTHER -> shift
  /\ caps' = IF sc = "caps" THEN ~caps ELSE caps
  /\ UNCHANGED <<statics, buf, hist_pos, extended>>

(* What a table entry does: "none" is 0. *)
Entered(c) ==
  /\ ~extended
  /\ \/ c = "none" /\ UNCHANGED lineVars
     \/ c = "enter" /\ Return(buf)
     \/ /\ c = "back"
        /\ Continue(IF buf = <<>> THEN buf ELSE Front(buf), hist_pos) /\ UNCHANGED extended
     \/ c \in Chars /\ Continue(Append(buf, c), hist_pos) /\ extended' = FALSE

typed(k) == Entered(<<k, shift # caps>>)

(* lo[sc] or up[sc] with sc past the end, as 0x48 is when its E0 prefix    *)
(* was dropped: whatever lies there.                                       *)
past_table == \E c \in {"none", "enter", "back"} \cup Chars : Entered(c)

keyboard_readline ==
  \/ prefix
  \/ arrow_up
  \/ arrow_down
  \/ extended_other
  \/ \E sc \in {"shift", "unshift", "caps", "tab", "break"} : modifier(sc)
  \/ Entered("enter")
  \/ Entered("back")
  \/ \E k \in TextKeys : typed(k)
  \/ past_table

-----------------------------------------------------------------------------
(* Types, and what is stored fits: the terminating 0 of the line falls     *)
(* inside the caller's buffer, which holds MaxInput + 1 characters.        *)
LineFits ==
  /\ buf \in Seq(Chars) /\ Len(buf) < MaxInput
  /\ \A s \in DOMAIN history : Len(history[s]) <= MaxInput
  /\ hist_count \in 0..HIST_MAX /\ hist_head \in Nat
  /\ hist_pos \in (hist_head - hist_count)..hist_head

(* The history holds the last HIST_MAX non-empty lines, newest first when  *)
(* walked back from hist_head, however often the slots have been reused.   *)
HistoryExact ==
  /\ hist_count = IF Len(lines) < HIST_MAX THEN Len(lines) ELSE HIST_MAX
  /\ \A k \in 1..hist_count : Line(hist_head - k) = lines[Len(lines) - k + 1]

(* Up and Down walk through the lines in the order they were entered, and  *)
(* show each as it was entered: never a line whose slot was reused, and an *)
(* empty one past the newest, where a new line starts too.                 *)
RecallInOrder ==
  [][lines' = lines /\ hist_pos' # hist_pos =>
       /\ hist_pos' \in {hist_pos - 1, hist_pos + 1, Len(lines)} /\ hist_pos' \in 0..Len(lines)
       /\ buf' = IF hist_pos' = Len(lines) THEN <<>> ELSE lines[hist_pos' + 1]]_lineVars
=============================================================================
