------------------------------ MODULE Desktop ------------------------------
(***************************************************************************)
(* What is drawn: the terminal (graphics/terminal.c), the mouse cursor     *)
(* (graphics/cursor.c), the about window over the window manager           *)
(* (graphics/windowm/wm.c), the graphics pipe they all draw into           *)
(* (graphics/api/gpipe.c), the mouse driver (drivers/mouse.c) and the      *)
(* compositor of main.c, which copies the back buffer to the screen.       *)
(*                                                                         *)
(* The screen is one column of Rows cells.  The cursor and the window      *)
(* cover cells of the column; of the text, gx = 0 is the cell in the       *)
(* column and gx = 1 the one to the right of it, whose contents are not    *)
(* kept.  A cell shows paper, text (the caret is text) or the arrow, and   *)
(* the glass of a window over it.                                          *)
(*                                                                         *)
(* Nobody here is preempted: the tasks' names begin with '[', and a        *)
(* program prints with interrupts off.  An action runs to the point where  *)
(* its task yields, and the mouse interrupt falls between any two.  While  *)
(* the about task draws its window the interrupt also falls between the    *)
(* two readings of the motion, the one that hides the cursor and the one   *)
(* that shows it: that is where its actions are divided.                   *)
(***************************************************************************)
EXTENDS Integers, FiniteSetsExt

CONSTANTS
  H,         \* height of the screen in cells
  WIN_H,     \* height of the about window without its shadow
  Shadow,    \* wm_shadow_off
  Packets,   \* the packets of the mouse: [left, neg, over, mag]
  MaxDelta   \* bound: motion that is collected before the cursor is moved

Rows    == 0..(H - 1)
RegionH == WIN_H + Shadow

ASSUME DesktopAssumption ==
  /\ H \in Nat /\ WIN_H \in Nat \ {0} /\ Shadow \in Nat
  /\ RegionH <= H
  /\ Packets \subseteq [left : BOOLEAN, neg : BOOLEAN, over : BOOLEAN, mag : {0, 1}]

VARIABLES
  scr,     \* back buffer, dirty rectangle, cursor and collected motion
  term,    \* gx, gy, and what was printed in each row
  win,     \* the about window: its wm_window
  left,    \* state.left of mouse.c
  about    \* the about task: "off", "created", "never" created, "open" (its
           \* loop), or what it does when it does not yield, see Busy

vars == <<scr, term, win, left, about>>

Cell(paint) == [paint |-> paint, glass |-> FALSE]
Paper       == Cell("paper")
Clean       == <<0, 0>>

-----------------------------------------------------------------------------
(* gpipe.c.  unsent has the rows of back that were written after they were *)
(* last copied to the screen.                                              *)
iclamp(v, lo, hi) == IF v < lo THEN lo ELSE IF v > hi THEN hi ELSE v

gpipe_mark_dirty_Replaces(dirty, y, h) ==  \* mutant: the old rectangle is forgotten
  <<iclamp(y, 0, H), iclamp(y + h, 0, H)>>

gpipe_mark_dirty(dirty, y, h) ==
  LET y0 == iclamp(y, 0, H)
      y1 == iclamp(y + h, 0, H)
  IN IF y1 <= y0 THEN dirty
     ELSE IF dirty = Clean THEN <<y0, y1>>
     ELSE <<Min({y0, dirty[1]}), Max({y1, dirty[2]})>>

(* The cells of f are written, and h rows from y marked dirty. *)
Draw(s, f, y, h) ==
  [s EXCEPT !.back = [r \in Rows |-> IF r \in DOMAIN f THEN f[r] ELSE s.back[r]],
            !.unsent = @ \cup DOMAIN f, !.dirty = gpipe_mark_dirty(@, y, h)]

(* gpipe_prim.c: the pixels of a blend get the tint, text and shapes are   *)
(* drawn beside the column, clear goes over everything.                    *)
gpipe_pixel_blend(cell) == [cell EXCEPT !.glass = TRUE]

DrawBeside(s, y, h) == Draw(s, [r \in (y..(y + h - 1)) \cap Rows |-> s.back[r]], y, h)

gpipe_clear(s) == Draw(s, [r \in Rows |-> Paper], 0, H)

(* gpipe_take_dirty and gpipe_present_rect, or gpipe_present *)
gpipe_present(s) ==
  [s EXCEPT !.unsent = @ \ (s.dirty[1]..(s.dirty[2] - 1)), !.dirty = Clean]

-----------------------------------------------------------------------------
(* cursor.c *)
cursor_restore(s) ==
  IF ~s.saved_valid THEN s
  ELSE [Draw(s, [r \in {s.cy} |-> s.saved_px], s.cy, 1) EXCEPT !.saved_valid = FALSE]

cursor_paint(s) ==
  [Draw(s, [r \in {s.cy} |-> Cell("arrow")], s.cy, 1)
     EXCEPT !.saved_px = s.back[s.cy], !.saved_valid = TRUE]

(* cursor_update, with what mouse_get_cursor_delta has returned: the       *)
(* cursor is erased if it is hidden or moves, and painted if it is not     *)
(* there.                                                                  *)
CursorErased(s, dy) ==
  IF s.cursor_visible /\ dy = 0 THEN s ELSE cursor_restore(s)

CursorPainted_NoFirst(s, dy) ==  \* mutant: nothing is painted without motion
  IF ~s.cursor_visible \/ dy = 0 THEN s
  ELSE cursor_paint([s EXCEPT !.cy = iclamp(@ + dy, 0, H - 1)])

CursorPainted(s, dy) ==
  IF ~s.cursor_visible \/ s.saved_valid THEN s
  ELSE cursor_paint([s EXCEPT !.cy = iclamp(@ + dy, 0, H - 1)])

cursor_update(s, dy) == CursorPainted(CursorErased(s, dy), dy)

mouse_get_cursor_delta(s) == [s EXCEPT !.cur_dy = 0]

(* A packet between the reading and the clearing of the motion is lost but *)
(* for its button, like one whose motion overflows.                        *)
hide_cursor_NotErased(s) == s  \* mutant

hide_cursor_locked(s) ==
  cursor_update([mouse_get_cursor_delta(s) EXCEPT !.cursor_visible = FALSE], s.cur_dy)

show_cursor_locked(s) ==
  cursor_update([mouse_get_cursor_delta(s) EXCEPT !.cursor_visible = TRUE], s.cur_dy)

-----------------------------------------------------------------------------
(* wm.c.  The rows of a region that are on the screen.                     *)
Region(w) == (w.y..(w.y + RegionH - 1)) \cap Rows

save_region(w, s) == [w EXCEPT !.saved = [r \in Region(w) |-> s.back[r]]]

restore_region(s, w) == Draw(s, w.saved, w.y, RegionH)

draw_chrome(s, w) ==
  Draw(s, [r \in Region(w) |-> gpipe_pixel_blend(s.back[r])], w.y, RegionH)

draw_about_content(s, w) == DrawBeside(s, w.y, WIN_H)

draw_all(s, w) == draw_about_content(draw_chrome(s, w), w)

(* wm_open, wm_redraw, move_locked and wm_close up to show_cursor_locked:  *)
(* the last three take the window away, all but wm_close draw it.          *)
DrawnOver(bare, w) ==
  LET w2 == save_region(w, bare)
  IN [scr |-> draw_all(bare, w2), win |-> w2]

RedrawAt(s, w, y) ==
  DrawnOver(restore_region(hide_cursor_locked(s), w), [w EXCEPT !.y = y])

wm_open(s, w) == DrawnOver(hide_cursor_locked(s), w)

wm_close(s, w) == restore_region(hide_cursor_locked(s), w)

(* and the rest of each, up to win->open *)
ShownAgain(s) == gpipe_present(show_cursor_locked(s))

wm_erase_all_for_scroll(s, w) == IF w.open THEN restore_region(s, w) ELSE s

wm_repaint_all_NotSaved(new, w) ==  \* mutant: saved is of before the scroll
  [scr |-> IF w.open THEN draw_all(new, w) ELSE new, win |-> w]

(* Around a scroll or a clear: new is the buffer without window and cursor.*)
wm_repaint_all_after_scroll(new, w) ==
  LET w2 == save_region(w, new)
  IN IF w.open THEN [scr |-> draw_all(new, w2), win |-> w2] ELSE [scr |-> new, win |-> w]

NoWindow == [open |-> FALSE, y |-> 0, saved |-> <<>>, dragging |-> FALSE,
             drag_dy |-> 0, prev_left |-> FALSE]

-----------------------------------------------------------------------------
(* terminal.c.  text is what was printed last in the cell of each row, and *)
(* stale has the rows that were printed under the window or the cursor,    *)
(* whose text is then not kept.                                            *)
Covered(s, w, r) == (w.open /\ r \in Region(w)) \/ (s.saved_valid /\ s.cy = r)

Printed(s, w, t, paint) ==
  IF t.gx # 0 THEN t
  ELSE IF Covered(s, w, t.gy)
  THEN [t EXCEPT !.text[t.gy] = "paper", !.stale = @ \cup {t.gy}]
  ELSE [t EXCEPT !.text[t.gy] = paint, !.stale = @ \ {t.gy}]

Ink(s, t, paint) ==
  IF t.gx = 0 THEN Draw(s, [r \in {t.gy} |-> Cell(paint)], t.gy, 1) ELSE DrawBeside(s, t.gy, 1)

(* chr *)
chr(s, w, t, paint) ==
  LET drawn == Ink(s, t, paint)
      over  == IF w.open /\ t.gy \in Region(w) THEN draw_all(drawn, w) ELSE drawn
  IN [scr |-> over, win |-> w, term |-> Printed(s, w, t, paint)]

(* scroll and terminal_clear: cursor and window are taken away before the  *)
(* rows change, the window is drawn again, the cursor is left to the       *)
(* compositor.                                                             *)
Bare(s, w) == wm_erase_all_for_scroll(cursor_restore(s), w)

Replace(s, w, rows, t) ==
  LET new == wm_repaint_all_after_scroll(Draw(s, rows, 0, H), w)
  IN [scr |-> new.scr, win |-> new.win, term |-> t]

Up(f, last) == [r \in Rows |-> IF r = H - 1 THEN last ELSE f[r + 1]]

scroll(s, w, t) ==
  LET bare == Bare(s, w)
  IN Replace(bare, w, Up(bare.back, Paper),
             [gx |-> 0, gy |-> H - 1, text |-> Up(t.text, "paper"),
              stale |-> {r - 1 : r \in t.stale \ {0}}])

terminal_clear(s, w) ==
  Replace(Bare(s, w), w, [r \in Rows |-> Paper],
          [gx |-> 0, gy |-> 0, text |-> [r \in Rows |-> "paper"], stale |-> {}])

Newline(s, w, t) ==
  IF t.gy + 1 >= H - 1 THEN scroll(s, w, t)
  ELSE [scr |-> s, win |-> w, term |-> [t EXCEPT !.gx = 0, !.gy = @ + 1]]

(* putchar_nolock of a character, a newline, a backspace *)
PutText(s, w, t) ==
  LET one == chr(s, w, t, "text")
  IN IF t.gx = 0 THEN [one EXCEPT !.term.gx = 1]
     ELSE Newline(one.scr, one.win, one.term)

putchar_nolock(c, s, w, t) ==
  CASE c = "text" -> PutText(s, w, t)
    [] c = "newline" -> Newline(s, w, t)
    [] c = "backspace" -> IF t.gx = 0 THEN [scr |-> s, win |-> w, term |-> t]
                          ELSE chr(s, w, [t EXCEPT !.gx = 0], "paper")

-----------------------------------------------------------------------------
(* Actions.  Shell and programs print and clear, with the lock, when the   *)
(* about task has yielded: "opening", "moving", "drawing" and "closing"    *)
(* are wm_open, move_locked, wm_redraw and wm_close with the cursor        *)
(* hidden, "due" is wm_step done and a second passed.                      *)
Busy == {"opening", "moving", "drawing", "closing", "due"}

Show(next) ==
  /\ about \notin Busy
  /\ scr' = next.scr /\ win' = next.win /\ term' = next.term

terminal_putchar(c) ==
  /\ Show(putchar_nolock(c, scr, win, term))
  /\ UNCHANGED <<left, about>>

(* terminal_clear, as cmd_clear and cmd_scale call it *)
ClearScreen ==
  /\ Show(terminal_clear(scr, win))
  /\ UNCHANGED <<left, about>>

cmd_clearfb ==
  /\ Show(terminal_clear(gpipe_clear(scr), win))
  /\ UNCHANGED <<left, about>>

(* terminal_cursor_draw: the caret of keyboard_readline *)
terminal_cursor_draw(visible) ==
  LET paint == IF visible THEN "text" ELSE "paper"
  IN /\ about \notin Busy
     /\ scr' = Ink(scr, term, paint)
     /\ term' = Printed(scr, win, term, paint)
     /\ UNCHANGED <<win, left, about>>

(* cmd_about sets about_running before it knows that the task was created. *)
cmd_about ==
  /\ about = "off"
  /\ about' \in {"created", "never"}
  /\ UNCHANGED <<scr, term, win, left>>

(* about_task up to its loop, or without memory for the window *)
FirstY == iclamp((H - WIN_H) \div 2, 0, H - RegionH)

about_task_begins ==
  /\ about = "created"
  /\ \/ LET new == wm_open(scr, [NoWindow EXCEPT !.y = FirstY])
        IN scr' = new.scr /\ win' = new.win /\ about' = "opening"
     \/ about' = "off" /\ UNCHANGED <<scr, win>>
  /\ UNCHANGED <<term, left>>

(* wm_step: where a click lands is told by the row, and by a choice when   *)
(* it is the title bar's.                                                  *)
Spots ==
  IF ~(left /\ ~win.prev_left) \/ scr.cy # win.y THEN {"none"}
  ELSE {"close", "minimize", "bar"}

DragTo_ByMotion ==  \* mutant: the window goes by the motion, not to the cursor
  iclamp(win.y + scr.cur_dy, 0, H - RegionH)

DragTo == iclamp(scr.cy, 0, H - RegionH)

(* One turn of about_task's loop that does not close the window, up to its *)
(* redrawing: wm_step moves a window whose y changes, or its x, which the  *)
(* column does not show; then the turn is over, or wm_redraw is due.       *)
about_task_turn(spot) ==
  LET w   == [win EXCEPT !.dragging = left /\ (@ \/ spot = "bar"), !.prev_left = left]
      y   == IF w.dragging THEN DragTo ELSE w.y
      new == RedrawAt(scr, w, y)
  IN /\ about = "open"
     /\ spot \in Spots \ {"close"}
     /\ \/ /\ w.dragging
           /\ scr' = new.scr /\ win' = new.win
           /\ about' = "moving"
        \/ /\ y = w.y
           /\ win' = w
           /\ about' \in {"open", "due"}
           /\ UNCHANGED scr
     /\ UNCHANGED <<term, left>>

wm_redraw ==
  LET new == RedrawAt(scr, win, win.y)
  IN /\ about = "due"
     /\ scr' = new.scr /\ win' = new.win
     /\ about' = "drawing"
     /\ UNCHANGED <<term, left>>

(* Escape or the close button *)
about_task_ends(esc) ==
  /\ about = "open"
  /\ esc \/ "close" \in Spots
  /\ scr' = wm_close(scr, win)
  /\ about' = "closing"
  /\ UNCHANGED <<term, win, left>>

(* show_cursor_locked, gpipe_present and what follows up to the next       *)
(* wm_redraw or sched_yield: win->open, and after wm_close wm_destroy and  *)
(* about_running = false.                                                  *)
AfterShown ==
  CASE about = "opening" -> win' = [win EXCEPT !.open = TRUE] /\ about' = "open"
    [] about = "moving"  -> UNCHANGED win /\ about' \in {"open", "due"}
    [] about = "drawing" -> UNCHANGED win /\ about' = "open"
    [] about = "closing" -> win' = NoWindow /\ about' = "off"

about_task_shows ==
  /\ about \in Busy \ {"due"}
  /\ scr' = ShownAgain(scr)
  /\ AfterShown
  /\ UNCHANGED <<term, left>>

-----------------------------------------------------------------------------
(* mouse_isr, when it has the third byte of a packet.  A first byte        *)
(* without bit 3 is dropped, and nobody else sees the bytes before; after  *)
(* a lost byte any byte may be taken for the flags.  The motion has nine   *)
(* bits in two's complement, here two.                                     *)
MotionOf(p) == IF p.over THEN 0 ELSE p.mag - (IF p.neg THEN 2 ELSE 0)

mouse_isr(p) ==
  /\ scr.cur_dy - MotionOf(p) \in (-MaxDelta)..MaxDelta
  /\ left' = p.left
  /\ scr' = [scr EXCEPT !.cur_dy = @ - MotionOf(p)]
  /\ UNCHANGED <<term, win, about>>

(* compositor_task *)
compositor_task ==
  /\ about \notin Busy
  /\ UNCHANGED <<term, win, left, about>>
  /\ \E still \in {mouse_get_cursor_delta(scr)} :
       \E bare \in {CursorErased(still, scr.cur_dy)} :
         \E moved \in {CursorPainted(bare, scr.cur_dy)} : scr' = gpipe_present(moved)

-----------------------------------------------------------------------------
(* kmain: cursor_init, then terminal_clear *)
Init ==
  /\ scr = [back |-> [r \in Rows |-> Paper], unsent |-> Rows, dirty |-> <<0, H>>,
            cy |-> H \div 2, saved_px |-> Paper, saved_valid |-> FALSE,
            cursor_visible |-> TRUE, cur_dy |-> 0]
  /\ term = [gx |-> 0, gy |-> 0, text |-> [r \in Rows |-> "paper"], stale |-> {}]
  /\ win = NoWindow
  /\ left = FALSE
  /\ about = "off"

Next ==
  \/ \E c \in {"text", "newline", "backspace"} : terminal_putchar(c)
  \/ ClearScreen
  \/ cmd_clearfb
  \/ \E visible \in BOOLEAN : terminal_cursor_draw(visible)
  \/ cmd_about
  \/ about_task_begins
  \/ \E spot \in Spots : about_task_turn(spot)
  \/ wm_redraw
  \/ \E esc \in BOOLEAN : about_task_ends(esc)
  \/ about_task_shows
  \/ \E p \in Packets : mouse_isr(p)
  \/ compositor_task

(* The compositor sleeps 20 ms and is scheduled again like every task, and *)
(* so is the about task, which yields in its loop: it does not stay where  *)
(* it is for ever, since a second after the last one a wm_redraw is due.   *)
AboutGoesOn ==
  /\ about \in Busy \cup {"open"}
  /\ about' \in Busy \cup {"open", "off"}

Spec ==
  /\ Init /\ [][Next]_vars
  /\ WF_vars(compositor_task)
  /\ WF_about(AboutGoesOn)

-----------------------------------------------------------------------------
(* The window is in the back buffer: from wm_open's drawing, before it is  *)
(* open, until wm_close's erasing, before it is closed.                    *)
WindowDrawn == about = "opening" \/ (win.open /\ about # "closing")

Cells == [paint : {"paper", "text", "arrow"}, glass : BOOLEAN]

(* Whatever was drawn and is not on the screen yet lies in the dirty       *)
(* rectangle: the compositor will copy it ("dirty-rect flip").             *)
DirtyCovers == scr.unsent \subseteq scr.dirty[1]..(scr.dirty[2] - 1)

(* No ghosts: the arrow and the glass are in the back buffer, and in what  *)
(* is saved of it, only where the cursor and the window are now, also      *)
(* while the window is being drawn and the mouse interrupts.               *)
NoGhosts ==
  /\ \A r \in Rows :
       /\ scr.back[r].paint = "arrow" => scr.saved_valid /\ r = scr.cy
       /\ scr.back[r].glass => WindowDrawn /\ r \in Region(win)
  /\ scr.saved_valid => /\ scr.saved_px.paint # "arrow"
                        /\ scr.saved_px.glass => WindowDrawn /\ scr.cy \in Region(win)
  /\ WindowDrawn => \A r \in DOMAIN win.saved :
                      win.saved[r].paint # "arrow" /\ ~win.saved[r].glass

(* Under cursor and window, every row has the text that was printed there, *)
(* through scrolling, dragging, redrawing and closing, unless it was       *)
(* printed under them.                                                     *)
TextShown ==
  \A r \in Rows \ term.stale :
    /\ (IF scr.saved_valid /\ r = scr.cy THEN scr.saved_px ELSE scr.back[r]).paint = term.text[r]
    /\ WindowDrawn /\ r \in Region(win) => win.saved[r].paint = term.text[r]

(* Motion that arrives while a dragged window is drawn is lost or moves    *)
(* the cursor away from it (cursor_update in hide_ and show_cursor_locked) *)
(* but the window catches up: once the mouse rests with the button down,   *)
(* the cursor is on the title bar again, or below a window that the end of *)
(* the screen has stopped (wm_step goes by the cursor, not by the motion). *)
DragCatchesUp ==
  <>[](win.dragging /\ left /\ scr.cur_dy = 0)
    => <>[](scr.cy = win.y \/ (scr.cy > win.y /\ win.y = H - RegionH))

(* What is drawn reaches the screen, and the cursor comes back after every *)
(* scroll, clear and redraw.                                               *)
ScreenSettles == []<>(scr.unsent = {} /\ scr.saved_valid)
=============================================================================
