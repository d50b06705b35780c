--------------------------- MODULE DesktopProofs ---------------------------
(***************************************************************************)
(* Proofs about what is drawn, for every height of the screen and of the   *)
(* window and any motion of the mouse.                                     *)
(***************************************************************************)
EXTENDS Desktop, TLAPS

(* A screen as the operations hand it on: its fields, and DirtyCovers.     *)
ScreenRecords ==
  [back : [Rows -> Cells], unsent : SUBSET Rows, dirty : Nat \X Nat, cy : Rows,
   saved_px : Cells, saved_valid : BOOLEAN, cursor_visible : BOOLEAN, cur_dy : Int]

DirtyRows(dirty) == dirty[1]..(dirty[2] - 1)

Screen(s) == s \in ScreenRecords /\ s.unsent \subseteq DirtyRows(s.dirty)

(* The column without the cursor. *)
View(s) == [r \in Rows |-> IF s.saved_valid /\ r = s.cy THEN s.saved_px ELSE s.back[r]]

-----------------------------------------------------------------------------
LEMMA HeightIsPositive == H \in Nat /\ H >= 1 /\ RegionH \in Nat
BY DesktopAssumption DEF RegionH

LEMMA MinMaxOfTwo ==
  ASSUME NEW a \in Int, NEW b \in Int
  PROVE  /\ Min({a, b}) = IF a <= b THEN a ELSE b
         /\ Max({a, b}) = IF a >= b THEN a ELSE b
<1>1. Min({a, b}) = IF a <= b THEN a ELSE b
  <2>. DEFINE least == IF a <= b THEN a ELSE b
  <2>1. least \in {a, b} /\ \A y \in {a, b} : least <= y
    OBVIOUS
  <2>2. \A x \in {a, b} : (\A y \in {a, b} : x <= y) => x = least
    OBVIOUS
  <2>. HIDE DEF least
  <2>3. Min({a, b}) = least
    BY <2>1, <2>2 DEF Min
  <2>. QED BY <2>3 DEF least
<1>2. Max({a, b}) = IF a >= b THEN a ELSE b
  <2>. DEFINE most == IF a >= b THEN a ELSE b
  <2>1. most \in {a, b} /\ \A y \in {a, b} : most >= y
    OBVIOUS
  <2>2. \A x \in {a, b} : (\A y \in {a, b} : x >= y) => x = most
    OBVIOUS
  <2>. HIDE DEF most
  <2>3. Max({a, b}) = most
    BY <2>1, <2>2 DEF Max
  <2>. QED BY <2>3 DEF most
<1>. QED BY <1>1, <1>2

(* The dirty rectangle grows by the rows that are marked and loses none. *)
LEMMA MarkDirtyCovers ==
  ASSUME NEW dirty \in Nat \X Nat, NEW y \in Int, NEW h \in Int
  PROVE  /\ gpipe_mark_dirty(dirty, y, h) \in Nat \X Nat
         /\ DirtyRows(dirty) \subseteq DirtyRows(gpipe_mark_dirty(dirty, y, h))
         /\ (y..(y + h - 1)) \cap Rows \subseteq DirtyRows(gpipe_mark_dirty(dirty, y, h))
<1>. DEFINE y0 == iclamp(y, 0, H)
            y1 == iclamp(y + h, 0, H)
            new == gpipe_mark_dirty(dirty, y, h)
<1>1. /\ y0 \in Nat /\ y1 \in Nat
      /\ \A r \in (y..(y + h - 1)) \cap Rows : r \in y0..(y1 - 1)
  BY HeightIsPositive DEF iclamp, Rows
<1>d. dirty[1] \in Nat /\ dirty[2] \in Nat
  OBVIOUS
<1>2. new = IF y1 <= y0 THEN dirty
            ELSE IF dirty = Clean THEN <<y0, y1>>
            ELSE <<Min({y0, dirty[1]}), Max({y1, dirty[2]})>>
  BY DEF gpipe_mark_dirty
<1>. HIDE DEF y0, y1, new
<1>3. CASE y1 <= y0
  <2>1. new = dirty
    BY <1>2, <1>3
  <2>2. (y..(y + h - 1)) \cap Rows = {}
    BY <1>1, <1>3
  <2>. QED BY <2>1, <2>2 DEF new
<1>4. CASE ~(y1 <= y0) /\ dirty = Clean
  <2>1. new = <<y0, y1>> /\ DirtyRows(dirty) = {}
    BY <1>2, <1>4 DEF DirtyRows, Clean
  <2>. QED BY <1>1, <2>1 DEF DirtyRows, new
<1>5. CASE ~(y1 <= y0) /\ dirty # Clean
  <2>. DEFINE a == Min({y0, dirty[1]})
              b == Max({y1, dirty[2]})
  <2>1. new = <<a, b>>
    BY <1>2, <1>5
  <2>2. /\ a \in Nat /\ b \in Nat /\ a <= y0 /\ a <= dirty[1] /\ b >= y1 /\ b >= dirty[2]
    <3>1. /\ a = IF y0 <= dirty[1] THEN y0 ELSE dirty[1]
          /\ b = IF y1 >= dirty[2] THEN y1 ELSE dirty[2]
      <4>1. y0 \in Int /\ y1 \in Int /\ dirty[1] \in Int /\ dirty[2] \in Int
        BY <1>1, <1>d
      <4>. QED BY <4>1, MinMaxOfTwo, Zenon
    <3>. HIDE DEF a, b
    <3>. QED BY <1>1, <1>d, <3>1
  <2>. HIDE DEF a, b
  <2>3. /\ y0..(y1 - 1) \subseteq a..(b - 1)
        /\ dirty[1]..(dirty[2] - 1) \subseteq a..(b - 1)
    BY <1>1, <1>d, <2>2
  <2>. QED BY <1>1, <2>1, <2>2, <2>3 DEF DirtyRows, new
<1>. QED BY <1>3, <1>4, <1>5

(* What drawing leaves alone. *)
SameCursor(n, s) ==
  /\ n.cy = s.cy /\ n.saved_px = s.saved_px /\ n.saved_valid = s.saved_valid
  /\ n.cursor_visible = s.cursor_visible /\ n.cur_dy = s.cur_dy

LEMMA DrawOnScreen ==
  ASSUME NEW s, Screen(s), NEW D \in SUBSET Rows, NEW f \in [D -> Cells],
         NEW y \in Int, NEW h \in Int, D \subseteq y..(y + h - 1)
  PROVE  /\ Screen(Draw(s, f, y, h)) /\ SameCursor(Draw(s, f, y, h), s)
         /\ Draw(s, f, y, h).back = [r \in Rows |-> IF r \in D THEN f[r] ELSE s.back[r]]
<1>. DEFINE n == Draw(s, f, y, h)
            back == [r \in Rows |-> IF r \in D THEN f[r] ELSE s.back[r]]
            dirty == gpipe_mark_dirty(s.dirty, y, h)
<1>s. s \in ScreenRecords /\ s.unsent \subseteq DirtyRows(s.dirty)
  BY DEF Screen
<1>1. DOMAIN f = D
  OBVIOUS
<1>2. back \in [Rows -> Cells]
  BY <1>s DEF ScreenRecords
<1>3. n = [s EXCEPT !.back = back, !.unsent = s.unsent \cup D, !.dirty = dirty]
  BY <1>1, <1>s DEF Draw, ScreenRecords
<1>4. /\ dirty \in Nat \X Nat /\ DirtyRows(s.dirty) \subseteq DirtyRows(dirty)
      /\ (y..(y + h - 1)) \cap Rows \subseteq DirtyRows(dirty)
  <2>1. s.dirty \in Nat \X Nat
    BY <1>s DEF ScreenRecords
  <2>. QED BY <2>1, MarkDirtyCovers
<1>5. s.unsent \cup D \subseteq DirtyRows(dirty)
  BY <1>s, <1>4
<1>. HIDE DEF n, back, dirty
<1>6. /\ n \in ScreenRecords /\ n.back = back /\ n.unsent = s.unsent \cup D /\ n.dirty = dirty
      /\ SameCursor(n, s)
  BY <1>s, <1>2, <1>3, <1>4 DEF ScreenRecords, SameCursor
<1>. QED BY <1>5, <1>6 DEF Screen, n, back

-----------------------------------------------------------------------------
(* The cursor: erasing it shows the column under it, painting it saves     *)
(* that column.                                                            *)
LEMMA ViewIsColumn ==
  ASSUME NEW s, Screen(s)
  PROVE  View(s) \in [Rows -> Cells] /\ (~s.saved_valid => View(s) = s.back)
BY DEF Screen, ScreenRecords, View

LEMMA CursorRestored ==
  ASSUME NEW s, Screen(s)
  PROVE  LET n == cursor_restore(s)
         IN /\ Screen(n) /\ n.back = View(s) /\ ~n.saved_valid /\ n.cy = s.cy
            /\ n.cursor_visible = s.cursor_visible /\ n.cur_dy = s.cur_dy
<1>s. s \in ScreenRecords /\ s.cy \in Rows /\ s.cy \in Int /\ s.saved_px \in Cells /\ s.saved_valid \in BOOLEAN
  BY DEF Screen, ScreenRecords, Rows
<1>1. CASE ~s.saved_valid
  BY <1>1, ViewIsColumn DEF cursor_restore
<1>2. CASE s.saved_valid
  <2>. DEFINE f == [r \in {s.cy} |-> s.saved_px]
              d == Draw(s, f, s.cy, 1)
  <2>1. /\ {s.cy} \in SUBSET Rows /\ f \in [{s.cy} -> Cells] /\ {s.cy} \subseteq s.cy..(s.cy + 1 - 1)
        /\ 1 \in Int /\ \A r \in {s.cy} : f[r] = s.saved_px
    BY <1>s
  <2>. HIDE DEF f
  <2>2. /\ Screen(d) /\ SameCursor(d, s)
        /\ d.back = [r \in Rows |-> IF r \in {s.cy} THEN f[r] ELSE s.back[r]]
    <3>. DEFINE D == {s.cy}
                y == s.cy
    <3>1. D \in SUBSET Rows /\ f \in [D -> Cells] /\ D \subseteq y..(y + 1 - 1) /\ y \in Int /\ 1 \in Int
      BY <1>s, <2>1
    <3>. HIDE DEF D, y
    <3>2. LET n == Draw(s, f, y, 1)
          IN /\ Screen(n) /\ SameCursor(n, s)
             /\ n.back = [r \in Rows |-> IF r \in D THEN f[r] ELSE s.back[r]]
      BY <3>1, DrawOnScreen
    <3>. QED BY <3>2 DEF D, y
  <2>3. d.back = View(s)
    BY <1>2, <2>1, <2>2 DEF View
  <2>. HIDE DEF d
  <2>4. cursor_restore(s) = [d EXCEPT !.saved_valid = FALSE]
    BY <1>2 DEF cursor_restore, d, f
  <2>. QED BY <2>2, <2>3, <2>4 DEF Screen, ScreenRecords, SameCursor
<1>. QED BY <1>1, <1>2

LEMMA CursorPaints ==
  ASSUME NEW s, Screen(s), ~s.saved_valid
  PROVE  LET n == cursor_paint(s)
         IN /\ Screen(n) /\ View(n) = s.back /\ n.saved_valid /\ n.cy = s.cy
            /\ n.cursor_visible = s.cursor_visible /\ n.cur_dy = s.cur_dy
            /\ \A r \in Rows : n.back[r].glass => s.back[r].glass
<1>s. s \in ScreenRecords /\ s.cy \in Rows /\ s.cy \in Int /\ s.back \in [Rows -> Cells]
  BY DEF Screen, ScreenRecords, Rows
<1>. DEFINE f == [r \in {s.cy} |-> Cell("arrow")]
            d == Draw(s, f, s.cy, 1)
            n == cursor_paint(s)
<1>0. Cell("arrow") \in Cells /\ Cell("arrow").glass = FALSE
  BY DEF Cell, Cells
<1>1. /\ {s.cy} \in SUBSET Rows /\ f \in [{s.cy} -> Cells] /\ {s.cy} \subseteq s.cy..(s.cy + 1 - 1)
      /\ 1 \in Int /\ \A r \in {s.cy} : f[r] = Cell("arrow")
  BY <1>s, <1>0
<1>. HIDE DEF f, n
<1>2. /\ Screen(d) /\ SameCursor(d, s)
      /\ d.back = [r \in Rows |-> IF r \in {s.cy} THEN f[r] ELSE s.back[r]]
  <2>1. s.cy \in Int /\ 1 \in Int /\ {s.cy} \in SUBSET Rows /\ {s.cy} \subseteq s.cy..(s.cy + 1 - 1)
    BY <1>s, <1>1, Zenon
  <2>2. f \in [{s.cy} -> Cells]
    BY <1>1, Zenon
  <2>. QED BY <2>1, <2>2, DrawOnScreen
<1>3. \A r \in Rows : d.back[r] = IF r = s.cy THEN Cell("arrow") ELSE s.back[r]
  BY <1>1, <1>2
<1>. HIDE DEF d
<1>4. n = [d EXCEPT !.saved_px = s.back[s.cy], !.saved_valid = TRUE]
  BY DEF n, cursor_paint, d, f
<1>5. s.back[s.cy] \in Cells
  BY <1>s
<1>. HIDE DEF n
<1>6. /\ Screen(n) /\ n.saved_valid /\ n.saved_px = s.back[s.cy] /\ n.back = d.back /\ n.cy = s.cy
      /\ n.cursor_visible = s.cursor_visible /\ n.cur_dy = s.cur_dy
  BY <1>2, <1>4, <1>5 DEF Screen, ScreenRecords, SameCursor
<1>7. View(n) = s.back
  BY <1>s, <1>3, <1>6 DEF View
<1>8. \A r \in Rows : n.back[r].glass => s.back[r].glass
  BY <1>0, <1>3, <1>6
<1>. QED BY <1>6, <1>7, <1>8 DEF n

LEMMA ClampOnScreen ==
  ASSUME NEW v \in Int
  PROVE  /\ iclamp(v, 0, H - 1) \in Rows
         /\ v \in Rows => iclamp(v, 0, H - 1) = v
BY HeightIsPositive DEF iclamp, Rows

(* cursor_update with dy, for a cursor that is to be seen. *)
LEMMA CursorUpdated ==
  ASSUME NEW s, Screen(s), NEW dy \in Int, s.cursor_visible
  PROVE  LET n == CursorPainted(CursorErased(s, dy), dy)
         IN /\ Screen(n) /\ View(n) = View(s) /\ n.saved_valid /\ n.cursor_visible
            /\ n.cur_dy = s.cur_dy /\ (dy = 0 => n.cy = s.cy)
            /\ \A r \in Rows : n.back[r].glass => s.back[r].glass \/ View(s)[r].glass
<1>. DEFINE e == CursorErased(s, dy)
            n == CursorPainted(e, dy)
<1>1. /\ Screen(e) /\ View(e) = View(s) /\ e.cursor_visible /\ e.cur_dy = s.cur_dy /\ e.cy = s.cy
      /\ \A r \in Rows : e.back[r].glass => s.back[r].glass \/ View(s)[r].glass
  <2>1. CASE dy = 0
    BY <2>1 DEF CursorErased
  <2>2. CASE dy # 0
    <3>1. e = cursor_restore(s)
      BY <2>2 DEF CursorErased
    <3>2. /\ Screen(e) /\ e.back = View(s) /\ ~e.saved_valid /\ e.cy = s.cy
          /\ e.cursor_visible = s.cursor_visible /\ e.cur_dy = s.cur_dy
      BY <3>1, CursorRestored
    <3>. HIDE DEF e
    <3>3. View(e) = View(s)
      BY <3>2, ViewIsColumn
    <3>. QED BY <3>2, <3>3
  <2>. QED BY <2>1, <2>2
<1>. HIDE DEF e
<1>2. CASE e.saved_valid
  <2>1. n = e
    BY <1>1, <1>2 DEF CursorPainted
  <2>. QED BY <1>1, <1>2, <2>1 DEF e
<1>3. CASE ~e.saved_valid
  <2>. DEFINE y == iclamp(e.cy + dy, 0, H - 1)
              m == [e EXCEPT !.cy = y]
  <2>0. e \in ScreenRecords /\ e.cy \in Rows /\ e.cy \in Int
    BY <1>1 DEF Screen, ScreenRecords, Rows
  <2>1. y \in Rows /\ (dy = 0 => y = e.cy)
    <3>1. e.cy + dy \in Int /\ (dy = 0 => e.cy + dy = e.cy)
      BY <2>0
    <3>. QED BY <2>0, <3>1, ClampOnScreen
  <2>2. n = cursor_paint(m)
    BY <1>1, <1>3, <2>0 DEF CursorPainted, ScreenRecords
  <2>. HIDE DEF y
  <2>3. /\ Screen(m) /\ m.back = e.back /\ m.cy = y /\ ~m.saved_valid
        /\ m.cursor_visible /\ m.cur_dy = e.cur_dy
    BY <1>1, <1>3, <2>0, <2>1 DEF Screen, ScreenRecords
  <2>. HIDE DEF m, n
  <2>4. /\ Screen(n) /\ View(n) = m.back /\ n.saved_valid /\ n.cy = m.cy
        /\ n.cursor_visible = m.cursor_visible /\ n.cur_dy = m.cur_dy
        /\ \A r \in Rows : n.back[r].glass => m.back[r].glass
    BY <2>2, <2>3, CursorPaints
  <2>5. View(e) = e.back
    BY <1>1, <1>3, ViewIsColumn
  <2>. QED BY <1>1, <2>1, <2>3, <2>4, <2>5 DEF n, e
<1>. QED BY <1>2, <1>3

LEMMA FieldsSet ==
  ASSUME NEW s \in ScreenRecords, NEW visible \in BOOLEAN
  PROVE  [s EXCEPT !.cur_dy = 0, !.cursor_visible = visible] \in ScreenRecords
<1>1. 0 \in Int
  OBVIOUS
<1>. QED BY <1>1, Zenon DEF ScreenRecords

LEMMA CursorHidden ==
  ASSUME NEW s, Screen(s)
  PROVE  LET n == hide_cursor_locked(s)
         IN /\ Screen(n) /\ n.back = View(s) /\ ~n.saved_valid /\ n.cy = s.cy /\ n.cur_dy = 0
<1>. DEFINE m == [mouse_get_cursor_delta(s) EXCEPT !.cursor_visible = FALSE]
<1>s. s \in ScreenRecords /\ s.unsent \subseteq DirtyRows(s.dirty)
  BY DEF Screen
<1>m. m = [s EXCEPT !.cur_dy = 0, !.cursor_visible = FALSE]
  BY <1>s DEF mouse_get_cursor_delta, ScreenRecords
<1>1. /\ Screen(m) /\ m.back = s.back /\ m.cy = s.cy /\ m.saved_valid = s.saved_valid
      /\ m.saved_px = s.saved_px /\ m.cur_dy = 0 /\ ~m.cursor_visible
  <2>. HIDE DEF m
  <2>1. m \in ScreenRecords
    BY <1>s, <1>m, FieldsSet, Zenon
  <2>. QED BY <1>s, <1>m, <2>1 DEF Screen, ScreenRecords
<1>. HIDE DEF m
<1>2. /\ Screen(cursor_restore(m)) /\ cursor_restore(m).back = View(m) /\ ~cursor_restore(m).saved_valid
      /\ cursor_restore(m).cy = m.cy /\ cursor_restore(m).cur_dy = m.cur_dy
      /\ cursor_restore(m).cursor_visible = m.cursor_visible
  BY <1>1, CursorRestored
<1>3. hide_cursor_locked(s) = cursor_update(m, s.cur_dy)
  BY DEF hide_cursor_locked, m
<1>4. cursor_update(m, s.cur_dy) = cursor_restore(m)
  BY <1>1, <1>2 DEF cursor_update, CursorErased, CursorPainted
<1>5. View(m) = View(s)
  BY <1>1 DEF View
<1>. QED BY <1>1, <1>2, <1>3, <1>4, <1>5

LEMMA CursorShown ==
  ASSUME NEW s, Screen(s), ~s.saved_valid
  PROVE  LET n == show_cursor_locked(s)
         IN /\ Screen(n) /\ View(n) = s.back /\ n.saved_valid
            /\ (s.cur_dy = 0 => n.cy = s.cy)
            /\ \A r \in Rows : n.back[r].glass => s.back[r].glass
<1>. DEFINE m == [mouse_get_cursor_delta(s) EXCEPT !.cursor_visible = TRUE]
<1>s. s \in ScreenRecords /\ s.unsent \subseteq DirtyRows(s.dirty)
  BY DEF Screen
<1>m. m = [s EXCEPT !.cur_dy = 0, !.cursor_visible = TRUE]
  BY <1>s DEF mouse_get_cursor_delta, ScreenRecords
<1>1. /\ Screen(m) /\ m.back = s.back /\ m.cy = s.cy /\ ~m.saved_valid /\ m.cursor_visible
      /\ s.cur_dy \in Int
  <2>. HIDE DEF m
  <2>1. m \in ScreenRecords
    BY <1>s, <1>m, FieldsSet, Zenon
  <2>. QED BY <1>s, <1>m, <2>1 DEF Screen, ScreenRecords
<1>. HIDE DEF m
<1>2. show_cursor_locked(s) = CursorPainted(CursorErased(m, s.cur_dy), s.cur_dy)
  BY DEF show_cursor_locked, cursor_update, m
<1>3. View(m) = m.back
  BY <1>1, ViewIsColumn
<1>. QED BY <1>1, <1>2, <1>3, CursorUpdated

-----------------------------------------------------------------------------
(* The graphics pipe and the window over the column. *)
LEMMA Presented ==
  ASSUME NEW s, Screen(s)
  PROVE  LET n == gpipe_present(s) IN Screen(n) /\ SameCursor(n, s) /\ n.back = s.back
<1>. DEFINE n == gpipe_present(s)
<1>s. s \in ScreenRecords /\ s.unsent \subseteq DirtyRows(s.dirty)
  BY DEF Screen
<1>1. n = [s EXCEPT !.unsent = {}, !.dirty = Clean]
  BY <1>s DEF gpipe_present, DirtyRows, ScreenRecords
<1>2. Clean \in Nat \X Nat /\ {} \in SUBSET Rows
  BY DEF Clean
<1>. HIDE DEF n
<1>3. n \in ScreenRecords
  BY <1>s, <1>1, <1>2 DEF ScreenRecords
<1>4. n.unsent = {} /\ n.back = s.back /\ SameCursor(n, s)
  BY <1>s, <1>1 DEF ScreenRecords, SameCursor
<1>. QED BY <1>3, <1>4 DEF Screen, n

LEMMA DrawnBeside ==
  ASSUME NEW s, Screen(s), NEW y \in Int, NEW h \in Int
  PROVE  LET n == DrawBeside(s, y, h) IN Screen(n) /\ SameCursor(n, s) /\ n.back = s.back
<1>s. s.back \in [Rows -> Cells]
  BY DEF Screen, ScreenRecords
<1>. DEFINE D == (y..(y + h - 1)) \cap Rows
            f == [r \in D |-> s.back[r]]
            n == Draw(s, f, y, h)
<1>1. D \in SUBSET Rows /\ D \subseteq y..(y + h - 1)
  OBVIOUS
<1>2. f \in [D -> Cells] /\ \A r \in D : f[r] = s.back[r]
  BY <1>s
<1>. HIDE DEF D, f
<1>3. /\ Screen(n) /\ SameCursor(n, s)
      /\ n.back = [r \in Rows |-> IF r \in D THEN f[r] ELSE s.back[r]]
  BY <1>1, <1>2, DrawOnScreen
<1>. HIDE DEF n
<1>4. n.back = s.back
  BY <1>s, <1>2, <1>3
<1>5. DrawBeside(s, y, h) = n
  BY DEF DrawBeside, n, f, D
<1>. QED BY <1>3, <1>4, <1>5

WindowFields == {"open", "y", "saved", "dragging", "drag_dy", "prev_left"}

Window(w) ==
  /\ w = [f \in WindowFields |-> w[f]]
  /\ w.open \in BOOLEAN /\ w.y \in Int

LEMMA RegionOnScreen ==
  ASSUME NEW w, w.y \in Int
  PROVE  Region(w) \in SUBSET Rows /\ Region(w) \subseteq w.y..(w.y + RegionH - 1) /\ RegionH \in Int
BY HeightIsPositive DEF Region

LEMMA WindowIsDrawn ==
  ASSUME NEW s, Screen(s), NEW w, w.y \in Int
  PROVE  LET n == draw_all(s, w)
         IN /\ Screen(n) /\ SameCursor(n, s)
            /\ n.back = [r \in Rows |-> IF r \in Region(w) THEN gpipe_pixel_blend(s.back[r])
                                        ELSE s.back[r]]
<1>s. s.back \in [Rows -> Cells]
  BY DEF Screen, ScreenRecords
<1>. DEFINE f == [r \in Region(w) |-> gpipe_pixel_blend(s.back[r])]
            c == Draw(s, f, w.y, RegionH)
            n == DrawBeside(c, w.y, WIN_H)
<1>0. \A p \in Cells : gpipe_pixel_blend(p) \in Cells
  BY DEF gpipe_pixel_blend, Cells
<1>1. /\ f \in [Region(w) -> Cells] /\ \A r \in Region(w) : f[r] = gpipe_pixel_blend(s.back[r])
      /\ Region(w) \in SUBSET Rows
  BY <1>s, <1>0, RegionOnScreen
<1>. HIDE DEF f
<1>2. /\ Screen(c) /\ SameCursor(c, s)
      /\ c.back = [r \in Rows |-> IF r \in Region(w) THEN f[r] ELSE s.back[r]]
  BY <1>1, RegionOnScreen, DrawOnScreen
<1>. HIDE DEF c
<1>3. WIN_H \in Int
  BY DesktopAssumption
<1>4. Screen(n) /\ SameCursor(n, c) /\ n.back = c.back
  BY <1>2, <1>3, DrawnBeside
<1>5. draw_all(s, w) = n
  BY DEF draw_all, draw_chrome, draw_about_content, n, c, f
<1>. HIDE DEF n
<1>6. SameCursor(n, s)
  BY <1>2, <1>4 DEF SameCursor
<1>7. n.back = [r \in Rows |-> IF r \in Region(w) THEN gpipe_pixel_blend(s.back[r]) ELSE s.back[r]]
  BY <1>1, <1>2, <1>4
<1>. QED BY <1>4, <1>5, <1>6, <1>7

LEMMA RegionRestored ==
  ASSUME NEW s, Screen(s), NEW w, w.y \in Int, w.saved \in [Region(w) -> Cells]
  PROVE  LET n == restore_region(s, w)
         IN /\ Screen(n) /\ SameCursor(n, s)
            /\ n.back = [r \in Rows |-> IF r \in Region(w) THEN w.saved[r] ELSE s.back[r]]
<1>1. Region(w) \in SUBSET Rows /\ Region(w) \subseteq w.y..(w.y + RegionH - 1) /\ RegionH \in Int
  BY RegionOnScreen
<1>. QED BY <1>1, DrawOnScreen DEF restore_region

-----------------------------------------------------------------------------
(* The inductive invariant, of a screen, a window and a terminal. *)
Terminals == [gx : {0, 1}, gy : Rows, text : [Rows -> {"paper", "text"}], stale : SUBSET Rows]

(* A cell that shows text and nothing else. *)
PlainCell(c, r, t) ==
  c.paint # "arrow" /\ ~c.glass /\ (r \notin t.stale => c.paint = t.text[r])

PlainColumn(b, t) == b \in [Rows -> Cells] /\ \A r \in Rows : PlainCell(b[r], r, t)

WindowSaves(w, t) ==
  w.open => w.saved \in [Region(w) -> Cells] /\ \A r \in Region(w) : PlainCell(w.saved[r], r, t)

UnderGlass(w, r) == w.open /\ r \in Region(w)

Shown(s, w, t) ==
  /\ Screen(s) /\ Window(w) /\ t \in Terminals /\ WindowSaves(w, t)
  /\ \A r \in Rows :
       /\ View(s)[r].paint # "arrow"
       /\ View(s)[r].glass => UnderGlass(w, r)
       /\ s.back[r].glass => UnderGlass(w, r)
       /\ r \notin t.stale => View(s)[r].paint = t.text[r]

(* The window as it is in the back buffer. *)
DrawnWindow ==
  IF about = "opening" THEN [win EXCEPT !.open = TRUE]
  ELSE IF about = "closing" THEN NoWindow ELSE win

(* The whole region of the window is on the screen. *)
RegionFits == win.y \in 0..(H - RegionH)

DesktopInv ==
  /\ Shown(scr, DrawnWindow, term)
  /\ Window(win) /\ RegionFits
  /\ win.open <=> about \in {"open"} \cup (Busy \ {"opening"})
  /\ about \in Busy \ {"due"} => ~scr.saved_valid

(* Presenting, hiding and showing the cursor change nothing of it. *)
LEMMA ShownPresented ==
  ASSUME NEW s, NEW w, NEW t, Shown(s, w, t)
  PROVE  Shown(gpipe_present(s), w, t) /\ gpipe_present(s).cy = s.cy
<1>1. LET n == gpipe_present(s) IN Screen(n) /\ SameCursor(n, s) /\ n.back = s.back
  BY Presented DEF Shown
<1>2. View(gpipe_present(s)) = View(s)
  BY <1>1 DEF View, SameCursor
<1>. QED BY <1>1, <1>2 DEF Shown, SameCursor

LEMMA ShownWithCursor ==
  ASSUME NEW s, NEW w, NEW t, Shown(s, w, t), ~s.saved_valid
  PROVE  /\ Shown(show_cursor_locked(s), w, t)
         /\ s.cur_dy = 0 => show_cursor_locked(s).cy = s.cy
<1>1. LET n == show_cursor_locked(s)
      IN /\ Screen(n) /\ View(n) = s.back /\ n.saved_valid
         /\ (s.cur_dy = 0 => n.cy = s.cy)
         /\ \A r \in Rows : n.back[r].glass => s.back[r].glass
  BY CursorShown DEF Shown
<1>2. View(s) = s.back
  BY ViewIsColumn DEF Shown
<1>. QED BY <1>1, <1>2 DEF Shown

(* Without cursor and window only the text is there. *)
LEMMA PlainWithoutWindow ==
  ASSUME NEW s, NEW w, NEW t, Shown(s, w, t), ~w.open
  PROVE  PlainColumn(View(s), t)
BY ViewIsColumn DEF Shown, PlainColumn, PlainCell, UnderGlass

LEMMA PlainWithoutBoth ==
  ASSUME NEW s, NEW w, NEW t, Shown(s, w, t), w.open, NEW h, Screen(h), h.back = View(s)
  PROVE  LET n == restore_region(h, w)
         IN Screen(n) /\ SameCursor(n, h) /\ PlainColumn(n.back, t)
<1>. DEFINE n == restore_region(h, w)
<1>1. /\ Window(w) /\ w.y \in Int /\ w.saved \in [Region(w) -> Cells]
      /\ \A r \in Region(w) : PlainCell(w.saved[r], r, t)
  BY DEF Shown, Window, WindowSaves
<1>2. /\ Screen(n) /\ SameCursor(n, h)
      /\ n.back = [r \in Rows |-> IF r \in Region(w) THEN w.saved[r] ELSE h.back[r]]
  BY <1>1, RegionRestored
<1>3. n.back \in [Rows -> Cells]
  BY <1>2 DEF Screen, ScreenRecords
<1>. HIDE DEF n
<1>4. ASSUME NEW r \in Rows PROVE PlainCell(n.back[r], r, t)
  <2>1. CASE r \in Region(w)
    <3>1. n.back[r] = w.saved[r]
      BY <1>2, <2>1
    <3>. QED BY <1>1, <2>1, <3>1
  <2>2. CASE r \notin Region(w)
    <3>1. n.back[r] = View(s)[r]
      BY <1>2, <2>2
    <3>2. ~UnderGlass(w, r)
      BY <2>2 DEF UnderGlass
    <3>. QED BY <3>1, <3>2 DEF Shown, PlainCell
  <2>. QED BY <2>1, <2>2
<1>. QED BY <1>2, <1>3, <1>4 DEF PlainColumn, n

(* A window that is drawn over the text after saving it. *)
LEMMA ShownWithWindow ==
  ASSUME NEW b, Screen(b), ~b.saved_valid, NEW t \in Terminals, PlainColumn(b.back, t),
         NEW w, Window(w), w.open, w.saved = [r \in Region(w) |-> b.back[r]],
         NEW v, v.y = w.y
  PROVE  LET n == draw_all(b, v)
         IN Shown(n, w, t) /\ ~n.saved_valid /\ n.cy = b.cy /\ n.cur_dy = b.cur_dy
<1>. DEFINE n == draw_all(b, v)
<1>0. w.y \in Int /\ v.y \in Int /\ Region(v) = Region(w) /\ Region(w) \in SUBSET Rows
  BY RegionOnScreen DEF Window, Region
<1>1. /\ Screen(n) /\ SameCursor(n, b)
      /\ n.back = [r \in Rows |-> IF r \in Region(w) THEN gpipe_pixel_blend(b.back[r]) ELSE b.back[r]]
  BY <1>0, WindowIsDrawn
<1>. HIDE DEF n
<1>2. ~n.saved_valid /\ n.cy = b.cy /\ n.cur_dy = b.cur_dy
  BY <1>1 DEF SameCursor
<1>3. View(n) = n.back
  BY <1>1, <1>2, ViewIsColumn
<1>4. WindowSaves(w, t)
  BY <1>0 DEF WindowSaves, PlainColumn
<1>5. ASSUME NEW r \in Rows
      PROVE  /\ n.back[r].paint # "arrow"
             /\ n.back[r].glass => UnderGlass(w, r)
             /\ r \notin t.stale => n.back[r].paint = t.text[r]
  <2>1. b.back[r] \in Cells /\ PlainCell(b.back[r], r, t)
    BY DEF PlainColumn
  <2>2. CASE r \in Region(w)
    <3>1. n.back[r] = gpipe_pixel_blend(b.back[r])
      BY <1>1, <2>2
    <3>2. n.back[r].paint = b.back[r].paint
      BY <2>1, <3>1 DEF gpipe_pixel_blend, Cells
    <3>. QED BY <2>1, <2>2, <3>2 DEF PlainCell, UnderGlass
  <2>3. CASE r \notin Region(w)
    <3>1. n.back[r] = b.back[r]
      BY <1>1, <2>3
    <3>. QED BY <2>1, <3>1 DEF PlainCell
  <2>. QED BY <2>2, <2>3
<1>. QED BY <1>1, <1>2, <1>3, <1>4, <1>5 DEF Shown, n

LEMMA WindowFieldSet ==
  ASSUME NEW w, Window(w), NEW v, NEW u
  PROVE  /\ [w EXCEPT !.y = v] = [f \in WindowFields |-> IF f = "y" THEN v ELSE w[f]]
         /\ [w EXCEPT !.open = TRUE] = [f \in WindowFields |-> IF f = "open" THEN TRUE ELSE w[f]]
         /\ [w EXCEPT !.saved = v] = [f \in WindowFields |-> IF f = "saved" THEN v ELSE w[f]]
         /\ [w EXCEPT !.dragging = u, !.prev_left = v] =
              [f \in WindowFields |-> IF f = "prev_left" THEN v ELSE IF f = "dragging" THEN u ELSE w[f]]
<1>1. w = [f \in WindowFields |-> w[f]]
  BY DEF Window
<1>2. [w EXCEPT !.y = v] = [f \in WindowFields |-> IF f = "y" THEN v ELSE w[f]]
  BY <1>1, Zenon DEF WindowFields
<1>3. [w EXCEPT !.open = TRUE] = [f \in WindowFields |-> IF f = "open" THEN TRUE ELSE w[f]]
  BY <1>1, Zenon DEF WindowFields
<1>4. [w EXCEPT !.saved = v] = [f \in WindowFields |-> IF f = "saved" THEN v ELSE w[f]]
  BY <1>1, Zenon DEF WindowFields
<1>5. [w EXCEPT !.dragging = u, !.prev_left = v] =
         [f \in WindowFields |-> IF f = "prev_left" THEN v ELSE IF f = "dragging" THEN u ELSE w[f]]
  BY <1>1, Zenon DEF WindowFields
<1>. QED BY <1>2, <1>3, <1>4, <1>5

LEMMA WindowOpened ==
  ASSUME NEW w, Window(w)
  PROVE  LET n == [w EXCEPT !.open = TRUE]
         IN Window(n) /\ n.open /\ n.y = w.y /\ n.saved = w.saved
<1>. DEFINE n == [w EXCEPT !.open = TRUE]
<1>1. /\ "y" \in WindowFields /\ "open" \in WindowFields /\ "saved" \in WindowFields
      /\ "y" # "open" /\ "saved" # "open"
  BY DEF WindowFields
<1>2. n = [f \in WindowFields |-> IF f = "open" THEN TRUE ELSE w[f]]
  BY WindowFieldSet, Zenon
<1>. HIDE DEF n
<1>3. n = [g \in WindowFields |-> n[g]] /\ n.open = TRUE /\ n.y = w.y /\ n.saved = w.saved
  BY <1>1, <1>2
<1>4. Window(n)
  BY <1>3 DEF Window
<1>. QED BY <1>3, <1>4 DEF n

(* save_region of a window that was put at y. *)
LEMMA RegionSaved ==
  ASSUME NEW w, Window(w), NEW y \in Int, NEW s
  PROVE  LET n == save_region([w EXCEPT !.y = y], s)
         IN /\ Window(n) /\ n.y = y /\ n.open = w.open
            /\ n.saved = [r \in Region(n) |-> s.back[r]]
<1>. DEFINE v == [w EXCEPT !.y = y]
            saved == [r \in Region(v) |-> s.back[r]]
            n == [v EXCEPT !.saved = saved]
<1>0. /\ "y" \in WindowFields /\ "open" \in WindowFields /\ "saved" \in WindowFields
      /\ "y" # "open" /\ "saved" # "y" /\ "saved" # "open"
  BY DEF WindowFields
<1>e. v = [f \in WindowFields |-> IF f = "y" THEN y ELSE w[f]]
  BY WindowFieldSet, Zenon
<1>. HIDE DEF v
<1>1. v = [g \in WindowFields |-> v[g]] /\ v.y = y /\ v.open = w.open
  BY <1>0, <1>e
<1>2. Window(v)
  BY <1>1 DEF Window
<1>. HIDE DEF v, saved
<1>n. n = [f \in WindowFields |-> IF f = "saved" THEN saved ELSE v[f]]
  BY <1>2, WindowFieldSet, Zenon
<1>. HIDE DEF n
<1>3. n = [g \in WindowFields |-> n[g]] /\ n.saved = saved /\ n.y = v.y /\ n.open = v.open
  BY <1>0, <1>n
<1>4. Window(n)
  BY <1>1, <1>2, <1>3 DEF Window
<1>5. Region(n) = Region(v)
  BY <1>3 DEF Region
<1>6. save_region(v, s) = n
  BY DEF save_region, n, saved
<1>. QED BY <1>1, <1>3, <1>4, <1>5, <1>6 DEF v, saved

(* wm_redraw and a move: the window is taken away and drawn again.         *)
LEMMA ShownAfterRedraw ==
  ASSUME NEW s, NEW w, NEW t, Shown(s, w, t), w.open, NEW y \in Int
  PROVE  LET n == RedrawAt(s, w, y)
         IN /\ Shown(n.scr, n.win, t) /\ n.win.open /\ n.win.y = y /\ Window(n.win)
            /\ ~n.scr.saved_valid
<1>. DEFINE h == hide_cursor_locked(s)
            b == restore_region(h, w)
            w2 == save_region([w EXCEPT !.y = y], b)
            d == draw_all(b, w2)
<1>0. Screen(s) /\ Window(w) /\ t \in Terminals
  BY DEF Shown
<1>1. Screen(h) /\ h.back = View(s) /\ ~h.saved_valid
  BY <1>0, CursorHidden
<1>. HIDE DEF h
<1>2. Screen(b) /\ SameCursor(b, h) /\ PlainColumn(b.back, t)
  BY <1>1, PlainWithoutBoth
<1>3. ~b.saved_valid
  BY <1>1, <1>2 DEF SameCursor
<1>. HIDE DEF b
<1>4. Window(w2) /\ w2.y = y /\ w2.open /\ w2.saved = [r \in Region(w2) |-> b.back[r]]
  BY <1>0, RegionSaved
<1>. HIDE DEF w2
<1>5. Shown(d, w2, t) /\ ~d.saved_valid
  BY <1>0, <1>2, <1>3, <1>4, ShownWithWindow
<1>6. RedrawAt(s, w, y) = [scr |-> d, win |-> w2]
  BY DEF RedrawAt, DrawnOver, d, w2, b, h
<1>. HIDE DEF d
<1>. QED BY <1>4, <1>5, <1>6

(* wm_open of a window that is not drawn yet: it is shown as if open. *)
LEMMA ShownAfterOpen ==
  ASSUME NEW s, NEW w, NEW t, Shown(s, w, t), ~w.open, NEW v, Window(v), NEW y \in Int
  PROVE  LET n == wm_open(s, [v EXCEPT !.y = y])
         IN /\ Shown(n.scr, [n.win EXCEPT !.open = TRUE], t)
            /\ Window(n.win) /\ n.win.open = v.open /\ n.win.y = y
            /\ ~n.scr.saved_valid
<1>. DEFINE b == hide_cursor_locked(s)
            w2 == save_region([v EXCEPT !.y = y], b)
            w3 == [w2 EXCEPT !.open = TRUE]
            d == draw_all(b, w2)
<1>0. Screen(s) /\ t \in Terminals /\ PlainColumn(View(s), t)
  BY PlainWithoutWindow DEF Shown
<1>1. Screen(b) /\ b.back = View(s) /\ ~b.saved_valid
  BY <1>0, CursorHidden
<1>. HIDE DEF b
<1>2. /\ Window(w2) /\ w2.y = y /\ w2.open = v.open
      /\ w2.saved = [r \in Region(w2) |-> b.back[r]]
  BY RegionSaved
<1>. HIDE DEF w2
<1>3. Window(w3) /\ w3.open /\ w3.y = w2.y /\ w3.saved = w2.saved
  BY <1>2, WindowOpened
<1>. HIDE DEF w3
<1>4. Region(w3) = Region(w2)
  BY <1>3 DEF Region
<1>5. Shown(d, w3, t) /\ ~d.saved_valid
  BY <1>0, <1>1, <1>2, <1>3, <1>4, ShownWithWindow
<1>6. wm_open(s, [v EXCEPT !.y = y]) = [scr |-> d, win |-> w2]
  BY DEF wm_open, DrawnOver, d, w2, b
<1>. HIDE DEF d
<1>7. Shown(d, [w2 EXCEPT !.open = TRUE], t)
  BY <1>5 DEF w3
<1>. DEFINE n == wm_open(s, [v EXCEPT !.y = y])
<1>8. n.scr = d /\ n.win = w2
  BY <1>6
<1>. HIDE DEF n
<1>9. [n.win EXCEPT !.open = TRUE] = [w2 EXCEPT !.open = TRUE]
  BY <1>8
<1>10. Shown(n.scr, [n.win EXCEPT !.open = TRUE], t)
  BY <1>7, <1>8, <1>9
<1>11. Window(n.win) /\ n.win.open = v.open /\ n.win.y = y /\ ~n.scr.saved_valid
  BY <1>2, <1>5, <1>8
<1>. QED BY <1>10, <1>11 DEF n

LEMMA NoWindowIsWindow == Window(NoWindow) /\ ~NoWindow.open
<1>1. NoWindow = [f \in WindowFields |-> NoWindow[f]]
  BY Zenon DEF NoWindow, WindowFields
<1>. QED BY <1>1 DEF Window, NoWindow

LEMMA ShownWithoutWindow ==
  ASSUME NEW b, Screen(b), ~b.saved_valid, NEW t \in Terminals, PlainColumn(b.back, t),
         NEW w, Window(w), ~w.open
  PROVE  Shown(b, w, t)
<1>1. View(b) = b.back
  BY ViewIsColumn
<1>. QED BY <1>1 DEF Shown, PlainColumn, PlainCell, WindowSaves

(* wm_close takes the window out of the buffer. *)
LEMMA ShownAfterClose ==
  ASSUME NEW s, NEW w, NEW t, Shown(s, w, t), w.open
  PROVE  Shown(wm_close(s, w), NoWindow, t) /\ ~wm_close(s, w).saved_valid
<1>. DEFINE h == hide_cursor_locked(s)
            b == restore_region(h, w)
<1>0. Screen(s) /\ t \in Terminals
  BY DEF Shown
<1>1. Screen(h) /\ h.back = View(s) /\ ~h.saved_valid
  BY <1>0, CursorHidden
<1>. HIDE DEF h
<1>2. Screen(b) /\ SameCursor(b, h) /\ PlainColumn(b.back, t)
  BY <1>1, PlainWithoutBoth
<1>3. ~b.saved_valid
  BY <1>1, <1>2 DEF SameCursor
<1>. HIDE DEF b
<1>4. Shown(b, NoWindow, t)
  BY <1>0, <1>2, <1>3, NoWindowIsWindow, ShownWithoutWindow
<1>. QED BY <1>3, <1>4 DEF wm_close, b, h

(* The cursor is shown again, wherever the mouse has moved it meanwhile.   *)
LEMMA ShownAfterShow ==
  ASSUME NEW s, NEW w, NEW t, Shown(s, w, t), ~s.saved_valid
  PROVE  Shown(ShownAgain(s), w, t)
BY ShownWithCursor, ShownPresented DEF ShownAgain

-----------------------------------------------------------------------------
(* The terminal.  The buffer without window and cursor, whatever is drawn. *)
LEMMA BareScreen ==
  ASSUME NEW s, Screen(s), NEW w, Window(w), w.open => w.saved \in [Region(w) -> Cells]
  PROVE  Screen(Bare(s, w)) /\ ~Bare(s, w).saved_valid
<1>. DEFINE h == cursor_restore(s)
<1>1. Screen(h) /\ ~h.saved_valid
  BY CursorRestored
<1>. HIDE DEF h
<1>2. CASE w.open
  <2>1. Screen(restore_region(h, w)) /\ SameCursor(restore_region(h, w), h)
    BY <1>1, <1>2, RegionRestored DEF Window
  <2>. QED BY <1>1, <1>2, <2>1 DEF Bare, wm_erase_all_for_scroll, SameCursor, h
<1>3. CASE ~w.open
  BY <1>1, <1>3 DEF Bare, wm_erase_all_for_scroll, h
<1>. QED BY <1>2, <1>3

(* It is the text that was printed. *)
LEMMA BareIsText ==
  ASSUME NEW s, NEW w, NEW t, Shown(s, w, t)
  PROVE  Screen(Bare(s, w)) /\ ~Bare(s, w).saved_valid /\ PlainColumn(Bare(s, w).back, t)
<1>. DEFINE h == cursor_restore(s)
<1>0. Screen(s) /\ Window(w) /\ (w.open => w.saved \in [Region(w) -> Cells])
  BY DEF Shown, WindowSaves
<1>1. Screen(h) /\ h.back = View(s)
  BY <1>0, CursorRestored
<1>. HIDE DEF h
<1>2. Screen(Bare(s, w)) /\ ~Bare(s, w).saved_valid
  BY <1>0, BareScreen
<1>3. CASE w.open
  <2>1. PlainColumn(restore_region(h, w).back, t)
    BY <1>1, <1>3, PlainWithoutBoth
  <2>. QED BY <1>2, <1>3, <2>1 DEF Bare, wm_erase_all_for_scroll, h
<1>4. CASE ~w.open
  <2>1. PlainColumn(h.back, t)
    BY <1>1, <1>4, PlainWithoutWindow
  <2>. QED BY <1>2, <1>4, <2>1 DEF Bare, wm_erase_all_for_scroll, h
<1>. QED BY <1>3, <1>4

(* New rows are drawn, and the window over them. *)
LEMMA ShownAfterReplace ==
  ASSUME NEW b, Screen(b), ~b.saved_valid, NEW w, Window(w),
         NEW t \in Terminals, NEW rows, PlainColumn(rows, t)
  PROVE  LET n == Replace(b, w, rows, t)
         IN Shown(n.scr, n.win, n.term) /\ n.win.open = w.open /\ n.win.y = w.y
<1>. DEFINE d == Draw(b, rows, 0, H)
            w2 == save_region(w, d)
            new == wm_repaint_all_after_scroll(d, w)
<1>1. /\ Rows \in SUBSET Rows /\ rows \in [Rows -> Cells] /\ 0 \in Int /\ H \in Int
      /\ Rows \subseteq 0..(0 + H - 1)
  BY HeightIsPositive DEF PlainColumn, Rows
<1>2. /\ Screen(d) /\ SameCursor(d, b)
      /\ d.back = [r \in Rows |-> IF r \in Rows THEN rows[r] ELSE b.back[r]]
  BY <1>1, DrawOnScreen
<1>3. d.back = rows /\ ~d.saved_valid
  BY <1>1, <1>2 DEF SameCursor
<1>. HIDE DEF d
<1>4. w.y \in Int /\ w = [w EXCEPT !.y = w.y]
  <2>1. [w EXCEPT !.y = w.y] = [f \in WindowFields |-> IF f = "y" THEN w.y ELSE w[f]]
    BY WindowFieldSet, Zenon
  <2>2. w = [f \in WindowFields |-> w[f]] /\ w.y \in Int
    BY DEF Window
  <2>3. [f \in WindowFields |-> IF f = "y" THEN w.y ELSE w[f]] = [f \in WindowFields |-> w[f]]
    BY Zenon
  <2>. QED BY <2>1, <2>2, <2>3, Zenon
<1>5. Window(w2) /\ w2.y = w.y /\ w2.open = w.open /\ w2.saved = [r \in Region(w2) |-> d.back[r]]
  <2>. DEFINE v == [w EXCEPT !.y = w.y]
  <2>1. LET n == save_region(v, d)
        IN Window(n) /\ n.y = w.y /\ n.open = w.open /\ n.saved = [r \in Region(n) |-> d.back[r]]
    BY <1>4, RegionSaved
  <2>2. v = w
    BY <1>4, Zenon
  <2>. HIDE DEF v
  <2>. QED BY <2>1, <2>2
<1>. HIDE DEF w2
<1>6. Shown(new.scr, new.win, t) /\ new.win.open = w.open /\ new.win.y = w.y
  <2>1. CASE w.open
    <3>1. new = [scr |-> draw_all(d, w2), win |-> w2]
      BY <2>1 DEF wm_repaint_all_after_scroll, w2
    <3>2. Shown(draw_all(d, w2), w2, t)
      BY <1>2, <1>3, <1>5, <2>1, ShownWithWindow
    <3>. QED BY <1>5, <3>1, <3>2
  <2>2. CASE ~w.open
    <3>1. new = [scr |-> d, win |-> w]
      BY <2>2 DEF wm_repaint_all_after_scroll
    <3>2. Shown(d, w, t)
      BY <1>2, <1>3, <2>2, ShownWithoutWindow
    <3>. QED BY <3>1, <3>2
  <2>. QED BY <2>1, <2>2
<1>. HIDE DEF new
<1>7. Replace(b, w, rows, t) = [scr |-> new.scr, win |-> new.win, term |-> t]
  BY DEF Replace, new, d
<1>. QED BY <1>6, <1>7

LEMMA PaperIsCell == Paper \in Cells /\ Paper.paint = "paper" /\ ~Paper.glass
BY DEF Paper, Cell, Cells

(* scroll: text and stale move up with the rows that are drawn. *)
LEMMA ShownAfterScroll ==
  ASSUME NEW s, NEW w, NEW t, Shown(s, w, t)
  PROVE  LET n == scroll(s, w, t)
         IN Shown(n.scr, n.win, n.term) /\ n.win.open = w.open /\ n.win.y = w.y
<1>. DEFINE b == Bare(s, w)
            text == Up(t.text, "paper")
            stale == {r - 1 : r \in t.stale \ {0}}
            rows == Up(b.back, Paper)
            u == [gx |-> 0, gy |-> H - 1, text |-> text, stale |-> stale]
<1>0. Window(w) /\ t \in Terminals
  BY DEF Shown
<1>1. Screen(b) /\ ~b.saved_valid /\ PlainColumn(b.back, t)
  BY BareIsText
<1>2. /\ 0 \in Rows /\ H - 1 \in Rows
      /\ \A r \in Rows : r # H - 1 => r + 1 \in Rows \ {0} /\ (r + 1) - 1 = r
      /\ \A r \in Rows \ {0} : r - 1 \in Rows
  BY HeightIsPositive DEF Rows
<1>3. t.text \in [Rows -> {"paper", "text"}] /\ t.stale \subseteq Rows
  BY <1>0 DEF Terminals
<1>4. stale \subseteq Rows /\ \A r \in Rows : r # H - 1 /\ r \notin stale => r + 1 \notin t.stale
  BY <1>2, <1>3
<1>5. /\ text \in [Rows -> {"paper", "text"}] /\ text[H - 1] = "paper"
      /\ \A r \in Rows : r # H - 1 => text[r] = t.text[r + 1]
  BY <1>2, <1>3 DEF Up
<1>. HIDE DEF b, text, stale
<1>6. u \in Terminals
  BY <1>2, <1>4, <1>5 DEF Terminals
<1>7. /\ rows \in [Rows -> Cells] /\ rows[H - 1] = Paper
      /\ \A r \in Rows : r # H - 1 => rows[r] = b.back[r + 1]
  BY <1>1, <1>2, PaperIsCell DEF Up, PlainColumn
<1>. HIDE DEF rows
<1>8. ASSUME NEW r \in Rows PROVE PlainCell(rows[r], r, u)
  <2>1. CASE r = H - 1
    BY <1>5, <1>7, <2>1, PaperIsCell DEF PlainCell
  <2>2. CASE r # H - 1
    <3>1. PlainCell(b.back[r + 1], r + 1, t)
      BY <1>1, <1>2, <2>2 DEF PlainColumn
    <3>2. rows[r] = b.back[r + 1] /\ u.text[r] = t.text[r + 1] /\ (r \notin u.stale => r + 1 \notin t.stale)
      BY <1>4, <1>5, <1>7, <2>2
    <3>. QED BY <3>1, <3>2 DEF PlainCell
  <2>. QED BY <2>1, <2>2
<1>9. PlainColumn(rows, u)
  BY <1>7, <1>8 DEF PlainColumn
<1>10. scroll(s, w, t) = Replace(b, w, rows, u)
  BY DEF scroll, b, rows, text, stale
<1>. HIDE DEF u
<1>. QED BY <1>0, <1>1, <1>6, <1>9, <1>10, ShownAfterReplace

(* terminal_clear, of whatever is drawn: only what the window saved has    *)
(* to be a region of it.                                                   *)
LEMMA ShownAfterClear ==
  ASSUME NEW s, Screen(s), NEW w, Window(w), w.open => w.saved \in [Region(w) -> Cells]
  PROVE  LET n == terminal_clear(s, w)
         IN Shown(n.scr, n.win, n.term) /\ n.win.open = w.open /\ n.win.y = w.y
<1>. DEFINE rows == [r \in Rows |-> Paper]
            text == [r \in Rows |-> "paper"]
            u == [gx |-> 0, gy |-> 0, text |-> text, stale |-> {}]
<1>1. Screen(Bare(s, w)) /\ ~Bare(s, w).saved_valid
  BY BareScreen
<1>2. u \in Terminals
  BY HeightIsPositive DEF Terminals, Rows
<1>3. PlainColumn(rows, u)
  BY PaperIsCell DEF PlainColumn, PlainCell
<1>4. terminal_clear(s, w) = Replace(Bare(s, w), w, rows, u)
  BY DEF terminal_clear
<1>. HIDE DEF rows, u
<1>. QED BY <1>1, <1>2, <1>3, <1>4, ShownAfterReplace

(* A glyph or the caret is drawn where the terminal is. *)
LEMMA ShownInked ==
  ASSUME NEW s, NEW w, NEW t, Shown(s, w, t), NEW paint \in {"paper", "text"}
  PROVE  /\ Shown(Ink(s, t, paint), w, Printed(s, w, t, paint))
         /\ Printed(s, w, t, paint).gx = t.gx /\ Printed(s, w, t, paint).gy = t.gy
<1>. DEFINE n == Ink(s, t, paint)
            u == Printed(s, w, t, paint)
<1>0. /\ Screen(s) /\ Window(w) /\ t \in Terminals /\ WindowSaves(w, t)
      /\ t.gy \in Rows /\ t.gy \in Int
  BY HeightIsPositive DEF Shown, Terminals, Rows
<1>1. CASE t.gx # 0
  <2>1. Screen(n) /\ SameCursor(n, s) /\ n.back = s.back
    BY <1>0, <1>1, DrawnBeside DEF Ink
  <2>2. View(n) = View(s)
    BY <2>1 DEF View, SameCursor
  <2>3. u = t
    BY <1>1 DEF Printed
  <2>. HIDE DEF n, u
  <2>4. Shown(n, w, u)
    BY <2>1, <2>2, <2>3 DEF Shown
  <2>. QED BY <2>3, <2>4 DEF n, u
<1>2. CASE t.gx = 0
  <2>. DEFINE f == [r \in {t.gy} |-> Cell(paint)]
              Hidden == s.saved_valid /\ s.cy = t.gy
  <2>0. Cell(paint) \in Cells /\ Cell(paint).paint = paint /\ ~Cell(paint).glass
    BY DEF Cell, Cells
  <2>1. /\ f \in [{t.gy} -> Cells] /\ {t.gy} \in SUBSET Rows /\ f[t.gy] = Cell(paint) /\ 1 \in Int
        /\ {t.gy} \subseteq t.gy..(t.gy + 1 - 1)
    BY <1>0, <2>0
  <2>. HIDE DEF f
  <2>2. n = Draw(s, f, t.gy, 1)
    BY <1>2 DEF Ink, f
  <2>3. /\ Screen(n) /\ SameCursor(n, s)
        /\ n.back = [r \in Rows |-> IF r \in {t.gy} THEN f[r] ELSE s.back[r]]
    BY <1>0, <2>1, <2>2, DrawOnScreen
  <2>. HIDE DEF n
  <2>4. /\ n.back[t.gy] = Cell(paint)
        /\ \A r \in Rows : r # t.gy => n.back[r] = s.back[r]
    BY <1>0, <2>1, <2>3
  <2>5. /\ \A r \in Rows : r # t.gy => View(n)[r] = View(s)[r]
        /\ View(n)[t.gy] = IF Hidden THEN View(s)[t.gy] ELSE Cell(paint)
    BY <1>0, <2>3, <2>4 DEF View, SameCursor
  <2>. DEFINE covered == Covered(s, w, t.gy)
              text == [t.text EXCEPT ![t.gy] = IF covered THEN "paper" ELSE paint]
              stale == IF covered THEN t.stale \cup {t.gy} ELSE t.stale \ {t.gy}
  <2>6. u = [t EXCEPT !.text = text, !.stale = stale]
    BY <1>2 DEF Printed, covered
  <2>7. /\ text \in [Rows -> {"paper", "text"}] /\ stale \in SUBSET Rows
        /\ \A r \in Rows : r # t.gy => text[r] = t.text[r] /\ (r \in stale <=> r \in t.stale)
        /\ covered => t.gy \in stale
        /\ ~covered => text[t.gy] = paint
    BY <1>0 DEF Terminals
  <2>8. /\ ~covered => ~Hidden /\ ~UnderGlass(w, t.gy)
    BY DEF Covered, UnderGlass
  <2>. HIDE DEF u, covered, text, stale
  <2>9. u \in Terminals /\ u.gx = t.gx /\ u.gy = t.gy /\ u.text = text /\ u.stale = stale
    BY <1>0, <2>6, <2>7 DEF Terminals
  <2>10. WindowSaves(w, u)
    <3>. SUFFICES ASSUME w.open, NEW r \in Region(w) PROVE PlainCell(w.saved[r], r, u)
      BY <1>0 DEF WindowSaves
    <3>1. PlainCell(w.saved[r], r, t) /\ r \in Rows
      BY <1>0 DEF WindowSaves, Region
    <3>2. CASE r = t.gy
      BY <2>7, <2>8, <2>9, <3>1, <3>2 DEF PlainCell, UnderGlass
    <3>3. CASE r # t.gy
      BY <2>7, <2>9, <3>1, <3>3 DEF PlainCell
    <3>. QED BY <3>2, <3>3
  <2>11. ASSUME NEW r \in Rows
         PROVE  /\ View(n)[r].paint # "arrow"
                /\ View(n)[r].glass => UnderGlass(w, r)
                /\ n.back[r].glass => UnderGlass(w, r)
                /\ r \notin u.stale => View(n)[r].paint = u.text[r]
    <3>1. /\ View(s)[r].paint # "arrow" /\ (View(s)[r].glass => UnderGlass(w, r))
          /\ (s.back[r].glass => UnderGlass(w, r))
          /\ (r \notin t.stale => View(s)[r].paint = t.text[r])
      BY DEF Shown
    <3>2. CASE r # t.gy
      BY <2>4, <2>5, <2>7, <2>9, <3>1, <3>2
    <3>3. CASE r = t.gy
      <4>1. CASE Hidden
        BY <2>0, <2>4, <2>5, <2>7, <2>8, <2>9, <3>1, <3>3, <4>1
      <4>2. CASE ~Hidden
        BY <2>0, <2>4, <2>5, <2>7, <2>9, <3>3, <4>2
      <4>. QED BY <4>1, <4>2
    <3>. QED BY <3>2, <3>3
  <2>12. Shown(n, w, u)
    BY <1>0, <2>3, <2>9, <2>10, <2>11 DEF Shown
  <2>. QED BY <2>9, <2>12 DEF n, u
<1>. QED BY <1>1, <1>2

(* The window is drawn again over a glyph. *)
LEMMA ShownDrawnOver ==
  ASSUME NEW s, NEW w, NEW t, Shown(s, w, t), w.open
  PROVE  Shown(draw_all(s, w), w, t)
<1>. DEFINE n == draw_all(s, w)
<1>0. Screen(s) /\ Window(w) /\ w.y \in Int /\ t \in Terminals /\ WindowSaves(w, t)
  BY DEF Shown, Window
<1>1. /\ Screen(n) /\ SameCursor(n, s)
      /\ n.back = [r \in Rows |-> IF r \in Region(w) THEN gpipe_pixel_blend(s.back[r]) ELSE s.back[r]]
  BY <1>0, WindowIsDrawn
<1>. HIDE DEF n
<1>2. ASSUME NEW r \in Rows
      PROVE  /\ View(n)[r].paint # "arrow"
             /\ View(n)[r].glass => UnderGlass(w, r)
             /\ n.back[r].glass => UnderGlass(w, r)
             /\ r \notin t.stale => View(n)[r].paint = t.text[r]
  <2>1. /\ View(s)[r].paint # "arrow" /\ (View(s)[r].glass => UnderGlass(w, r))
        /\ (s.back[r].glass => UnderGlass(w, r))
        /\ (r \notin t.stale => View(s)[r].paint = t.text[r])
    BY DEF Shown
  <2>2. n.back[r].paint = s.back[r].paint /\ (n.back[r].glass => UnderGlass(w, r))
    <3>1. s.back[r] \in Cells
      BY <1>0 DEF Screen, ScreenRecords
    <3>2. CASE r \in Region(w)
      <4>1. n.back[r] = gpipe_pixel_blend(s.back[r])
        BY <1>1, <3>2
      <4>2. gpipe_pixel_blend(s.back[r]).paint = s.back[r].paint
        BY <3>1 DEF gpipe_pixel_blend, Cells
      <4>. QED BY <3>2, <4>1, <4>2 DEF UnderGlass
    <3>3. CASE r \notin Region(w)
      BY <1>1, <2>1, <3>3
    <3>. QED BY <3>2, <3>3
  <2>3. CASE s.saved_valid /\ r = s.cy
    <3>1. View(n)[r] = View(s)[r]
      BY <1>1, <2>3 DEF View, SameCursor
    <3>. QED BY <2>1, <2>2, <3>1
  <2>4. CASE ~(s.saved_valid /\ r = s.cy)
    <3>1. View(n)[r] = n.back[r] /\ View(s)[r] = s.back[r]
      BY <1>1, <2>4 DEF View, SameCursor
    <3>. QED BY <2>1, <2>2, <3>1
  <2>. QED BY <2>3, <2>4
<1>. QED BY <1>0, <1>1, <1>2 DEF Shown, n

(* What an operation of the terminal hands on. *)
Results(n, w) ==
  /\ n = [scr |-> n.scr, win |-> n.win, term |-> n.term]
  /\ Shown(n.scr, n.win, n.term) /\ n.win.open = w.open /\ n.win.y = w.y

LEMMA ShownAfterChr ==
  ASSUME NEW s, NEW w, NEW t, Shown(s, w, t), NEW paint \in {"paper", "text"}
  PROVE  /\ Results(chr(s, w, t, paint), w)
         /\ chr(s, w, t, paint).win = w
         /\ chr(s, w, t, paint).term.gx = t.gx /\ chr(s, w, t, paint).term.gy = t.gy
<1>. DEFINE d == Ink(s, t, paint)
            u == Printed(s, w, t, paint)
            over == IF w.open /\ t.gy \in Region(w) THEN draw_all(d, w) ELSE d
<1>1. Shown(d, w, u) /\ u.gx = t.gx /\ u.gy = t.gy
  BY ShownInked
<1>2. chr(s, w, t, paint) = [scr |-> over, win |-> w, term |-> u]
  BY DEF chr
<1>. HIDE DEF d, u
<1>3. Shown(over, w, u)
  BY <1>1, ShownDrawnOver
<1>. HIDE DEF over
<1>. QED BY <1>1, <1>2, <1>3 DEF Results

LEMMA TerminalMoved ==
  ASSUME NEW s, NEW w, NEW t, Shown(s, w, t), NEW x \in {0, 1}, NEW y \in Rows
  PROVE  Shown(s, w, [t EXCEPT !.gx = x, !.gy = y])
<1>. DEFINE u == [t EXCEPT !.gx = x, !.gy = y]
<1>1. t \in Terminals
  BY DEF Shown
<1>2. u \in Terminals /\ u.text = t.text /\ u.stale = t.stale
  BY <1>1 DEF Terminals
<1>. HIDE DEF u
<1>. QED BY <1>2 DEF Shown, WindowSaves, PlainCell, u

LEMMA ShownAfterNewline ==
  ASSUME NEW s, NEW w, NEW t, Shown(s, w, t)
  PROVE  Results(Newline(s, w, t), w)
<1>0. t \in Terminals /\ t.gy \in Rows
  BY DEF Shown, Terminals
<1>1. CASE t.gy + 1 >= H - 1
  <2>. DEFINE n == scroll(s, w, t)
  <2>1. Shown(n.scr, n.win, n.term) /\ n.win.open = w.open /\ n.win.y = w.y
    BY ShownAfterScroll
  <2>2. n = [scr |-> n.scr, win |-> n.win, term |-> n.term]
    BY DEF scroll, Replace
  <2>3. Newline(s, w, t) = n
    BY <1>1 DEF Newline
  <2>. HIDE DEF n
  <2>. QED BY <2>1, <2>2, <2>3 DEF Results
<1>2. CASE ~(t.gy + 1 >= H - 1)
  <2>. DEFINE u == [t EXCEPT !.gx = 0, !.gy = t.gy + 1]
  <2>1. t.gy + 1 \in Rows
    BY <1>0, <1>2, HeightIsPositive DEF Rows
  <2>2. Shown(s, w, u)
    BY <2>1, TerminalMoved
  <2>3. Newline(s, w, t) = [scr |-> s, win |-> w, term |-> u]
    BY <1>2 DEF Newline
  <2>. HIDE DEF u
  <2>. QED BY <2>2, <2>3 DEF Results
<1>. QED BY <1>1, <1>2

LEMMA TermOfResult ==
  ASSUME NEW n, NEW a, NEW b, NEW c, n = [scr |-> a, win |-> b, term |-> c], NEW x
  PROVE  [n EXCEPT !.term.gx = x] = [scr |-> a, win |-> b, term |-> [c EXCEPT !.gx = x]]
OBVIOUS

LEMMA ShownAfterPutchar ==
  ASSUME NEW s, NEW w, NEW t, Shown(s, w, t), NEW c \in {"text", "newline", "backspace"}
  PROVE  Results(putchar_nolock(c, s, w, t), w)
<1>0. t \in Terminals /\ t.gy \in Rows /\ t.gx \in {0, 1}
  BY DEF Shown, Terminals
<1>1. CASE c = "text"
  <2>. DEFINE one == chr(s, w, t, "text")
  <2>1. Results(one, w) /\ one.win = w /\ one.term.gx = t.gx /\ one.term.gy = t.gy
    BY ShownAfterChr
  <2>0. putchar_nolock(c, s, w, t) = IF t.gx = 0 THEN [one EXCEPT !.term.gx = 1]
                                     ELSE Newline(one.scr, one.win, one.term)
    BY <1>1 DEF putchar_nolock, PutText
  <2>. HIDE DEF one
  <2>2. CASE t.gx = 0
    <3>. DEFINE u == [one.term EXCEPT !.gx = 1, !.gy = t.gy]
                n == [scr |-> one.scr, win |-> one.win, term |-> u]
    <3>0. Shown(one.scr, one.win, one.term)
      BY <2>1 DEF Results
    <3>1. Shown(one.scr, one.win, u)
      BY <1>0, <3>0, TerminalMoved
    <3>2. [one EXCEPT !.term.gx = 1] = n
      <4>1. one.term \in Terminals
        BY <3>0 DEF Shown
      <4>2. [one.term EXCEPT !.gx = 1] = u
        BY <2>1, <4>1 DEF Terminals
      <4>3. one = [scr |-> one.scr, win |-> one.win, term |-> one.term]
        BY <2>1 DEF Results
      <4>. HIDE DEF u
      <4>4. [one EXCEPT !.term.gx = 1] = [scr |-> one.scr, win |-> one.win, term |-> [one.term EXCEPT !.gx = 1]]
        BY <4>3, TermOfResult
      <4>. QED BY <4>2, <4>4
    <3>. HIDE DEF u
    <3>3. Results(n, w)
      BY <2>1, <3>1 DEF Results
    <3>. QED BY <2>0, <2>2, <3>2, <3>3
  <2>3. CASE t.gx # 0
    <3>1. Results(Newline(one.scr, one.win, one.term), w)
      BY <2>1, ShownAfterNewline DEF Results
    <3>. QED BY <2>0, <2>3, <3>1
  <2>. QED BY <2>2, <2>3
<1>2. CASE c = "newline"
  BY <1>2, ShownAfterNewline DEF putchar_nolock
<1>3. CASE c = "backspace"
  <2>. DEFINE u == [t EXCEPT !.gx = 0, !.gy = t.gy]
  <2>1. [t EXCEPT !.gx = 0] = u
    BY <1>0 DEF Terminals
  <2>2. Shown(s, w, u)
    BY <1>0, TerminalMoved
  <2>. HIDE DEF u
  <2>3. Results(chr(s, w, u, "paper"), w)
    BY <2>2, ShownAfterChr
  <2>4. Results([scr |-> s, win |-> w, term |-> t], w)
    BY DEF Results
  <2>. QED BY <1>3, <2>1, <2>3, <2>4 DEF putchar_nolock
<1>. QED BY <1>1, <1>2, <1>3

-----------------------------------------------------------------------------
(* The steps.  Motion is collected or taken; the compositor erases and     *)
(* paints the cursor and copies what is dirty.                             *)
LEMMA MotionSet ==
  ASSUME NEW s, NEW w, NEW t, Shown(s, w, t), NEW v \in Int
  PROVE  LET n == [s EXCEPT !.cur_dy = v]
         IN Shown(n, w, t) /\ n.saved_valid = s.saved_valid
<1>. DEFINE n == [s EXCEPT !.cur_dy = v]
<1>1. s \in ScreenRecords /\ s.unsent \subseteq DirtyRows(s.dirty)
  BY DEF Shown, Screen
<1>2. n \in ScreenRecords
  BY <1>1, Zenon DEF ScreenRecords
<1>3. /\ n.unsent = s.unsent /\ n.dirty = s.dirty /\ n.back = s.back
      /\ n.cy = s.cy /\ n.saved_valid = s.saved_valid /\ n.saved_px = s.saved_px
      /\ n.cursor_visible = s.cursor_visible
  BY <1>1 DEF ScreenRecords
<1>. HIDE DEF n
<1>4. Screen(n) /\ View(n) = View(s)
  BY <1>1, <1>2, <1>3 DEF Screen, View
<1>. QED BY <1>3, <1>4 DEF Shown, n

LEMMA ShownAfterCompositor ==
  ASSUME NEW s, NEW w, NEW t, Shown(s, w, t), NEW dy \in Int
  PROVE  LET n == CursorPainted(CursorErased(s, dy), dy)
         IN Shown(n, w, t) /\ Shown(gpipe_present(n), w, t)
<1>. DEFINE n == CursorPainted(CursorErased(s, dy), dy)
<1>0. Screen(s) /\ s.cursor_visible \in BOOLEAN
  BY DEF Shown, Screen, ScreenRecords
<1>1. Shown(n, w, t)
  <2>1. CASE s.cursor_visible
    <3>1. /\ Screen(n) /\ View(n) = View(s)
          /\ \A r \in Rows : n.back[r].glass => s.back[r].glass \/ View(s)[r].glass
      BY <1>0, <2>1, CursorUpdated
    <3>. HIDE DEF n
    <3>. QED BY <3>1 DEF Shown
  <2>2. CASE ~s.cursor_visible
    <3>. DEFINE e == cursor_restore(s)
    <3>1. Screen(e) /\ e.back = View(s) /\ ~e.saved_valid /\ e.cursor_visible = s.cursor_visible
      BY <1>0, CursorRestored
    <3>2. CursorErased(s, dy) = e
      BY <2>2 DEF CursorErased
    <3>. HIDE DEF e
    <3>3. n = e
      BY <2>2, <3>1, <3>2 DEF CursorPainted
    <3>4. View(e) = View(s)
      BY <3>1, ViewIsColumn
    <3>. HIDE DEF n
    <3>. QED BY <3>1, <3>3, <3>4 DEF Shown
  <2>. QED BY <1>0, <2>1, <2>2
<1>. HIDE DEF n
<1>2. Shown(gpipe_present(n), w, t)
  BY <1>1, ShownPresented
<1>. QED BY <1>1, <1>2 DEF n

LEMMA MotionIsInt ==
  ASSUME NEW p \in Packets
  PROVE  MotionOf(p) \in Int
<1>1. p \in [left : BOOLEAN, neg : BOOLEAN, over : BOOLEAN, mag : {0, 1}]
  BY DesktopAssumption
<1>2. p.mag \in Int
  BY <1>1
<1>. QED BY <1>2 DEF MotionOf

(* wm_step changes neither place nor text of a window. *)
LEMMA WindowStepped ==
  ASSUME NEW s, NEW w, NEW t, Shown(s, w, t), NEW u, NEW v
  PROVE  LET n == [w EXCEPT !.dragging = u, !.prev_left = v]
         IN Shown(s, n, t) /\ n.open = w.open /\ n.y = w.y /\ n.y \in Int
<1>. DEFINE n == [w EXCEPT !.dragging = u, !.prev_left = v]
<1>0. Window(w)
  BY DEF Shown
<1>1. n = [f \in WindowFields |->
             IF f = "prev_left" THEN v ELSE IF f = "dragging" THEN u ELSE w[f]]
  BY <1>0, WindowFieldSet, Zenon
<1>. HIDE DEF n
<1>2. n.open = w.open /\ n.y = w.y /\ n.saved = w.saved
  BY <1>1 DEF WindowFields
<1>3. n = [f \in WindowFields |-> n[f]]
  BY <1>1
<1>4. Window(n) /\ n.y \in Int
  BY <1>0, <1>2, <1>3 DEF Window
<1>5. Region(n) = Region(w)
  BY <1>2 DEF Region
<1>. QED BY <1>2, <1>4, <1>5 DEF Shown, WindowSaves, UnderGlass, n

(* A turn of the about task. *)
LEMMA TurnShows ==
  ASSUME DesktopInv, NEW spot, about_task_turn(spot)
  PROVE  DesktopInv'
<1>. DEFINE w == [win EXCEPT !.dragging = left /\ (@ \/ spot = "bar"), !.prev_left = left]
            y == IF w.dragging THEN DragTo ELSE w.y
            new == RedrawAt(scr, w, y)
<1>0. /\ Shown(scr, win, term) /\ win.open /\ about = "open" /\ RegionFits
      /\ UNCHANGED <<term, left>>
  BY DEF DesktopInv, about_task_turn, DrawnWindow, Busy
<1>1. \/ w.dragging /\ scr' = new.scr /\ win' = new.win /\ about' = "moving"
      \/ y = w.y /\ win' = w /\ about' \in {"open", "due"} /\ UNCHANGED scr
  BY DEF about_task_turn
<1>2. Shown(scr, w, term) /\ Window(w) /\ w.open /\ w.y = win.y
  <2>. DEFINE drag == left /\ (win.dragging \/ spot = "bar")
  <2>1. w = [win EXCEPT !.dragging = drag, !.prev_left = left]
    OBVIOUS
  <2>2. \A u, v : LET n == [win EXCEPT !.dragging = u, !.prev_left = v]
                 IN Shown(scr, n, term) /\ n.open = win.open /\ n.y = win.y /\ n.y \in Int
    BY <1>0, WindowStepped
  <2>. HIDE DEF drag, w
  <2>3. Shown(scr, w, term) /\ w.open = win.open /\ w.y = win.y
    BY <2>1, <2>2, Zenon
  <2>. QED BY <1>0, <2>3 DEF Shown
<1>3. DragTo \in 0..(H - RegionH)
  <2>1. scr.cy \in Int /\ H - RegionH \in Nat
    BY <1>0, HeightIsPositive, DesktopAssumption DEF Shown, Screen, ScreenRecords, Rows
  <2>. QED BY <2>1 DEF DragTo, iclamp
<1>. HIDE DEF w
<1>4. y \in 0..(H - RegionH) /\ y \in Int
  <2>1. H - RegionH \in Int
    BY HeightIsPositive
  <2>. QED BY <1>0, <1>2, <1>3, <2>1 DEF RegionFits
<1>. HIDE DEF y
<1>5. /\ Shown(new.scr, new.win, term) /\ new.win.open /\ new.win.y = y /\ Window(new.win)
      /\ ~new.scr.saved_valid
  BY <1>2, <1>4, ShownAfterRedraw
<1>. HIDE DEF new
<1>6. CASE scr' = new.scr /\ win' = new.win /\ about' = "moving"
  BY <1>0, <1>4, <1>5, <1>6 DEF DesktopInv, DrawnWindow, RegionFits, Busy
<1>7. CASE win' = w /\ about' \in {"open", "due"} /\ UNCHANGED scr
  BY <1>0, <1>2, <1>7 DEF DesktopInv, DrawnWindow, RegionFits, Busy
<1>. QED BY <1>1, <1>6, <1>7

LEMMA DesktopInvInit == Init => DesktopInv
<1>. SUFFICES ASSUME Init PROVE DesktopInv
  OBVIOUS
<1>. DEFINE column == [r \in Rows |-> Paper]
            text == [r \in Rows |-> "paper"]
<1>1. column \in [Rows -> Cells] /\ \A r \in Rows : column[r] = Paper
  BY PaperIsCell
<1>2. text \in [Rows -> {"paper", "text"}] /\ \A r \in Rows : text[r] = "paper"
  OBVIOUS
<1>3. scr = [back |-> column, unsent |-> Rows, dirty |-> <<0, H>>,
             cy |-> H \div 2, saved_px |-> Paper, saved_valid |-> FALSE,
             cursor_visible |-> TRUE, cur_dy |-> 0]
  BY DEF Init
<1>4. term = [gx |-> 0, gy |-> 0, text |-> text, stale |-> {}]
  BY DEF Init
<1>. HIDE DEF column, text
<1>5. H \div 2 \in Rows /\ 0 \in Rows /\ Rows \subseteq 0..(H - 1) /\ <<0, H>> \in Nat \X Nat
  BY HeightIsPositive DEF Rows
<1>6. scr \in ScreenRecords
  BY <1>1, <1>3, <1>5, PaperIsCell DEF ScreenRecords
<1>7. Screen(scr) /\ scr.back = column /\ ~scr.saved_valid
  BY <1>3, <1>5, <1>6 DEF Screen, DirtyRows
<1>8. term \in Terminals
  BY <1>2, <1>4, <1>5 DEF Terminals
<1>9. PlainColumn(scr.back, term)
  BY <1>1, <1>2, <1>4, <1>7, PaperIsCell DEF PlainColumn, PlainCell
<1>10. Shown(scr, win, term)
  BY <1>7, <1>8, <1>9, NoWindowIsWindow, ShownWithoutWindow DEF Init
<1>11. NoWindow.y \in 0..(H - RegionH)
  BY HeightIsPositive, DesktopAssumption DEF NoWindow
<1>. QED BY <1>10, <1>11, NoWindowIsWindow DEF DesktopInv, DrawnWindow, RegionFits, Init, Busy

(* Every step keeps the invariant. *)
LEMMA DesktopStep ==
  ASSUME DesktopInv, [Next]_vars
  PROVE  DesktopInv'
<1>. DEFINE Goal == DesktopInv'
<1>0. /\ Shown(scr, DrawnWindow, term) /\ Window(win) /\ RegionFits
      /\ win.open <=> about \in {"open"} \cup (Busy \ {"opening"})
      /\ about \in Busy \ {"due"} => ~scr.saved_valid
  BY DEF DesktopInv
<1>i. about \notin Busy \/ about = "due" => Shown(scr, win, term)
  BY <1>0 DEF DrawnWindow, Busy
<1>s. /\ Screen(scr) /\ scr.cur_dy \in Int
      /\ about \notin Busy => (win.open => win.saved \in [Region(win) -> Cells])
  BY <1>0, <1>i DEF Shown, WindowSaves, Screen, ScreenRecords
<1>1. ASSUME NEW n, Results(n, win), Show(n), UNCHANGED <<left, about>> PROVE Goal
  BY <1>0, <1>1 DEF Results, Show, DesktopInv, DrawnWindow, RegionFits, Shown, Busy
<1>2. ASSUME NEW c \in {"text", "newline", "backspace"}, terminal_putchar(c) PROVE Goal
  BY <1>i, <1>1, <1>2, ShownAfterPutchar DEF terminal_putchar, Show
<1>3. ASSUME NEW s, Screen(s), Show(terminal_clear(s, win)), UNCHANGED <<left, about>> PROVE Goal
  <2>. DEFINE n == terminal_clear(s, win)
  <2>1. Shown(n.scr, n.win, n.term) /\ n.win.open = win.open /\ n.win.y = win.y
    BY <1>0, <1>s, <1>3, ShownAfterClear DEF Show
  <2>2. n = [scr |-> n.scr, win |-> n.win, term |-> n.term]
    BY DEF terminal_clear, Replace
  <2>. HIDE DEF n
  <2>3. Results(n, win)
    BY <2>1, <2>2 DEF Results
  <2>. QED BY <1>1, <1>3, <2>3 DEF n
<1>4. CASE ClearScreen
  BY <1>s, <1>3, <1>4 DEF ClearScreen
<1>5. CASE cmd_clearfb
  <2>. DEFINE rows == [r \in Rows |-> Paper]
  <2>1. /\ Rows \in SUBSET Rows /\ rows \in [Rows -> Cells] /\ 0 \in Int /\ H \in Int
        /\ Rows \subseteq 0..(0 + H - 1)
    BY HeightIsPositive, PaperIsCell DEF Rows
  <2>. HIDE DEF rows
  <2>2. Screen(Draw(scr, rows, 0, H))
    BY <1>s, <2>1, DrawOnScreen
  <2>3. Screen(gpipe_clear(scr))
    BY <2>2 DEF gpipe_clear, rows
  <2>. QED BY <1>3, <1>5, <2>3 DEF cmd_clearfb
<1>6. ASSUME NEW visible \in BOOLEAN, terminal_cursor_draw(visible) PROVE Goal
  <2>. DEFINE paint == IF visible THEN "text" ELSE "paper"
  <2>1. paint \in {"paper", "text"}
    OBVIOUS
  <2>2. /\ scr' = Ink(scr, term, paint) /\ term' = Printed(scr, win, term, paint)
        /\ UNCHANGED <<win, left, about>> /\ about \notin Busy
    BY <1>6 DEF terminal_cursor_draw
  <2>. HIDE DEF paint
  <2>3. Shown(Ink(scr, term, paint), win, Printed(scr, win, term, paint))
    BY <1>i, <2>1, <2>2, ShownInked
  <2>. QED BY <1>0, <2>2, <2>3 DEF DesktopInv, DrawnWindow, RegionFits, Busy
<1>7. CASE cmd_about
  BY <1>0, <1>7 DEF cmd_about, DesktopInv, DrawnWindow, RegionFits, Busy
<1>8. CASE about_task_begins
  <2>0. ~win.open /\ about = "created" /\ Shown(scr, win, term) /\ UNCHANGED <<term, left>>
    BY <1>0, <1>i, <1>8 DEF about_task_begins, Busy
  <2>1. CASE about' = "off" /\ UNCHANGED <<scr, win>>
    BY <1>0, <2>0, <2>1 DEF DesktopInv, DrawnWindow, RegionFits, Busy
  <2>2. CASE LET new == wm_open(scr, [NoWindow EXCEPT !.y = FirstY])
             IN scr' = new.scr /\ win' = new.win /\ about' = "opening"
    <3>. DEFINE new == wm_open(scr, [NoWindow EXCEPT !.y = FirstY])
    <3>1. FirstY \in Int /\ FirstY \in 0..(H - RegionH)
      BY HeightIsPositive, DesktopAssumption DEF FirstY, iclamp
    <3>2. /\ Shown(new.scr, [new.win EXCEPT !.open = TRUE], term)
          /\ Window(new.win) /\ ~new.win.open /\ new.win.y = FirstY /\ ~new.scr.saved_valid
      BY <2>0, <3>1, NoWindowIsWindow, ShownAfterOpen
    <3>. HIDE DEF new
    <3>3. scr' = new.scr /\ win' = new.win /\ about' = "opening"
      BY <2>2 DEF new
    <3>4. DrawnWindow' = [new.win EXCEPT !.open = TRUE]
      BY <3>3 DEF DrawnWindow
    <3>. QED BY <2>0, <3>1, <3>2, <3>3, <3>4 DEF DesktopInv, RegionFits, Busy
  <2>. QED BY <1>8, <2>1, <2>2 DEF about_task_begins
<1>9. ASSUME NEW spot, about_task_turn(spot) PROVE Goal
  BY <1>9, TurnShows
<1>10. CASE wm_redraw
  <2>. DEFINE new == RedrawAt(scr, win, win.y)
  <2>1. /\ about = "due" /\ win.open /\ Shown(scr, win, term)
        /\ scr' = new.scr /\ win' = new.win /\ about' = "drawing" /\ UNCHANGED term
    BY <1>0, <1>i, <1>10 DEF wm_redraw, Busy
  <2>2. /\ Shown(new.scr, new.win, term) /\ new.win.open /\ new.win.y = win.y
        /\ Window(new.win) /\ ~new.scr.saved_valid
    BY <1>0, <2>1, ShownAfterRedraw DEF Window
  <2>. HIDE DEF new
  <2>. QED BY <1>0, <2>1, <2>2 DEF DesktopInv, DrawnWindow, RegionFits, Busy
<1>11. ASSUME NEW esc \in BOOLEAN, about_task_ends(esc) PROVE Goal
  <2>1. /\ about = "open" /\ win.open /\ Shown(scr, win, term)
        /\ scr' = wm_close(scr, win) /\ about' = "closing" /\ UNCHANGED <<term, win>>
    BY <1>0, <1>i, <1>11 DEF about_task_ends, Busy
  <2>2. Shown(wm_close(scr, win), NoWindow, term) /\ ~wm_close(scr, win).saved_valid
    BY <2>1, ShownAfterClose
  <2>. QED BY <1>0, <2>1, <2>2 DEF DesktopInv, DrawnWindow, RegionFits, Busy
<1>12. CASE about_task_shows
  <2>1. about \in Busy \ {"due"} /\ scr' = ShownAgain(scr) /\ AfterShown /\ UNCHANGED <<term, left>>
    BY <1>12 DEF about_task_shows
  <2>2. Shown(scr', DrawnWindow, term)
    BY <1>0, <2>1, ShownAfterShow
  <2>3. CASE about = "opening"
    <3>1. /\ win' = [win EXCEPT !.open = TRUE] /\ about' = "open"
          /\ DrawnWindow = win' /\ DrawnWindow' = win'
      BY <2>1, <2>3 DEF AfterShown, DrawnWindow
    <3>2. Window(win') /\ win'.open /\ win'.y = win.y
      BY <1>0, <3>1, WindowOpened
    <3>. QED BY <1>0, <2>1, <2>2, <3>1, <3>2 DEF DesktopInv, RegionFits, Busy
  <2>4. CASE about \in {"moving", "drawing"}
    <3>1. UNCHANGED win /\ about' \in {"open", "due"} /\ DrawnWindow = win /\ DrawnWindow' = win
      BY <2>1, <2>4 DEF AfterShown, DrawnWindow
    <3>2. win.open
      BY <1>0, <2>4 DEF Busy
    <3>. QED BY <1>0, <2>1, <2>2, <3>1, <3>2 DEF DesktopInv, RegionFits, Busy
  <2>5. CASE about = "closing"
    <3>1. win' = NoWindow /\ about' = "off" /\ DrawnWindow = NoWindow /\ DrawnWindow' = NoWindow
      BY <2>1, <2>5 DEF AfterShown, DrawnWindow
    <3>2. NoWindow.y \in 0..(H - RegionH)
      BY HeightIsPositive, DesktopAssumption DEF NoWindow
    <3>. QED BY <2>1, <2>2, <3>1, <3>2, NoWindowIsWindow DEF DesktopInv, RegionFits, Busy
  <2>. QED BY <2>1, <2>3, <2>4, <2>5 DEF Busy
<1>13. ASSUME NEW p \in Packets, mouse_isr(p) PROVE Goal
  <2>. DEFINE n == [scr EXCEPT !.cur_dy = scr.cur_dy - MotionOf(p)]
  <2>1. scr.cur_dy - MotionOf(p) \in Int
    BY <1>s, MotionIsInt
  <2>2. Shown(n, DrawnWindow, term) /\ n.saved_valid = scr.saved_valid
    BY <1>0, <2>1, MotionSet
  <2>3. scr' = n /\ UNCHANGED <<term, win, about>>
    BY <1>13 DEF mouse_isr
  <2>. HIDE DEF n
  <2>4. DrawnWindow' = DrawnWindow
    BY <2>3 DEF DrawnWindow
  <2>. QED BY <1>0, <2>2, <2>3, <2>4 DEF DesktopInv, RegionFits
<1>14. CASE compositor_task
  <2>. DEFINE s == mouse_get_cursor_delta(scr)
              n == CursorPainted(CursorErased(s, scr.cur_dy), scr.cur_dy)
  <2>0. about \notin Busy
    BY <1>14 DEF compositor_task
  <2>1. Shown(s, win, term)
    BY <1>i, <2>0, MotionSet DEF mouse_get_cursor_delta
  <2>2. scr' = gpipe_present(n) /\ UNCHANGED <<term, win, left, about>>
    BY <1>14 DEF compositor_task
  <2>. HIDE DEF s
  <2>3. Shown(gpipe_present(n), win, term)
    BY <1>s, <2>1, ShownAfterCompositor
  <2>. HIDE DEF n
  <2>. QED BY <1>0, <2>0, <2>2, <2>3 DEF DesktopInv, DrawnWindow, RegionFits, Busy
<1>15. CASE UNCHANGED vars
  <2>1. DrawnWindow' = DrawnWindow
    BY <1>15 DEF vars, DrawnWindow
  <2>. QED BY <1>0, <1>15, <2>1 DEF vars, DesktopInv, RegionFits
<1>16. CASE Next
  BY <1>2, <1>4, <1>5, <1>6, <1>7, <1>8, <1>9, <1>10, <1>11, <1>12, <1>13, <1>14, <1>16 DEF Next
<1>. QED BY <1>15, <1>16

LEMMA DesktopInvAlways == Spec => []DesktopInv
<1>1. Init => DesktopInv
  BY DesktopInvInit
<1>2. DesktopInv /\ [Next]_vars => DesktopInv'
  BY DesktopStep
<1>. QED BY <1>1, <1>2, PTL DEF Spec

-----------------------------------------------------------------------------
(* Whatever was drawn and not yet copied to the screen lies in the dirty   *)
(* rectangle, whoever drew it: gpipe_mark_dirty forgets no row.            *)
THEOREM DirtyRectangleCovers == Spec => []DirtyCovers
<1>1. DesktopInv => DirtyCovers
  BY DEF DesktopInv, Shown, Screen, DirtyRows, DirtyCovers
<1>. QED BY <1>1, DesktopInvAlways, PTL

(* What DesktopInv says of the window that is drawn, in terms of win.     *)
LEMMA DrawnIsWindow ==
  ASSUME DesktopInv
  PROVE  /\ \A r : UnderGlass(DrawnWindow, r) => WindowDrawn /\ r \in Region(win)
         /\ WindowDrawn => /\ win.saved \in [Region(win) -> Cells]
                           /\ \A r \in Region(win) : PlainCell(win.saved[r], r, term)
<1>0. Shown(scr, DrawnWindow, term) /\ Window(win)
  BY DEF DesktopInv
<1>1. CASE about = "opening"
  <2>1. DrawnWindow = [win EXCEPT !.open = TRUE] /\ WindowDrawn
    BY <1>1 DEF DrawnWindow, WindowDrawn
  <2>. HIDE DEF DrawnWindow
  <2>2. DrawnWindow.open /\ DrawnWindow.y = win.y /\ DrawnWindow.saved = win.saved
    BY <1>0, <2>1, WindowOpened
  <2>3. Region(DrawnWindow) = Region(win)
    BY <2>2 DEF Region
  <2>. QED BY <1>0, <2>1, <2>2, <2>3 DEF Shown, WindowSaves, UnderGlass
<1>2. CASE about = "closing"
  <2>1. DrawnWindow = NoWindow /\ ~WindowDrawn
    BY <1>2 DEF DrawnWindow, WindowDrawn
  <2>. QED BY <2>1, NoWindowIsWindow DEF UnderGlass
<1>3. CASE about \notin {"opening", "closing"}
  <2>1. DrawnWindow = win /\ (WindowDrawn <=> win.open)
    BY <1>3 DEF DrawnWindow, WindowDrawn
  <2>. QED BY <1>0, <2>1 DEF Shown, WindowSaves, UnderGlass
<1>. QED BY <1>1, <1>2, <1>3

(* The arrow and the glass are drawn, and saved, only where the cursor and *)
(* the window are, between any two steps of a redraw too:                  *)
(* hide_cursor_locked and restore_region leave no ghost.                   *)
THEOREM NothingIsLeftBehind == Spec => []NoGhosts
<1>1. DesktopInv => NoGhosts
  <2>. SUFFICES ASSUME DesktopInv PROVE NoGhosts
    OBVIOUS
  <2>1. Shown(scr, DrawnWindow, term) /\ scr \in ScreenRecords
    BY DEF DesktopInv, Shown, Screen
  <2>2. ASSUME NEW r \in Rows
        PROVE  /\ scr.back[r].paint = "arrow" => scr.saved_valid /\ r = scr.cy
               /\ scr.back[r].glass => WindowDrawn /\ r \in Region(win)
    BY <2>1, DrawnIsWindow DEF Shown, View
  <2>3. scr.saved_valid => /\ scr.saved_px.paint # "arrow"
                           /\ scr.saved_px.glass => WindowDrawn /\ scr.cy \in Region(win)
    <3>1. scr.cy \in Rows
      BY <2>1 DEF ScreenRecords
    <3>. QED BY <2>1, <3>1, DrawnIsWindow DEF Shown, View
  <2>4. WindowDrawn => \A r \in DOMAIN win.saved :
                        win.saved[r].paint # "arrow" /\ ~win.saved[r].glass
    BY DrawnIsWindow DEF PlainCell
  <2>. QED BY <2>2, <2>3, <2>4 DEF NoGhosts
<1>. QED BY <1>1, DesktopInvAlways, PTL

(* Under the cursor and the window every row keeps the text that was       *)
(* printed there, however often the window is dragged and the text         *)
(* scrolled.                                                               *)
THEOREM TextIsKept == Spec => []TextShown
<1>1. DesktopInv => TextShown
  <2>. SUFFICES ASSUME DesktopInv, NEW r \in Rows \ term.stale
                PROVE  /\ (IF scr.saved_valid /\ r = scr.cy THEN scr.saved_px
                           ELSE scr.back[r]).paint = term.text[r]
                       /\ WindowDrawn /\ r \in Region(win) => win.saved[r].paint = term.text[r]
    BY DEF TextShown
  <2>1. Shown(scr, DrawnWindow, term)
    BY DEF DesktopInv
  <2>2. View(scr)[r].paint = term.text[r]
    BY <2>1 DEF Shown
  <2>3. WindowDrawn /\ r \in Region(win) => win.saved[r].paint = term.text[r]
    BY DrawnIsWindow DEF PlainCell
  <2>. QED BY <2>2, <2>3 DEF View
<1>. QED BY <1>1, DesktopInvAlways, PTL

(* Wherever the window is opened or dragged to, its whole region with the  *)
(* shadow lies on the screen: save_region and restore_region, which do not *)
(* clip, read and write inside the back buffer.                            *)
THEOREM WindowStaysOnScreen == Spec => [](win.y..(win.y + RegionH - 1) \subseteq Rows)
<1>1. DesktopInv => win.y..(win.y + RegionH - 1) \subseteq Rows
  BY HeightIsPositive DEF DesktopInv, RegionFits, Rows
<1>. QED BY <1>1, DesktopInvAlways, PTL
=============================================================================
