------------------------------ MODULE OledPanel ------------------------------
(***************************************************************************)
(* The display of the rpi_4b OLED program: the two threads of main.cpp (the *)
(* keyboard loop and ButtonProcessing::Run) move a shared cursor and draw  *)
(* into the frame buffer of i2c_oled.c, which each call then sends to the  *)
(* panel.  There is no lock in the program nor in the driver; the i2c      *)
(* adapter carries one transfer at a time.                                 *)
(*                                                                         *)
(* Bytes are the sets of rows that are lit in them.  A byte is read,       *)
(* changed and written in two steps.  The six commands that set the         *)
(* panel's window before a frame are separate transfers, one step here;    *)
(* what the panel makes of another's transfer between them is not          *)
(* modelled, only that it happened.                                        *)
(***************************************************************************)
EXTENDS Integers, Sequences, FiniteSetsExt

CONSTANTS
  Width, Pages, PageRows,  \* 128 columns, 8 pages of 8 rows in the code
  Wrap,                    \* 256: what a __u8 wraps at
  MaxCalls                 \* bound: keys and button events in all

PanelAssumption ==
  /\ {Width, Pages, PageRows, Wrap, MaxCalls} \subseteq Nat \ {0}
  /\ Wrap > Width /\ Wrap > Pages * PageRows

Height == Pages * PageRows
Bytes  == 1..(Width * Pages)
Rows   == 0..(PageRows - 1)
Callers == {"keys", "buttons"}

-----------------------------------------------------------------------------
(* i2c_oled.c: what each drawing function stores, in order. *)

Index(x, y) == (y \div PageRows) * Width + x + 1

\* set_pixel()
Pixel(x, y, color) ==
  [index |-> Index(x, y), rows |-> {y % PageRows}, color |-> color]

\* fill_rect(): no test of the bounds, y is a __u8.
FillRect(x, y, width, height, color) ==
  [k \in 1..(width * height) |->
     Pixel(x + ((k - 1) % width), (y + ((k - 1) \div width)) % Wrap, color)]

\* rect(): clipped to the screen, filled or a border of one pixel.
\* Seeded fault: not clipped.
RectUnclipped(x, y, width, height, color, fill) ==
  FillRect(x, y, width, height, color)

Rect(x, y, width, height, color, fill) ==
  IF width < 1 \/ height < 1 \/ y >= Height \/ x >= Width THEN <<>>
  ELSE LET x_end == Min({Width - 1, x + width - 1})
           y_end == Min({Height - 1, y + height - 1})
           w == x_end - x + 1
           h == y_end - y + 1
       IN IF fill THEN FillRect(x, y, w, h, color)
          ELSE FillRect(x, y, w, 1, color) \o FillRect(x, y, 1, h, color)
               \o FillRect(x, y_end, w, 1, color) \o FillRect(x_end, y, 1, h, color)

\* fill(): whole bytes.
Fill(color) == [k \in Bytes |-> [index |-> k, rows |-> Rows, color |-> color]]

-----------------------------------------------------------------------------
VARIABLES
  x_cur, y_cur,        \* the cursor
  oled_enabled, oled_filled, oled_rect_filled,
  pc, plan,            \* where each caller is; methods it still calls
  seen,                \* what it read of the cursor, a flag or a byte
  todo,                \* the stores its driver call has left
  buffer,              \* oled_data.buffer without the prefix byte
  sent, sending,       \* what the panel was sent; the byte now on the bus
  bus,                 \* who sends, or "free"
  failed,              \* the last transfer failed
  torn,                \* history: a transfer came between window commands
  outside, excused,    \* history: a store outside of buffer; a cause for one
  calls

appVars == <<x_cur, y_cur, oled_enabled, oled_filled, oled_rect_filled>>
busVars == <<sent, sending, bus, failed, torn>>
vars == <<appVars, pc, plan, seen, todo, buffer, busVars, outside, excused, calls>>

\* What a caller that has read nothing has seen
Nothing == [cursor |-> 0, flag |-> FALSE, byte |-> {}]

Init ==
  /\ x_cur = 0 /\ y_cur = 0
  /\ oled_enabled = TRUE /\ oled_filled = FALSE /\ oled_rect_filled = FALSE
  /\ pc = [c \in Callers |-> "idle"] /\ plan = [c \in Callers |-> <<>>]
  /\ seen = [c \in Callers |-> Nothing] /\ todo = [c \in Callers |-> <<>>]
  /\ buffer = [i \in Bytes |-> {}] /\ sent = buffer
  /\ sending = 0 /\ bus = "free" /\ failed = FALSE /\ torn = FALSE
  /\ outside = FALSE /\ excused = FALSE /\ calls = 0

Set(f, c, v) == [f EXCEPT ![c] = v]

\* The methods a key or a button calls.  ROCKER_D falls through to ROCKER_N,
\* ROCKER_S is looked at twice.
Keys == {<<"up">>, <<"down">>, <<"right">>, <<"left">>, <<"fill">>,
         <<"hline", "vline">>, <<"rect">>, <<"enable">>}
Buttons == {<<"up">>, <<"down", "down">>, <<"right">>, <<"left">>, <<"fill", "up">>,
            <<"hline", "vline">>, <<"rect">>}

Event(c) ==
  /\ pc[c] = "idle" /\ plan[c] = <<>> /\ calls < MaxCalls
  /\ \E methods \in IF c = "keys" THEN Keys ELSE Buttons : plan' = Set(plan, c, methods)
  /\ calls' = calls + 1
  /\ UNCHANGED <<appVars, pc, seen, todo, buffer, busVars, outside, excused>>

\* Seeded fault: PixelDown() goes one row too far.
MayMoveFar(method) ==
  CASE method = "down"  -> y_cur < Height
    [] method = "up"    -> x_cur > 0
    [] method = "right" -> x_cur < Width - 1
    [] method = "left"  -> x_cur > 0

\* The tests before a move.  PixelUp() looks at the column.
MayMove(method) ==
  CASE method = "down"  -> y_cur < Height - 1
    [] method = "up"    -> x_cur > 0
    [] method = "right" -> x_cur < Width - 1
    [] method = "left"  -> x_cur > 0

Moves == {"up", "down", "right", "left"}
Cursor(method) == IF method \in {"up", "down"} THEN y_cur ELSE x_cur

\* A method reads the shared state it tests ...
Begin(c) ==
  /\ pc[c] = "idle" /\ plan[c] # <<>>
  /\ LET method == Head(plan[c]) IN
     \/ /\ method \in Moves /\ ~MayMove(method)
        /\ plan' = Set(plan, c, Tail(plan[c]))
        /\ UNCHANGED <<pc, seen>>
     \/ /\ method \in Moves => MayMove(method)
        /\ pc' = Set(pc, c, "apply")
        /\ seen' = Set(seen, c,
             CASE method \in Moves -> [Nothing EXCEPT !.cursor = Cursor(method)]
               [] method = "fill"  -> [Nothing EXCEPT !.flag = oled_filled]
               [] method = "rect"  -> [Nothing EXCEPT !.flag = oled_rect_filled]
               [] OTHER -> Nothing)
        /\ UNCHANGED plan
  /\ UNCHANGED <<appVars, todo, buffer, busVars, outside, excused, calls>>

Draw(c, stores) ==
  /\ todo' = Set(todo, c, stores)
  /\ pc' = Set(pc, c, "load")

\* ... and then changes it and calls the driver: a cursor coordinate is counted
\* from what was read, or from what it is by now, ...
MovePixel(c) ==
  LET method == Head(plan[c])
      step == IF method \in {"down", "right"} THEN 1 ELSE -1 IN
  /\ pc[c] = "apply" /\ method \in Moves
  /\ \E from \in {seen[c].cursor, Cursor(method)} :
       /\ IF method \in {"up", "down"}
          THEN y_cur' = (from + step) % Wrap /\ UNCHANGED x_cur
          ELSE x_cur' = (from + step) % Wrap /\ UNCHANGED y_cur
       /\ excused' = (excused \/ from # seen[c].cursor \/ (method = "up" /\ from = 0))
  /\ Draw(c, <<Pixel(x_cur', y_cur', TRUE)>>)
  /\ UNCHANGED <<oled_enabled, oled_filled, oled_rect_filled, plan, seen, buffer, busVars, outside, calls>>

\* ... a flag becomes the opposite of what was read, ...
ToggleFill(c) ==
  /\ pc[c] = "apply" /\ Head(plan[c]) = "fill"
  /\ oled_filled' = ~seen[c].flag
  /\ Draw(c, Fill(~seen[c].flag))
  /\ UNCHANGED <<oled_enabled, x_cur, y_cur, oled_rect_filled, plan, seen, buffer, busVars,
                 outside, excused, calls>>

RectToTopLeft(c) ==
  /\ pc[c] = "apply" /\ Head(plan[c]) = "rect"
  /\ oled_rect_filled' = ~seen[c].flag
  /\ Draw(c, Rect(0, 0, x_cur, y_cur, ~seen[c].flag, TRUE))
  /\ UNCHANGED <<oled_enabled, x_cur, y_cur, oled_filled, plan, seen, buffer, busVars,
                 outside, excused, calls>>

\* ... and a line only looks at the cursor.
LineToTopLeft(c) ==
  /\ pc[c] = "apply"
  /\ \/ /\ Head(plan[c]) = "hline"
        /\ Draw(c, Rect(0, y_cur, x_cur, 1, TRUE, TRUE))
     \/ /\ Head(plan[c]) = "vline"
        /\ Draw(c, Rect(x_cur, 0, 1, y_cur, TRUE, TRUE))
  /\ UNCHANGED <<appVars, plan, seen, buffer, busVars, outside, excused, calls>>

\* ess_oled_write(), ess_oled_ioctl(): store after store, and at last show().
Load(c) ==
  /\ pc[c] = "load"
  /\ \/ /\ todo[c] = <<>>
        /\ pc' = Set(pc, c, "show")
        /\ UNCHANGED seen
     \/ /\ todo[c] # <<>>
        /\ LET i == Head(todo[c]).index IN
             seen' = Set(seen, c, [Nothing EXCEPT !.byte = IF i \in Bytes THEN buffer[i] ELSE {}])
        /\ pc' = Set(pc, c, "store")
  /\ UNCHANGED <<appVars, plan, todo, buffer, busVars, outside, excused, calls>>

Store(c) ==
  /\ pc[c] = "store"
  /\ LET s == Head(todo[c]) IN
     \/ /\ s.index \in Bytes
        /\ buffer' = Set(buffer, s.index,
                         IF s.color THEN seen[c].byte \union s.rows ELSE seen[c].byte \ s.rows)
        /\ UNCHANGED outside
     \/ /\ s.index \notin Bytes
        /\ outside' = TRUE
        /\ UNCHANGED buffer
  /\ todo' = Set(todo, c, Tail(todo[c]))
  /\ pc' = Set(pc, c, "load")
  /\ UNCHANGED <<appVars, plan, seen, busVars, excused, calls>>

MethodEnds(c) == pc' = Set(pc, c, "idle") /\ plan' = Set(plan, c, Tail(plan[c]))

\* A transfer of c while another caller is between window commands.
Cuts(c) == \E d \in Callers \ {c} : pc[d] = "window"

\* The key 'e': one command, IOCTL_DISABLE or IOCTL_ENABLE.
ToggleEnable(c) ==
  /\ pc[c] = "apply" /\ Head(plan[c]) = "enable" /\ bus = "free"
  /\ oled_enabled' = ~oled_enabled
  /\ torn' = (torn \/ Cuts(c))
  /\ MethodEnds(c)
  /\ UNCHANGED <<x_cur, y_cur, oled_filled, oled_rect_filled, seen, todo, buffer,
                 sent, sending, bus, failed, outside, excused, calls>>

\* show(): the window commands, one of which may fail, which is only logged, ...
ShowWindow(c) ==
  /\ pc[c] = "show" /\ bus = "free"
  /\ torn' = (torn \/ Cuts(c))
  /\ \/ /\ pc' = Set(pc, c, "window")
        /\ UNCHANGED <<plan, failed>>
     \/ /\ failed' = TRUE
        /\ MethodEnds(c)
  /\ UNCHANGED <<appVars, seen, todo, buffer, sent, sending, bus, outside, excused, calls>>

\* ... and the frame, one transfer, which may fail too.
ShowFrame(c) ==
  /\ pc[c] = "window" /\ bus = "free"
  /\ torn' = (torn \/ Cuts(c))
  /\ \/ /\ bus' = c /\ sending' = 1
        /\ pc' = Set(pc, c, "send")
        /\ UNCHANGED <<plan, failed>>
     \/ /\ failed' = TRUE
        /\ MethodEnds(c)
        /\ UNCHANGED <<bus, sending>>
  /\ UNCHANGED <<appVars, seen, todo, buffer, sent, outside, excused, calls>>

\* Seeded fault: a frame ends before its last byte.
SendShort(c) ==
  /\ pc[c] = "send"
  /\ sent' = Set(sent, sending, buffer[sending])
  /\ IF sending >= Width * Pages - 1
     THEN bus' = "free" /\ sending' = 0 /\ failed' = FALSE /\ MethodEnds(c)
     ELSE sending' = sending + 1 /\ UNCHANGED <<bus, failed, pc, plan>>
  /\ UNCHANGED <<appVars, seen, todo, buffer, torn, outside, excused, calls>>

\* The adapter takes the bytes from the frame buffer while it sends.
Send(c) ==
  /\ pc[c] = "send"
  /\ sent' = Set(sent, sending, buffer[sending])
  /\ IF sending = Width * Pages
     THEN bus' = "free" /\ sending' = 0 /\ failed' = FALSE /\ MethodEnds(c)
     ELSE sending' = sending + 1 /\ UNCHANGED <<bus, failed, pc, plan>>
  /\ UNCHANGED <<appVars, seen, todo, buffer, torn, outside, excused, calls>>

Next == \E c \in Callers :
  \/ Event(c) \/ Begin(c) \/ MovePixel(c) \/ ToggleFill(c) \/ RectToTopLeft(c)
  \/ LineToTopLeft(c) \/ Load(c) \/ Store(c) \/ ToggleEnable(c)
  \/ ShowWindow(c) \/ ShowFrame(c) \/ Send(c)

Spec == Init /\ [][Next]_vars

-----------------------------------------------------------------------------
(* Properties *)

\* rect() stores exactly the pixels of the rectangle that are on the screen, or
\* of its border, each in its byte and row, for all arguments of a __u8 and
\* though fill_rect() tests nothing.
OnScreen(x, y, width, height) ==
  {p \in (0..(Width - 1)) \X (0..(Height - 1)) :
     p[1] \in x..(x + width - 1) /\ p[2] \in y..(y + height - 1)}

Inner(S) == {p \in S : \A d \in {<<1, 0>>, <<-1, 0>>, <<0, 1>>, <<0, -1>>} :
                         <<p[1] + d[1], p[2] + d[2]>> \in S}

RectIsClipped ==
  calls = 0 =>
    \A x, y, width, height \in 0..(Wrap - 1), color, fill \in BOOLEAN :
      LET stores == Rect(x, y, width, height, color, fill)
          S == OnScreen(x, y, width, height)
      IN {stores[k] : k \in DOMAIN stores} =
         {Pixel(p[1], p[2], color) : p \in IF fill THEN S ELSE S \ Inner(S)}

\* show() "renders the entire frame buffer", whatever the other thread does:
\* once both threads are done the panel has what is in the buffer, unless the
\* last transfer failed or window commands were mixed up.
NothingUnshown ==
  (\A c \in Callers : pc[c] = "idle") => sent = buffer \/ failed \/ torn

\* set_pixel() has no test of the bounds and relies on the cursor: it misses the
\* buffer only after two moves raced or PixelUp() left the top row.
OutsideNeedsWrap == outside => excused

\* main.cpp:324, "<up key> - move pixel up".
UpKeyMovesUp ==
  [][\A c \in Callers :
       MovePixel(c) /\ Head(plan[c]) = "up" => y_cur' < y_cur \/ y_cur # seen[c].cursor]_vars
=============================================================================
