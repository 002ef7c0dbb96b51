------------------------------ MODULE Desktop -------------------------------
(***************************************************************************)
(* The desktop: the mouse bytes and desktop_compositor_task, the windows   *)
(* and render_desktop (splat.rs), and physics_tick_task.                   *)
(*                                                                         *)
(* The tasks share one CPU and give it up only at an await, so a task's    *)
(* step is atomic and only the mouse's interrupts come between.  Any task  *)
(* that draws calls render_desktop, which looks at the button and handles  *)
(* a click again each time.  Where the cursor is over the windows is left  *)
(* open: a click may hit any window in any place.                          *)
(***************************************************************************)
EXTENDS Integers, Sequences

CONSTANTS
    Headers, Data,  \* first and other bytes of a mouse report
    QueueSize,      \* bytes the mouse queue holds
    MaxPos,         \* largest cursor coordinate
    Depth,          \* how far windows behind the first sink (300)
    Frames,         \* frames of an opening, closing or resizing (15)
    MaxReports,     \* bound on the mouse reports
    MaxWindows      \* bound on the windows opened

ASSUME DesktopBounds == {QueueSize, MaxPos, Depth, Frames, MaxReports, MaxWindows} \subseteq Nat
ASSUME BytesAreBytes == Headers \cup Data \subseteq 0..255

VARIABLES
    report,     \* bytes of the present report the mouse has still to send
    sent,       \* reports begun
    left,       \* the left button in the last report
    news,       \* the last report moved the mouse or changed the left button
    lost,       \* some byte was lost
    queue,      \* the mouse queue
    byte_idx,   \* bytes of a packet the compositor has
    packet,     \* those bytes
    cursor,     \* CURSOR_X, CURSOR_Y
    clicked,    \* LEFT_CLICK
    was_left_click,
    windows,    \* the windows, the last in front: [id, mode, ahead, z, target]
    instance_counter,
    dragging,   \* IS_DRAGGING
    shown       \* the cursor and the button as drawn last

mouse == <<report, sent, left, news, lost>>
parser == <<byte_idx, packet, cursor, clicked, was_left_click>>
desk == <<windows, instance_counter, dragging, shown>>
vars == <<mouse, queue, parser, desk>>

Bit(b, k) == (b \div k) % 2 = 1

\* The mouse marks the first byte of a report: the mark is what the compositor
\* finds a report by (main.rs:276).
ASSUME HeadersMarked == \A h \in Headers : Bit(h, 8)

Init ==
    /\ report = <<>> /\ sent = 0 /\ left = FALSE /\ news = TRUE /\ lost = FALSE
    /\ queue = <<>> /\ byte_idx = 0 /\ packet = <<>>
    /\ cursor = <<0, 0>> /\ clicked = FALSE /\ was_left_click = FALSE
    /\ windows = <<>> /\ instance_counter = 1 /\ dragging = FALSE
    /\ shown = <<cursor, clicked>>
-----------------------------------------------------------------------------
(* The mouse.                                                              *)

\* A movement: the byte, and its sign from the first byte.
Signed(b, negative) == IF negative THEN b - 256 ELSE b

\* A report: the mouse moved or a button changed.  A report of another button
\* alone has no news for the compositor, which looks at the left one only.
MouseReports ==
    /\ report = <<>> /\ sent < MaxReports
    /\ \E h \in Headers, x, y \in Data :
          /\ report' = <<h, x, y>> /\ left' = Bit(h, 1)
          /\ news' = \/ Signed(x, Bit(h, 16)) # 0 \/ Signed(y, Bit(h, 32)) # 0
                     \/ Bit(h, 1) # left
    /\ sent' = sent + 1
    /\ UNCHANGED <<lost, queue, parser, desk>>

\* The interrupt: one byte, dropped when the queue is full.
MouseInterrupt ==
    /\ report # <<>> /\ report' = Tail(report)
    /\ IF Len(queue) < QueueSize
       THEN queue' = Append(queue, Head(report)) /\ UNCHANGED lost
       ELSE lost' = TRUE /\ UNCHANGED queue
    /\ UNCHANGED <<sent, left, news, parser, desk>>
-----------------------------------------------------------------------------
(* The windows.  "ahead" is the frames a window has still to change in,    *)
(* "mode" what it is then; only a window with none ahead is stable.        *)

Stable(w) == w.ahead = 0

Spawned == [id |-> instance_counter, mode |-> "instantiated", ahead |-> Frames,
            z |-> 0, target |-> 0]

\* trigger_close, trigger_restore, trigger_maximize; the title bar and the body
\* leave the state alone.
Trigger(w, place) ==
    CASE place = "close" -> [w EXCEPT !.mode = "dead", !.ahead = Frames]
      [] place = "restore" -> [w EXCEPT !.mode = "instantiated", !.ahead = Frames]
      [] place = "maximize" -> [w EXCEPT !.mode = "maximized", !.ahead = Frames]
      [] OTHER -> w

Places(w) == {"body"} \cup (IF Stable(w) THEN {"close", "restore", "maximize", "title"} ELSE {})

\* The window hit is taken out and put at the end, in front.
Focus(ws, i, w) == SubSeq(ws, 1, i - 1) \o SubSeq(ws, i + 1, Len(ws)) \o <<w>>

\* Mutation of Target: the windows behind stay where they are.
TargetFrontOnly(ws, i) == IF i = Len(ws) THEN 0 ELSE ws[i].target

Target(ws, i) == IF i = Len(ws) THEN 0 ELSE Depth

\* Mutation of Near: a window is near when there is nothing left to do.
NearNever(d) == d = 0

Near(d) == -5 < d /\ d < 5

\* Division of Rust integers, which cuts towards zero.
Quarter(d) == IF d >= 0 THEN d \div 4 ELSE -((-d) \div 4)

\* update_physics: a quarter of the way, or all of it when it is short.
UpdatePhysics(w) ==
    LET d == w.target - w.z
    IN  [w EXCEPT !.z = IF Near(d) THEN w.target ELSE w.z + Quarter(d),
                  !.ahead = IF Stable(w) THEN 0 ELSE w.ahead - 1]

\* retain: a window that was closed and has come to rest is gone.
Gone(w) == Stable(w) /\ w.mode = "dead"

Retain(ws) ==
    LET kept[k \in 0..Len(ws)] ==
            IF k = 0 THEN <<>>
            ELSE IF Gone(ws[k]) THEN kept[k - 1] ELSE Append(kept[k - 1], ws[k])
    IN  kept[Len(ws)]

\* tick_physics, on windows that have been given their targets.
Tick(ws) ==
    Retain([i \in 1..Len(ws) |-> UpdatePhysics([ws[i] EXCEPT !.target = Target(ws, i)])])

\* render_desktop with the cursor c and the button b.
RenderDesktop(c, b) ==
    /\ shown' = <<c, b>>
    /\ \/ /\ ~b /\ dragging' = FALSE
          /\ windows' = Tick(windows) /\ UNCHANGED instance_counter
       \/ /\ b
          /\ \E i \in 1..Len(windows) : \E place \in Places(windows[i]) :
                /\ dragging' = (dragging \/ place = "title")
                /\ windows' = Tick(Focus(windows, i, Trigger(windows[i], place)))
          /\ UNCHANGED instance_counter
       \/ /\ b /\ windows' = Tick(windows)
          /\ UNCHANGED <<instance_counter, dragging>>
       \* No window but the launcher; the bound cuts the windows opened.
       \/ /\ b /\ ~dragging /\ instance_counter <= MaxWindows
          /\ windows' = Tick(Append(windows, Spawned))
          /\ instance_counter' = instance_counter + 1 /\ UNCHANGED dragging
-----------------------------------------------------------------------------
(* The tasks.                                                              *)

Clamp(v) == IF v < 0 THEN 0 ELSE IF v > MaxPos THEN MaxPos ELSE v

\* Mutation of Changed: only a movement counts.
ChangedByMoving(x, y, click) == x # 0 \/ y # 0

Changed(x, y, click) == x # 0 \/ y # 0 \/ click # was_left_click

\* The third byte: move the cursor, note the button and draw, but not while
\* more bytes wait.
UsePacket(flags, bx, by) ==
    LET click == Bit(flags, 1)
        x == Signed(bx, Bit(flags, 16))
        y == Signed(by, Bit(flags, 32))
    IN  IF Changed(x, y, click)
        THEN /\ cursor' = <<Clamp(cursor[1] + x), Clamp(cursor[2] - y)>>
             /\ clicked' = click /\ was_left_click' = click
             /\ IF queue' # <<>> THEN UNCHANGED desk ELSE RenderDesktop(cursor', click)
        ELSE UNCHANGED <<cursor, clicked, was_left_click, desk>>

\* Mutation of NextByte: the count goes on after the third byte.
NextByteOn == byte_idx + 1

NextByte == (byte_idx + 1) % 3

\* desktop_compositor_task, one byte.  A first byte without its mark is skipped.
Compositor ==
    /\ queue # <<>> /\ queue' = Tail(queue) /\ UNCHANGED mouse
    /\ LET byte == Head(queue)
       IN  IF byte_idx = 0 /\ ~Bit(byte, 8)
           THEN UNCHANGED <<parser, desk>>
           ELSE /\ byte_idx' = NextByte
                /\ packet' = IF byte_idx = 2 THEN <<>> ELSE Append(packet, byte)
                /\ IF byte_idx = 2
                   THEN UsePacket(packet[1], packet[2], byte)
                   ELSE UNCHANGED <<cursor, clicked, was_left_click, desk>>

Moving(w) == ~Stable(w) \/ w.z # w.target

\* physics_tick_task: a frame while something moves; otherwise it only yields.
PhysicsTick ==
    /\ \E i \in 1..Len(windows) : Moving(windows[i])
    /\ RenderDesktop(cursor, clicked) /\ UNCHANGED <<mouse, queue, parser>>

\* A key or a line of the log: the text goes to the window in front, and the
\* desktop is drawn at once.
Type == RenderDesktop(cursor, clicked) /\ UNCHANGED <<mouse, queue, parser>>

Next == MouseReports \/ MouseInterrupt \/ Compositor \/ PhysicsTick \/ Type

\* The executor polls every task again and again; the user may do nothing.
Spec == Init /\ [][Next]_vars /\ WF_vars(Compositor) /\ WF_vars(PhysicsTick)
-----------------------------------------------------------------------------
(* Properties.                                                             *)

\* Type invariant; the bytes of a packet are those counted, and ids are unique.
TypeOK ==
    /\ byte_idx \in 0..2 /\ Len(packet) = byte_idx /\ Len(queue) <= QueueSize
    /\ cursor \in (0..MaxPos) \X (0..MaxPos) /\ {clicked, was_left_click, dragging} \subseteq BOOLEAN
    /\ \A i \in 1..Len(windows) :
          /\ windows[i] \in [id : 1..MaxWindows, ahead : 0..Frames, z : 0..Depth,
                             target : {0, Depth}, mode : {"instantiated", "maximized", "dead"}]
          /\ windows[i].id < instance_counter
          /\ \A k \in 1..i - 1 : windows[k].id # windows[i].id

\* When nothing moves, every window but the one in front has sunk: whatever
\* order windows were opened, raised and closed in, and however often a click
\* was handled again, no second window is left in front (splat.rs:688).
OnlyTopInFront ==
    (\A i \in 1..Len(windows) : ~Moving(windows[i]))
        => \A i \in 1..Len(windows) - 1 : windows[i].z = Depth

\* The mouse's bytes are used up and none was lost.
MouseRead == queue = <<>> /\ byte_idx = 0 /\ report = <<>> /\ ~lost

\* Once the mouse's bytes are used and none was lost, the button is the mouse's
\* left one, and if the last report moved the mouse or changed that button the
\* desktop was drawn so: the draws skipped because more bytes waited
\* (main.rs:305) are made up for by the last packet.
CursorShown == MouseRead => clicked = left /\ (news => shown = <<cursor, clicked>>)

\* The same whatever the last report was: the "RENDER THROTTLE PEEK"
\* (mouse_stream.rs:24) puts a draw off and does not leave it out.  It fails: a
\* draw skipped for the bytes of another button's report (main.rs:305) is never
\* made, since that report's packet draws nothing (main.rs:290).
ThrottleOnlyDelays == MouseRead => shown = <<cursor, clicked>>

\* After the button is let go for good, every animation comes to its end, and
\* the windows that were closed are gone (splat.rs:143, main.rs:385).
AnimationEnds ==
    <>[]~clicked => <>[](\A i \in 1..Len(windows) :
                            ~Moving(windows[i]) /\ windows[i].mode # "dead")
=============================================================================
