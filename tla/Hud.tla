---------------------------------- MODULE Hud ----------------------------------
(***************************************************************************)
(* The HUD (libnodegl/node_hud.c): a node that updates and draws its child *)
(* and measures it on the way.  It keeps the latest times spent, counts    *)
(* the nodes of the scene that are active or drawn and the memory they     *)
(* hold, and at its refresh rate shows all that as text and graphs on a    *)
(* canvas and as a line of a CSV file.  Huds may be nested and share nodes.*)
(*                                                                         *)
(* A frame is one step; what the recursion of ngli_node_update and         *)
(* ngli_node_draw does to the huds on its way is a record st (see Frame).  *)
(***************************************************************************)
EXTENDS Integers, SequencesExt, FiniteSetsExt

CONSTANTS
  Node,         \* the nodes of the scene
  Kind,         \* the class of each node, see Kinds
  Kids,         \* the children of each node, in order
  Root,         \* the scene
  DataSize,     \* the size of the data of the buffers and blocks, of the planes of the textures
  InBlock,      \* the buffers that reference a block
  InPass,       \* the buffers and blocks the passes of the scene hold a GL buffer of
  Window,       \* measure_window of each hud
  Interval,     \* refresh_rate of each hud
  Aspects,      \* the values of aspect_ratio the client may set
  Exported,     \* the huds with an export_filename
  UpdateMayFail,\* the nodes whose update may fail
  TextCols, TextRows, GraphW, GraphH,  \* widget_specs
  FontW, FontH, \* the size of a character
  Time,         \* the times of the frames
  Cost,         \* what the update or the draw of a node may take in a frame
  MaxAgain,     \* a bound: how often a frame is drawn again
  None

Drawn == {"group", "switch", "hud", "compute", "config", "render", "rtt"}
Data  == {"texture", "media", "buffer", "block"}
Kinds == Drawn \union Data

OfKind(k) == {n \in Node : Kind[n] = k}
Huds      == OfKind("hud")
Switch    == OfKind("switch")

WidgetType == {"latency", "memory", "activity", "drawcall"}

ASSUME HudAssumption ==
  /\ Kind \in [Node -> Kinds]
  /\ Kids \in [Node -> Seq(Node)]
  /\ \A h \in Huds : Len(Kids[h]) = 1
  /\ Window \in [Huds -> Nat \ {0}]
  /\ Interval \in [Huds -> Nat]
  /\ Aspects \subseteq Nat \X Nat
  /\ TextCols \in [WidgetType -> Nat \ {0}] /\ TextRows \in [WidgetType -> Nat \ {0}]
  /\ GraphW \in [WidgetType -> Nat] /\ GraphH \in [WidgetType -> Nat]
  /\ \A w \in WidgetType : (GraphW[w] = 0) # (GraphH[w] = 0)
  /\ Time \subseteq Nat

(***************************************************************************)
(* The values of a hud, in the order of its widgets.  The widgets of the   *)
(* two last types have one value each.                                     *)
(***************************************************************************)
Latencies  == <<"update CPU", "update GPU", "draw CPU", "draw GPU", "total CPU", "total GPU">>
Memories   == <<"buffers CPU", "buffers GPU", "blocks CPU", "blocks GPU", "textures">>
Activities == <<"buffer", "block", "media", "texture">>
Drawcalls  == <<"compute", "config", "render", "rtt">>

LatencyId  == ToSet(Latencies)
Of(type, names)   == [i \in DOMAIN names |-> <<type, names[i]>>]
LatencyValues     == Of("latency", Latencies)
MemoryValues      == Of("memory", Memories)
ActivityValues    == Of("activity", Activities)
DrawcallValues    == Of("drawcall", Drawcalls)
Values == LatencyValues \o MemoryValues \o ActivityValues \o DrawcallValues
Value  == ToSet(Values)

(* widgets_csv_header: the columns of the file; an activity has its total. *)
CsvHeader ==
  <<<<"time", "">>>> \o LatencyValues \o MemoryValues
  \o FlattenSeq([i \in DOMAIN Activities |-> <<<<"activity", Activities[i]>>, <<"total", Activities[i]>>>>])
  \o DrawcallValues

(***************************************************************************)
(* The layout                                                              *)
(***************************************************************************)
Padding == 4
Margin  == 2

WidgetWidth(w)  == GraphW[w] + TextCols[w] * FontW + Padding * (IF GraphH[w] = 0 THEN 3 ELSE 2)
WidgetHeight(w) == GraphH[w] + TextRows[w] * FontH + Padding * (IF GraphH[w] = 0 THEN 2 ELSE 3)

Lesser(a, b)  == IF a < b THEN a ELSE b
Greater(a, b) == IF a > b THEN a ELSE b

MinWidth ==
  Greater(Margin * 3 + WidgetWidth("latency") + WidgetWidth("memory"),
       Margin * 3 + 4 * WidgetWidth("activity") + 3 * Margin + 4 * WidgetWidth("drawcall") + 3 * Margin)
MinHeight ==
  Greater(Margin * 3 + WidgetHeight("latency") + WidgetHeight("activity"),
       Margin * 3 + WidgetHeight("memory") + WidgetHeight("drawcall"))

(* The dimensions of the canvas of widgets_init.                           *)
Canvas(aspect) ==
  LET ar == IF aspect[1] # 0 /\ aspect[2] # 0 THEN aspect ELSE <<1, 1>>
      h  == (MinWidth * ar[2]) \div ar[1]
  IN  IF h < MinHeight THEN [w |-> (MinHeight * ar[1]) \div ar[2], h |-> MinHeight]
                       ELSE [w |-> MinWidth, h |-> h]

(* create_widget: a negative coordinate is taken from the other side.  The *)
(* graph is to the right of the text, or below it.                         *)
Widget(w, x, y) ==
  LET beside == GraphH[w] = 0
      graphX == IF beside THEN x + TextCols[w] * FontW + Padding * 2 ELSE x + Padding
      graphY == IF beside THEN y + Padding ELSE y + TextRows[w] * FontH + Padding * 2
  IN  [type |-> w,
       rect |-> [x |-> x, y |-> y, w |-> WidgetWidth(w), h |-> WidgetHeight(w)],
       graph |-> [x |-> graphX, y |-> graphY,
                  w |-> IF beside THEN GraphW[w] ELSE WidgetWidth(w) - Padding * 2,
                  h |-> IF beside THEN WidgetHeight(w) - Padding * 2 ELSE GraphH[w]]]

(* The length of the graphs of a widget, nb_values, and their height.      *)
GraphRect == [w \in WidgetType |-> Widget(w, 0, 0).graph]
NbValues(w) == GraphRect[w].w

(* widgets_init: two widgets at the top, two rows of four at the bottom.   *)
Widgets(canvas) ==
  LET top(w)    == canvas.h - WidgetHeight(w) - Margin
      step(w)   == WidgetWidth(w) + Margin
  IN  <<Widget("latency", Margin, Margin),
        Widget("memory", canvas.w - WidgetWidth("memory") - Margin, Margin)>>
      \o [i \in 1 .. 4 |-> Widget("activity", Margin + (i - 1) * step("activity"), top("activity"))]
      \o [i \in 1 .. 4 |-> Widget("drawcall", canvas.w - (5 - i) * step("drawcall"), top("drawcall"))]

(***************************************************************************)
(* The latencies                                                           *)
(***************************************************************************)
NoMeasure(h) == [times |-> [i \in 0 .. Window[h] - 1 |-> 0], count |-> 0, pos |-> 0, total |-> 0]

(* Mutant: the time that leaves the window stays in the total.             *)
RegisterTime_OnlyAdds(h, m, time) ==
  [times |-> [m.times EXCEPT ![m.pos] = time],
   count |-> Lesser(m.count + 1, Window[h]),
   pos   |-> (m.pos + 1) % Window[h],
   total |-> m.total + time]

(* register_time.                                                          *)
RegisterTime(h, m, time) ==
  [times |-> [m.times EXCEPT ![m.pos] = time],
   count |-> Lesser(m.count + 1, Window[h]),
   pos   |-> (m.pos + 1) % Window[h],
   total |-> m.total - m.times[m.pos] + time]

LastTime(h, m) == m.times[(IF m.pos = 0 THEN Window[h] ELSE m.pos) - 1]

(* The GPU is timed in nanoseconds, the CPU in microseconds.               *)
Nano == 1000
InGpu == {"update GPU", "draw GPU", "total GPU"}

(* get_latency_avg.                                                        *)
LatencyAverage(m, id) == (m.total \div m.count) \div (IF id \in InGpu THEN Nano ELSE 1)

(***************************************************************************)
(* The graphs                                                              *)
(***************************************************************************)
NoGraph(w) ==
  [values |-> [i \in 0 .. NbValues(w) - 1 |-> 0],
   count |-> 0, pos |-> 0, min |-> 0, max |-> 0, amin |-> 0, amax |-> 0]

(* Mutant: the extremes are looked for before the value is stored.         *)
RegisterGraphValue_ScansFirst(d, v) ==
  LET n    == Cardinality(DOMAIN d.values)
      old  == d.values[d.pos]
      least    == IF old = d.min THEN Min(Range(d.values)) ELSE Lesser(v, d.min)
      greatest == IF old = d.max THEN Max(Range(d.values)) ELSE Greater(v, d.max)
  IN  [values |-> [d.values EXCEPT ![d.pos] = v], count |-> Lesser(d.count + 1, n), pos |-> (d.pos + 1) % n,
       min |-> least, max |-> greatest, amin |-> Lesser(d.amin, least), amax |-> Greater(d.amax, greatest)]

(* register_graph_value: the extremes of the values, those never written   *)
(* included, are looked for again when the value that leaves was one.      *)
RegisterGraphValue(d, v) ==
  LET n    == Cardinality(DOMAIN d.values)
      old  == d.values[d.pos]
      values   == [d.values EXCEPT ![d.pos] = v]
      least    == IF old = d.min THEN Min(Range(values)) ELSE Lesser(v, d.min)
      greatest == IF old = d.max THEN Max(Range(values)) ELSE Greater(v, d.max)
  IN  [values |-> values, count |-> Lesser(d.count + 1, n), pos |-> (d.pos + 1) % n,
       min |-> least, max |-> greatest, amin |-> Lesser(d.amin, least), amax |-> Greater(d.amax, greatest)]

(* The k-th value shown, from the oldest one.                              *)
Shown(d, k) == LET n == Cardinality(DOMAIN d.values) IN d.values[(d.pos - d.count + n + k) % n]

Clip(x, min, max) == IF x < min THEN min ELSE IF x > max THEN max ELSE x

(* The height of a value.  When the extremes are the same draw_block_graph *)
(* divides by zero and converts a value that is no number: what the known  *)
(* builds make of it is not positive and draws nothing.                    *)
Scaled(v, height, min, max) == IF max = min THEN 0 ELSE ((v - min) * height) \div (max - min)

(* draw_block_graph: the rows of the pixels of a column.                   *)
BlockRows(d, k, height) ==
  LET h == Scaled(Shown(d, k), height, d.amin, d.amax)
      y == Clip(height - h, 0, height)
  IN  y .. y + h - 1

(* draw_line_graph: a point, and the column from the point before it.      *)
LineRows(d, k, height, min, max) ==
  LET row(i) == Clip(height - 1 - Scaled(Shown(d, i), height, min, max), 0, height - 1)
  IN  IF max = min THEN {}
      ELSE IF k = 0 THEN {row(0)}
      ELSE Min({row(k - 1), row(k)}) .. Max({row(k - 1), row(k)})

(***************************************************************************)
(* What a hud counts                                                       *)
(***************************************************************************)
(* The nodes of a kind below a hud (make_nodes_set).                       *)
Below[n \in Node] == {n} \union UNION {Below[k] : k \in ToSet(Kids[n])}
NodesSet == [h \in Huds |-> [kind \in Kinds |-> {n \in Below[Kids[h][1]] : Kind[n] = kind}]]

(* The nodes whose draw_count a hud reads, and resets.                     *)
Tracked == [h \in Huds |-> UNION {NodesSet[h][k] : k \in ToSet(Drawcalls)}]
Counted == UNION {Tracked[h] : h \in Huds}

KidsTaken(n, on) == IF n \in Switch \ on THEN <<>> ELSE Kids[n]

(* The nodes a visit of the scene makes active.                            *)
Active(on) ==
  LET reached[n \in Node] == {n} \union UNION {reached[k] : k \in ToSet(KidsTaken(n, on))}
  IN  reached[Root]

DataSizes(S) == MapThenSumSet(LAMBDA n : DataSize[n], S)

(* widget_memory_make_stats.                                               *)
MemorySize(h, id, active) ==
  LET own == NodesSet[h]["buffer"] \ InBlock
  IN  CASE id = "buffers CPU" -> DataSizes(own)
        [] id = "buffers GPU" -> DataSizes(own \intersect InPass)
        [] id = "blocks CPU"  -> DataSizes(NodesSet[h]["block"])
        [] id = "blocks GPU"  -> DataSizes(NodesSet[h]["block"] \intersect InPass)
        [] id = "textures"    -> DataSizes(NodesSet[h]["texture"] \intersect active)

(* widget_activity_make_stats.                                             *)
NbActives(h, kind, active) == Cardinality(NodesSet[h][kind] \intersect active)

(* widget_drawcall_make_stats, given the draw_count of the nodes.          *)
NbDraws(h, kind, draws) == MapThenSumSet(LAMBDA n : draws[n], NodesSet[h][kind])

(* What the widgets show of a value.                                       *)
Statistic(h, column, measures, draws, active) ==
  LET id == column[2]
  IN  CASE column[1] = "latency"  -> LatencyAverage(measures[id], id)
        [] column[1] = "memory"   -> MemorySize(h, id, active)
        [] column[1] = "activity" -> NbActives(h, id, active)
        [] column[1] = "total"    -> Cardinality(NodesSet[h][id])
        [] column[1] = "drawcall" -> NbDraws(h, id, draws)

(***************************************************************************)
(* The state                                                               *)
(***************************************************************************)
VARIABLES
  attached, \* the scene is
  huds,     \* the private data of each hud
  file,     \* the last line of the file of each hud, NoLine if it has only its header
  counts,   \* draw_count of the nodes a hud counts
  now,      \* the time of the last frame
  on,       \* the switches that are enabled in it
  updated,  \* the nodes whose last_update_time it is
  cost,     \* what its nodes take each
  again,    \* how often it was drawn again
  failed    \* the times of frames whose update failed

vars == <<attached, huds, file, counts, now, on, updated, cost, again, failed>>

NoLine == <<>>
Never  == -1

(* last_refresh_time is one second before the first frames.                *)
Second == 2

NewHud(h) ==
  [measures |-> [id \in LatencyId |-> NoMeasure(h)],
   graphs   |-> [v \in Value |-> NoGraph(v[1])],
   refreshed |-> -Second, \* last_refresh_time
   need     |-> FALSE]    \* need_refresh

Init ==
  /\ attached = FALSE
  /\ huds = [h \in Huds |-> NewHud(h)]
  /\ file = [h \in Huds |-> None]
  /\ counts = [n \in Counted |-> 0]
  /\ now = Never
  /\ on = {}
  /\ updated = {} /\ failed = {}
  /\ cost = 0 /\ again = 0

(* ngli_node_attach_ctx of the scene, children first.                      *)
RECURSIVE InitOrder(_)
InitOrder(n) == FlattenSeq([i \in DOMAIN Kids[n] |-> InitOrder(Kids[n][i])]) \o <<n>>

InitedBefore(h) ==
  LET order == InitOrder(Root)
      first == CHOOSE i \in DOMAIN order : order[i] = h /\ \A j \in 1 .. i - 1 : order[j] # h
  IN  {order[i] : i \in 1 .. first - 1}

(* The file of each of S is truncated and starts with its header.          *)
Truncated(S) == [h \in Huds |-> IF h \in S \intersect Exported THEN NoLine ELSE file[h]]

Attach ==
  /\ ~ attached
  /\ attached' = TRUE
  /\ huds' = [h \in Huds |-> NewHud(h)]
  /\ file' = Truncated(Huds)
  /\ counts' = [n \in Counted |-> 0]
  /\ now' = Never
  /\ updated' = {} /\ failed' = {}
  /\ UNCHANGED <<on, cost, again>>

(* The file of h cannot be opened, or not be written.                      *)
AttachFails(h) ==
  /\ ~ attached /\ h \in Exported
  /\ file' \in {Truncated(InitedBefore(h)), Truncated(InitedBefore(h) \union {h})}
  /\ UNCHANGED <<attached, huds, counts, now, on, updated, cost, again, failed>>

(* widgets_uninit.                                                         *)
WidgetsFreed == [h \in Huds |-> NewHud(h)]

(* hud_uninit.                                                             *)
Detach ==
  /\ attached
  /\ attached' = FALSE
  /\ huds' = WidgetsFreed
  /\ UNCHANGED <<file, counts, now, on, updated, cost, again, failed>>

(***************************************************************************)
(* A frame: the update and the draw of the scene, for the time st.t with   *)
(* the switches st.on, where every node takes st.cost and the update of    *)
(* the nodes of st.bad fails.  st.timer is the hud whose GL query is       *)
(* active, as ctx->timer_active tells, and st.clock the time that passed.  *)
(***************************************************************************)
Measured(st, h, id, time) == [st EXCEPT !.huds[h].measures[id] = RegisterTime(h, @, time)]

(* The first hud on the way down has the query, which cannot be nested.    *)
Begin(st, h) == [st EXCEPT !.timer = IF @ = None THEN h ELSE @]
End(st, h)   == [st EXCEPT !.timer = IF @ = h THEN None ELSE @]
GpuTime(st, h, time) == IF st.timer = h THEN time * Nano ELSE 0

Abs(x) == IF x < 0 THEN -x ELSE x

CountedAs(draws, n, i) == IF n \in Counted THEN [draws EXCEPT ![n] = i] ELSE draws

RECURSIVE UpdateNode(_, _)

(* hud_update and widget_latency_update; the times are registered although *)
(* the update failed.                                                      *)
HudUpdate(st, h) ==
  LET need  == Abs(st.t - st.huds[h].refreshed) >= Interval[h]
      begun == Begin([st EXCEPT !.huds[h].need = need,
                                !.huds[h].refreshed = IF need THEN st.t ELSE @], h)
      below == UpdateNode(begun, Kids[h][1])
      time  == below.clock - st.clock
      cpu   == Measured(below, h, "update CPU", time)
  IN  End(Measured(cpu, h, "update GPU", GpuTime(begun, h, time)), h)

(* ngli_node_update.                                                       *)
UpdateNode(st, n) ==
  IF st.failed \/ n \in st.updated THEN st
  ELSE LET below == IF n \in Huds THEN HudUpdate(st, n)
                    ELSE FoldLeft(UpdateNode, st, KidsTaken(n, st.on))
       IN  IF below.failed THEN below
           ELSE IF n \in st.bad THEN [below EXCEPT !.failed = TRUE]
           ELSE [below EXCEPT !.clock = @ + st.cost, !.counts = CountedAs(@, n, 0), !.updated = @ \union {n}]

(* Mutant: the counts go on from one draw to the next.                     *)
ResetDraws_Never(st, h) == st

(* widget_drawcall_reset_draws, as a frame may be drawn more than once.    *)
ResetDraws(st, h) ==
  [st EXCEPT !.counts = [n \in Tracked[h] |-> 0] @@ @]

RECURSIVE DrawNode(_, _)

(* widget_latency_make_stats.                                              *)
DrawMeasured(st, h) ==
  LET begun == Begin(st, h)
      below == DrawNode(begun, Kids[h][1])
      time  == below.clock - st.clock
      gpu   == GpuTime(begun, h, time)
      draw  == Measured(Measured(below, h, "draw CPU", time), h, "draw GPU", gpu)
      total == Measured(draw, h, "total CPU", time + LastTime(h, below.huds[h].measures["update CPU"]))
  IN  End(Measured(total, h, "total GPU", gpu + LastTime(h, below.huds[h].measures["update GPU"])), h)

(* widgets_csv_report.                                                     *)
CsvLine(st, h) ==
  [c \in ToSet(CsvHeader) |->
     IF c[1] = "time" THEN st.huds[h].refreshed
     ELSE Statistic(h, c, st.huds[h].measures, st.counts, st.active)]

(* widgets_draw: the values of the line are shown and join the graphs.     *)
WidgetsDrawn(st, h) ==
  LET line == CsvLine(st, h)
  IN  [st EXCEPT !.huds[h].graphs = [v \in Value |-> RegisterGraphValue(@[v], line[v])]]

Exporting(st, h) == IF h \in Exported THEN [st EXCEPT !.file[h] = CsvLine(st, h)] ELSE st

(* hud_draw.                                                               *)
HudDraw(st, h) ==
  LET measured == DrawMeasured(ResetDraws(st, h), h)
  IN  IF st.huds[h].need THEN WidgetsDrawn(Exporting(measured, h), h) ELSE measured

(* ngli_node_draw.                                                         *)
DrawNode(st, n) ==
  IF Kind[n] \notin Drawn THEN st
  ELSE LET below == IF n \in Huds THEN HudDraw(st, n)
                    ELSE IF Kind[n] \in {"render", "compute"} THEN st
                    ELSE FoldLeft(DrawNode, st, KidsTaken(n, st.on))
       IN  [below EXCEPT !.clock = @ + st.cost, !.counts = CountedAs(@, n, @[n] + 1)]

(* cmd_draw.  A frame of the same time is drawn again, or was not drawn.   *)
Frame(time, enabled, bad, pace) ==
  /\ attached
  /\ time >= now
  /\ time = now => enabled = on /\ pace = cost /\ again < MaxAgain
  /\ LET st == UpdateNode([huds |-> huds, file |-> file, counts |-> counts,
                           updated |-> IF time = now THEN updated ELSE {}, failed |-> FALSE,
                           t |-> time, on |-> enabled, active |-> Active(enabled), bad |-> bad, cost |-> pace,
                           timer |-> None, clock |-> 0], Root)
         end == IF st.failed THEN st ELSE DrawNode(st, Root)
     IN  /\ huds' = end.huds /\ file' = end.file /\ counts' = end.counts
         /\ updated' = end.updated
         /\ failed' = IF end.failed THEN failed \union {time} ELSE failed
  /\ now' = time
  /\ on' = enabled
  /\ cost' = pace
  /\ again' = IF time = now THEN again + 1 ELSE 0
  /\ UNCHANGED attached

Next ==
  \/ Attach
  \/ \E h \in Huds : AttachFails(h)
  \/ Detach
  \/ \E time \in Time, enabled \in SUBSET Switch, pace \in Cost :
       \E bad \in SUBSET UpdateMayFail : Frame(time, enabled, bad, pace)

Spec == Init /\ [][Next]_vars

(***************************************************************************)
(* Properties                                                              *)
(***************************************************************************)
(* A total that is only added to and subtracted from is, after any number  *)
(* of frames and of draws without an update, the sum of the times that the *)
(* average is taken over: those of the window, and as many as count says.  *)
LatenciesAddUp ==
  attached => \A h \in Huds, id \in LatencyId :
    LET m == huds[h].measures[id]
        recent == {(m.pos - i + Window[h]) % Window[h] : i \in 1 .. m.count}
    IN  /\ m.total = MapThenSumSet(LAMBDA i : m.times[i], recent)
        /\ m.total = MapThenSumSet(LAMBDA i : m.times[i], DOMAIN m.times)

(* The rectangles of a and b have no point in common.                      *)
Apart(a, b) ==
  a.x + a.w <= b.x \/ b.x + b.w <= a.x \/ a.y + a.h <= b.y \/ b.y + b.h <= a.y

Inside(a, b) == a.x >= b.x /\ a.y >= b.y /\ a.x + a.w <= b.x + b.w /\ a.y + a.h <= b.y + b.h

(* For every aspect ratio the widgets are on the canvas, apart from each   *)
(* other, and every graph is inside its widget.                            *)
LaidOut ==
  \A aspect \in Aspects :
    LET canvas  == Canvas(aspect)
        widgets == Widgets(canvas)
    IN  \A i \in DOMAIN widgets :
          /\ Inside(widgets[i].rect, [x |-> 0, y |-> 0, w |-> canvas.w, h |-> canvas.h])
          /\ Inside(widgets[i].graph, widgets[i].rect)
          /\ \A j \in 1 .. i - 1 : Apart(widgets[i].rect, widgets[j].rect)

(* The rows drawn for the k-th value of the graph of v, in widgets of bars *)
(* and in widgets of lines, which share a scale.                           *)
RowsDrawn(h, v, k) ==
  LET graphs == huds[h].graphs
      group  == {w \in Value : w[1] = v[1]}
      height == GraphRect[v[1]].h
  IN  IF v[1] \in {"activity", "drawcall"} THEN BlockRows(graphs[v], k, height)
      ELSE LineRows(graphs[v], k, height, Min({graphs[w].min : w \in group}), Max({graphs[w].max : w \in group}))

(* What is drawn of a graph stays in its rectangle, although nothing clips *)
(* the height of the bars: the extremes, which are kept up to date one     *)
(* value at a time, are those of the values, and the canvas has room for   *)
(* the rectangle.                                                          *)
GraphsStayInside ==
  /\ LaidOut
  /\ \A h \in Huds, v \in Value :
       LET d == huds[h].graphs[v]
       IN  /\ d.min = Min(Range(d.values)) /\ d.max = Max(Range(d.values))
           /\ d.count <= GraphRect[v[1]].w
           /\ \A k \in 0 .. d.count - 1 : RowsDrawn(h, v, k) \subseteq 0 .. GraphRect[v[1]].h - 1

(* How often n is drawn when the root is drawn once.                       *)
Draws(root, n) ==
  LET paths[m \in Node] ==
        IF m = n THEN 1
        ELSE FoldLeft(LAMBDA sum, k : sum + paths[k], 0, KidsTaken(m, on))
  IN  paths[root]

(* A node that a hud below h counts too, which then resets its count.      *)
Shared(h, n) == \E k \in Huds \ {h} : k \in Below[h] /\ n \in Below[k]

(* After a frame, the line of every hud that was drawn is of a time that   *)
(* is less than its interval ago, unless the update failed at that time,   *)
(* and a line of the frame has the draws of this frame: none of those      *)
(* before it, of a frame that was drawn twice included, nor any of another *)
(* hud that draws the same nodes.  Below another hud some draws are lost.  *)
LinesAreOfTheFrame ==
  attached /\ now # Never /\ now \notin failed =>
    \A h \in Exported \intersect Active(on) :
      /\ now - huds[h].refreshed < Interval[h] \/ huds[h].refreshed = now
      /\ huds[h].refreshed \notin failed => file[h] # NoLine /\ file[h][<<"time", "">>] = huds[h].refreshed
      /\ file[h] # NoLine /\ file[h][<<"time", "">>] = now =>
           \A i \in DOMAIN Drawcalls :
             LET nodes == NodesSet[h][Drawcalls[i]]
                 drawn == MapThenSumSet(LAMBDA n : Draws(h, n), nodes)
                 shown == file[h][<<"drawcall", Drawcalls[i]>>]
             IN  IF \E n \in nodes : Shared(h, n) THEN shown <= drawn ELSE shown = drawn

=============================================================================
