------------------------------ MODULE PlotRoot ------------------------------
(***************************************************************************)
(* HarryPlotter's plots with ROOT (plot_modules/plotroot.py): the plots    *)
(* that one process makes one after the other, each by the steps of        *)
(* PlotBase.run.  The ROOT style and the settings of the module CMS_lumi   *)
(* are global: they outlive a plot.                                        *)
(*                                                                         *)
(* Colours, widths and sizes only matter where the code decides on them;   *)
(* positions on the canvas are left out.                                   *)
(***************************************************************************)
EXTENDS PlotBase

CONSTANTS Session,        \* the sequences of plots asked of a process
          Colours         \* names of colours that can be resolved

VARIABLES asked,          \* the options and objects of the plots of this process
          stage,          \* the step that comes next
          p,              \* the options of the plot in work, as completed so far
          objects,        \* its objects by nick
          lims,           \* the ranges of its axes
          fig,            \* what has been drawn
          style,          \* ROOT.gStyle
          cms,            \* the globals of CMS_lumi
          made            \* how each plot has ended: its figure, or the step that failed

plot == <<p, objects, lims, fig>>
vars == <<asked, stage, plot, style, cms, made>>

Now == Len(made) + 1
DefaultStyle == [fit_box |-> TRUE, text_format |-> "g", palette |-> <<"1">>]
ImportedCms == [cmsText |-> "CMS", lumi_sqrtS |-> <<>>, relPosX |-> "0.045", lumiTextOffset |-> "0.2", extraText |-> "Preliminary"]
EmptyFigure == [sub |-> FALSE, wide |-> FALSE, frame |-> NoLims, drawn |-> <<>>, log |-> {}, grid |-> {},
                legend |-> None, sub_legend |-> None, texts |-> <<>>, cms |-> <<>>]

\* The options that only these plots have, or have with another default.
PlotRootOptions ==
  [x_rel_lims |-> <<One, One>>, sym_x_lims |-> FALSE, sym_y_lims |-> FALSE, sym_z_lims |-> FALSE,
   sym_y_subplot_lims |-> FALSE, y_subplot_log |-> FALSE, z_subplot_log |-> FALSE,
   colormap |-> <<FALSE>>, x_grid |-> FALSE, y_grid |-> FALSE, fill_styles |-> <<None>>, line_widths |-> <<2>>,
   subplot_legend |-> None, legend_markers |-> <<None>>, texts_below_legend |-> <<>>,
   extra_text |-> "", cms |-> FALSE, cms_outframe |-> FALSE, year |-> None,
   set_paint_text_format |-> None, no_fit_results_box |-> FALSE] @@ PlotBaseOptions

-----------------------------------------------------------------------------
\* prepare_args: the draw options by position, stack and type of input.
HasPart(s, part) == \E i \in 1 .. Len(s) - Len(part) + 1 : SubSeq(s, i, i + Len(part) - 1) = part
\* The contents of the stacked histograms are drawn as areas, a line is a histogram without one.
default_marker(q, i) ==
  CASE q.y_expressions # {None} -> "COLZ"
    [] q.y_expressions = {None} /\ i = 1 -> IF Len(q.markers) > 1 THEN "E" ELSE "HIST"
    [] OTHER -> IF Cardinality({j \in DOMAIN q.stacks : q.stacks[j] = q.stacks[i]}) = 1 THEN "LINE" ELSE "HIST"
drawn_as(q, i) ==
  LET marker == IF q.markers[i] = None THEN default_marker(q, i) ELSE q.markers[i]
      as(m, fill, width) == [marker |-> m, fill |-> fill, width |-> width]
      width == q.line_widths[i]
  IN CASE q.fill_styles[i] # None -> as(marker, q.fill_styles[i], width)
       [] q.fill_styles[i] = None /\ HasPart(marker, "HIST") /\ ~HasPart(marker, "E") -> as(marker, 1001, 1)
       [] q.fill_styles[i] = None /\ marker = "LINE" -> as("HIST", 0, width)
       [] q.fill_styles[i] = None /\ HasPart(marker, "E") /\ ~HasPart(marker, "HIST")
            /\ marker \notin {"E", "EX0", "LINE"} -> as(marker, 3144, 0)
       [] OTHER -> as(marker, 0, width)

\* One colour stands for lines and areas, by default the number of the plot.
colours(q, i) ==
  CASE q.colors[i] = None -> <<ToString(i), ToString(i)>>
    [] q.colors[i] # None /\ Len(q.colors[i]) = 1 -> q.colors[i] \o q.colors[i]
    [] OTHER -> q.colors[i]

\* Missing coordinates of the legend are those of the default rectangle.
full_legend(legend) == SubSeq(legend \o SubSeq(<<6, 6, 9, 9>>, Len(legend) + 1, 4), 1, 4)

listed_options(base) ==
  prepare_list_args(base, {"nicks", "stacks", "colors", "colormap", "labels", "markers", "line_widths",
                           "legend_markers", "fill_styles"}, n_items(base))
styled_options(q, styled) ==
  [q EXCEPT !.colors = [i \in DOMAIN @ |-> colours(q, i)],
            !.markers = [i \in DOMAIN @ |-> styled[i].marker],
            !.fill_styles = [i \in DOMAIN @ |-> styled[i].fill],
            !.line_widths = [i \in DOMAIN @ |-> styled[i].width],
            !.legend = IF @ = None THEN None ELSE full_legend(@)]
styled_args(q) == styled_options(q, [i \in DOMAIN q.nicks |-> drawn_as(q, i)])
checked_args(base) ==
  IF HasFailed(base) \/ \E i \in DOMAIN base.colors : base.colors[i] # None /\ ~ToSet(base.colors[i]) \subseteq Colours
  THEN Failure(base) ELSE styled_args(listed_options(base))
prepare_args(asked_plot) == checked_args(base_prepare_args(asked_plot))

-----------------------------------------------------------------------------
\* determine_plot_lims.
Unsigned(rel, bound) == rel                          \* mutant: the sign is not regarded
Factor(rel, bound) == IF Less(Zero, bound) THEN rel ELSE Int2F(2) -- rel
Margin(bounds, rel) == <<bounds[1] ** Factor(rel[1], bounds[1]), bounds[2] ** Factor(rel[2], bounds[2])>>
Around(center, half) == <<center -- half, center ++ half>>
FarthestFrom(center, bounds) == MaxF({AbsF(bounds[1] -- center), AbsF(bounds[2] -- center)})

\* Two given limits are <center> <range / 2>, one is the center, none leaves the range as it is.
symmetric(given, bounds) ==
  CASE given # None /\ Len(given) > 1 -> Around(given[1], given[2])
    [] given # None /\ Len(given) = 1 -> Around(given[1], FarthestFrom(given[1], bounds))
    [] OTHER -> bounds
\* The given limits replace the lower, then the upper one.
asymmetric(given, bounds) ==
  <<IF given # None THEN given[1] ELSE bounds[1], IF given # None /\ Len(given) > 1 THEN given[2] ELSE bounds[2]>>
axis_lims(sym, given, bounds) == IF sym THEN symmetric(given, bounds) ELSE asymmetric(given, bounds)
Above(bounds) == IF bounds # Nothing /\ bounds[1] = bounds[2] THEN <<bounds[1], bounds[2] ++ One>> ELSE bounds
Widened(bounds) == IF bounds[1] = bounds[2] THEN Around(bounds[1], One) ELSE bounds

Tenth == <<<<9, 10>>, <<11, 10>>>>
Percent == <<<<99, 100>>, <<101, 100>>>>
MarginIf(bounds, rel) == IF bounds = Nothing THEN Nothing ELSE Margin(bounds, rel)
\* The limits cannot be computed: there is no object to take the missing one from.
NeedsBounds(given, bounds) == bounds = Nothing /\ (given = None \/ Len(given) = 1)

sym_y(q) == q.sym_y_lims /\ ~q.y_log
\* Publication plots have more room above.
cms_room(q, bounds, dim) ==
  IF ~sym_y(q) /\ dim < 3 /\ (q.y_lims = None \/ Len(q.y_lims) = 1) /\ q.cms THEN <<bounds[1], bounds[2] ** <<12, 10>>>> ELSE bounds
y_lims(q, raw, dim) == cms_room(q, axis_lims(sym_y(q), q.y_lims, IF dim < 3 THEN MarginIf(raw, q.y_rel_lims) ELSE raw), dim)

lims_from(q, raw) ==
  IF NeedsBounds(q.y_lims, raw.y) \/ (q.sym_y_subplot_lims /\ NeedsBounds(q.y_subplot_lims, raw.y_sub))
     \/ (q.sym_z_lims /\ ~q.z_log /\ NeedsBounds(q.z_lims, raw.z))
  THEN Failure(raw)
  ELSE [raw EXCEPT !.x = Widened(axis_lims(q.sym_x_lims /\ ~q.x_log, q.x_lims, Margin(@, q.x_rel_lims))),
                   !.y = Above(y_lims(q, @, raw.dim)),
                   !.z = Above(axis_lims(q.sym_z_lims /\ ~q.z_log, q.z_lims, MarginIf(@, IF q.z_log THEN Tenth ELSE Percent))),
                   !.y_sub = Above(axis_lims(q.sym_y_subplot_lims, q.y_subplot_lims, MarginIf(@, Tenth))),
                   !.z_sub = Above(MarginIf(@, Tenth))]
determine_plot_lims(q, obj) == lims_from(q, base_determine_plot_lims(q, obj))

-----------------------------------------------------------------------------
\* make_plots and modify_axes.
Shown(q) == 1 .. Min({Len(q.nicks), Len(q.subplots)})       \* zip with the subplots
\* A gradient of the colours of the last object with a colour map, or one of the
\* palettes of ROOT by its number.
palette_after(q, before) ==
  FoldLeft(LAMBDA s, i : IF q.colormap[i] THEN (IF Cardinality(ToSet(q.colors[i])) = 1 THEN <<q.colors[i][1]>> ELSE q.colors[i]) ELSE s,
           before, [i \in Shown(q) |-> i])
drawn_objects(q, obj) ==
  [i \in Shown(q) |-> [nick |-> q.nicks[i], below |-> q.subplots[i], marker |-> q.markers[i], fill |-> q.fill_styles[i],
                       color |-> q.colors[i], object |-> obj[q.nicks[i]]]]
\* math.log10 raises an exception for the bounds of an axis that is not above zero.
LogFails(log, bounds) == log /\ (bounds = Nothing \/ ~Less(Zero, bounds[1]) \/ ~Less(Zero, bounds[2]))
log_axes(q, sub) ==
  (IF q.x_log THEN {"x"} ELSE {}) \cup (IF q.y_log THEN {"y"} ELSE {}) \cup (IF q.z_log THEN {"z"} ELSE {})
  \cup (IF sub /\ q.y_subplot_log THEN {"y_sub"} ELSE {}) \cup (IF sub /\ q.z_subplot_log THEN {"z_sub"} ELSE {})
log_fails(q, l, sub) ==
  \/ LogFails(q.x_log, l.x) \/ LogFails(q.y_log, l.y) \/ LogFails(q.z_log, l.z)
  \/ sub /\ (LogFails(q.y_subplot_log, l.y_sub) \/ LogFails(q.z_subplot_log, l.z_sub))
\* The right margin stays wide for the palette of a two-dimensional histogram.
HasPalette(drawn) == \E i \in DOMAIN drawn : drawn[i].object.kind = "TH2" /\ HasPart(drawn[i].marker, "Z")
wide_margin(drawn, l) == HasPalette(drawn) /\ l.dim >= 3

\* add_labels.
legend_marker(q, obj, i) ==
  LET kind == obj[q.nicks[i]].kind
  IN CASE q.legend_markers[i] # None -> q.legend_markers[i]
       [] q.legend_markers[i] = None /\ kind \in Binned -> "F"
       [] q.legend_markers[i] = None /\ kind = "TGraph" -> "LP"
       [] OTHER -> "L"
entries(q, obj, among) ==
  LET of == SelectSeq([i \in Shown(q) |-> i], LAMBDA i : q.labels[i] \notin {None, ""} /\ i \in among)
  IN [k \in DOMAIN of |-> <<q.nicks[of[k]], q.labels[of[k]], legend_marker(q, obj, of[k])>>]
InMain(q, i) == q.nicks[i] \notin ToSet(q.subplot_nicks)
main_entries(q, obj) ==
  LET below == SelectSeq(q.texts_below_legend, LAMBDA text : text \notin {None, ""})
  IN entries(q, obj, {i \in Shown(q) : InMain(q, i)}) \o [t \in DOMAIN below |-> <<None, below[t], "">>]
sub_entries(q, obj) == entries(q, obj, {i \in Shown(q) : q.subplots[i]})

\* add_texts: CMS_lumi writes the luminosity above the frame, and the name of the
\* experiment and the extra text in the frame or above it.
CMS_lumi(settings, outframe) ==
  [lumi |-> settings.lumi_sqrtS, offset |-> settings.lumiTextOffset,
   cms |-> settings.cmsText, extra |-> settings.extraText, relPosX |-> settings.relPosX, outframe |-> outframe]

Units == {"fb", "pb"}
first_unit(title) == title[Min({i \in DOMAIN title : title[i] \in Units})]
\* Every unit is written as the first one.
same_units(title) == [i \in DOMAIN title |-> IF title[i] \in Units THEN first_unit(title) ELSE title[i]]
\* The year is put after the first parenthesis; what follows the second one is lost.
Parentheses(title) == {i \in DOMAIN title : title[i] = "("}
with_year(title, year) ==
  LET open == Min(Parentheses(title))
      next == Min((Parentheses(title) \ {open}) \cup {Len(title) + 1})
  IN SubSeq(title, 1, open) \o <<year>> \o SubSeq(title, open + 1, next - 1)

lumi_text(q, title, before) ==
  CASE title = <<>> -> before
    [] title # <<>> /\ HasPart(q.extra_text, "Simulation") -> <<>>
    [] title # <<>> /\ ~HasPart(q.extra_text, "Simulation") /\ q.year = None -> before
    [] OTHER -> with_year(same_units(title), q.year)
title_fails(q, title) ==
  /\ title # <<>> /\ ~HasPart(q.extra_text, "Simulation")
  /\ \/ ToSet(title) \cap Units = {}
     \/ q.year # None /\ Parentheses(title) = {}
settings_for(q, title, before, sub) ==
  [before EXCEPT !.lumi_sqrtS = lumi_text(q, title, @),
              !.lumiTextOffset = IF title # <<>> /\ sub THEN "0.4" ELSE @,
              !.cmsText = IF q.cms \/ q.cms_outframe THEN @ ELSE "",
              !.extraText = q.extra_text,
              !.relPosX = IF q.cms_outframe THEN "0.12" ELSE @]

-----------------------------------------------------------------------------
Init ==
  /\ asked \in Session
  /\ stage = "prepare_args" /\ made = <<>>
  /\ p = None /\ objects = None /\ lims = None /\ fig = EmptyFigure
  /\ style = DefaultStyle /\ cms = ImportedCms

\* The exception of a step ends this plot, the process goes on with the next one.
Raise(step) ==
  /\ made' = Append(made, [raised |-> step])
  /\ stage' = "prepare_args" /\ fig' = EmptyFigure
  /\ p' = None /\ objects' = None /\ lims' = None
  /\ UNCHANGED asked
At(step) == stage = step /\ Now <= Len(asked)
Then(step) == stage' = step /\ UNCHANGED <<asked, made>>

PrepareArgs ==
  /\ At("prepare_args")
  /\ \E prepared \in {prepare_args(asked[Now].options)} :
        \/ HasFailed(prepared) /\ Raise("prepare_args") /\ UNCHANGED <<style, cms>>
        \/ ~HasFailed(prepared) /\ p' = prepared /\ objects' = asked[Now].objects
           /\ Then("set_style") /\ UNCHANGED <<lims, fig, style, cms>>

\* The style is made anew for every plot.
SetStyle ==
  /\ At("set_style")
  /\ style' = [DefaultStyle EXCEPT !.fit_box = ~p.no_fit_results_box,
                                   !.text_format = IF p.set_paint_text_format # None THEN p.set_paint_text_format ELSE @]
  /\ Then("create_canvas") /\ UNCHANGED <<plot, cms>>

CreateCanvas ==
  /\ At("create_canvas")
  /\ fig' = [fig EXCEPT !.sub = Len(p.subplot_nicks) > 0, !.wide = TRUE]
  /\ Then("prepare_histograms") /\ UNCHANGED <<p, objects, lims, style, cms>>

\* Labels of the z axis are set with methods that only histograms have.
PrepareHistograms ==
  /\ At("prepare_histograms")
  /\ \E prepared \in {base_prepare_histograms(p, objects)},
        labelled \in {p.z_tick_labels = None \/ \A i \in Shown(p) : IsBinned(objects[p.nicks[i]])} :
        \/ (HasFailed(prepared) \/ ~labelled) /\ Raise("prepare_histograms") /\ UNCHANGED <<style, cms>>
        \/ ~HasFailed(prepared) /\ labelled /\ objects' = prepared
           /\ Then("determine_plot_lims") /\ UNCHANGED <<p, lims, fig, style, cms>>

DeterminePlotLims ==
  /\ At("determine_plot_lims")
  /\ \E l \in {determine_plot_lims(p, objects)} :
        \/ HasFailed(l) /\ Raise("determine_plot_lims") /\ UNCHANGED <<style, cms>>
        \/ ~HasFailed(l) /\ lims' = l /\ Then("make_plots") /\ UNCHANGED <<p, objects, fig, style, cms>>

\* The frame of a two-dimensional subplot needs a variable that does not exist.
MakePlots ==
  /\ At("make_plots")
  /\ \/ fig.sub /\ lims.sub_dim # 2 /\ Raise("make_plots") /\ UNCHANGED <<style, cms>>
     \/ /\ ~(fig.sub /\ lims.sub_dim # 2)
        /\ fig' = [fig EXCEPT !.frame = lims, !.drawn = drawn_objects(p, objects)]
        /\ style' = [style EXCEPT !.palette = palette_after(p, @)]
        /\ Then("modify_axes") /\ UNCHANGED <<p, objects, lims, cms>>

ModifyAxes ==
  /\ At("modify_axes")
  /\ \/ log_fails(p, lims, fig.sub) /\ Raise("modify_axes") /\ UNCHANGED <<style, cms>>
     \/ ~log_fails(p, lims, fig.sub) /\ fig' = [fig EXCEPT !.log = log_axes(p, fig.sub), !.wide = wide_margin(fig.drawn, lims)]
        /\ Then("add_grid") /\ UNCHANGED <<p, objects, lims, style, cms>>

AddGrid ==
  /\ At("add_grid")
  /\ fig' = [fig EXCEPT !.grid = (IF p.grid \/ p.x_grid THEN {"x"} ELSE {}) \cup (IF p.grid \/ p.y_grid THEN {"y"} ELSE {})
                                 \cup (IF fig.sub /\ p.subplot_grid THEN {"sub"} ELSE {})]
  /\ Then("add_labels") /\ UNCHANGED <<p, objects, lims, style, cms>>

\* The legend of the subplot is only made with the one of the plot, and needs its pad.
AddLabels ==
  /\ At("add_labels")
  /\ LET below == p.legend # None /\ p.subplot_legend # None
     IN \/ below /\ ~fig.sub /\ Raise("add_labels") /\ UNCHANGED <<style, cms>>
        \/ ~(below /\ ~fig.sub)
           /\ fig' = [fig EXCEPT !.legend = IF p.legend = None THEN None ELSE main_entries(p, objects),
                                 !.sub_legend = IF below THEN sub_entries(p, objects) ELSE None]
           /\ Then("add_texts") /\ UNCHANGED <<p, objects, lims, style, cms>>

AddTexts ==
  /\ At("add_texts")
  /\ \E title \in {base_dataset_title(p)} :
        \/ title_fails(p, title) /\ Raise("add_texts") /\ UNCHANGED <<style, cms>>
        \/ ~title_fails(p, title)
           /\ cms' = settings_for(p, title, cms, fig.sub)
           /\ fig' = [fig EXCEPT !.texts = p.texts \o (IF p.title = None THEN <<>> ELSE <<p.title>>),
                                 !.cms = CMS_lumi(cms', p.cms_outframe)]
           /\ Then("plot_end") /\ UNCHANGED <<p, objects, lims, style>>

PlotEnd ==
  /\ At("plot_end")
  /\ made' = Append(made, [figure |-> fig, style |-> style])
  /\ stage' = "prepare_args" /\ fig' = EmptyFigure
  /\ p' = None /\ objects' = None /\ lims' = None
  /\ UNCHANGED <<asked, style, cms>>

Next == \/ PrepareArgs \/ SetStyle \/ CreateCanvas \/ PrepareHistograms \/ DeterminePlotLims \/ MakePlots
        \/ ModifyAxes \/ AddGrid \/ AddLabels \/ AddTexts \/ PlotEnd
Spec == Init /\ [][Next]_vars

-----------------------------------------------------------------------------
(* What the plots promise to those who asked for them, stated from the     *)
(* options and objects as given, not as completed by the program.          *)
Ended(i) == i \in DOMAIN made /\ "figure" \in DOMAIN made[i]
Figure(i) == made[i].figure
Given(i) == asked[i].options
Found(n, regexps) == \E k \in DOMAIN regexps : n \in regexps[k]
Kept(q) == {n \in ToSet(q.nicks) : (q.nicks_whitelist = <<>> \/ Found(n, q.nicks_whitelist)) /\ ~Found(n, q.nicks_blacklist)}

\* Every object that is selected by the white- and blacklist is drawn exactly once,
\* in the subplot if and only if one of the expressions for the subplot finds it
\* (plotbase.py: select_histograms, plotroot.py: make_plots).
DrawnAsAsked ==
  \A i \in DOMAIN made : Ended(i) =>
    LET drawn == Figure(i).drawn
    IN /\ {drawn[k].nick : k \in DOMAIN drawn} = Kept(Given(i))
       /\ \A k, l \in DOMAIN drawn : drawn[k].nick = drawn[l].nick => k = l
       /\ \A k \in DOMAIN drawn : drawn[k].below <=> Found(drawn[k].nick, Given(i).subplot_nicks)
       /\ (\E k \in DOMAIN drawn : drawn[k].below) => Figure(i).sub

\* The stacks that are given are repeated like any list of options, None as well, which
\* is a stack of its own.
Repeated(list, k) == list[((k - 1) % Len(list)) + 1]
SameStack(i, k, l) ==
  LET stacks == Given(i).stacks IN k = l \/ (Repeated(stacks, k) # None /\ Repeated(stacks, k) = Repeated(stacks, l))

Original(i, n) == asked[i].objects[n]

\* What is drawn for an object is the sum of it and of those after it in its stack,
\* once each, so that the areas between the lines are the contributions; with fewer stacks
\* than objects the stacks are repeated.  Not claimed for more stacks than objects: then
\* the objects are repeated, too, and may be added to themselves
\* (plotbase.py: prepare_args, prepare_histograms, which adds in place).
StackedOnce ==
  \A i \in DOMAIN made : Ended(i) /\ Len(Given(i).stacks) <= Len(Figure(i).drawn) =>
    LET drawn == Figure(i).drawn
    IN \A k \in DOMAIN drawn :
         LET above == {l \in DOMAIN drawn : l >= k /\ SameStack(i, k, l)}
         IN \A b \in InBins(drawn[k].object) :
              drawn[k].object.v[b] = SumF([l \in above |-> Original(i, drawn[l].nick).v[b]], above)

Within(value, bounds) == ~Less(value, bounds[1]) /\ ~Less(bounds[2], value)
Auto(given, sym) == given = None \/ (sym /\ Len(given) = 1)
\* The ends of the error bars; on a logarithmic axis of those bars that are above zero.
Bars(o, log) == UNION {{o.v[b] -- Int2F(o.e[b]), o.v[b] ++ Int2F(o.e[b])} :
                       b \in {c \in InBins(o) : log => Less(Zero, o.v[c] -- Int2F(o.e[c]))}}
\* The room of --cms is a factor, too, which lowers a maximum below zero.
LoweredByCms(i) ==
  /\ Given(i).cms /\ ~Given(i).sym_y_lims
  /\ LET main == {k \in DOMAIN Figure(i).drawn : ~Figure(i).drawn[k].below}
     IN \A k \in main : \A v \in Bars(Figure(i).drawn[k].object, FALSE) : Less(v, Zero)

\* Limits that the program chooses hold all that is drawn with its errors: ranges in x,
\* values of the stacked objects in y, in the plot and in the subplot.  Not claimed where
\* the code does not see to it: on a logarithmic axis for a bar that reaches zero, which
\* does not count for the lower limit (plotbase.py:449), and with --cms for a plot
\* that is below zero as a whole (plotroot.py: determine_plot_lims, margins of either sign).
FrameHoldsData ==
  \A i \in DOMAIN made : Ended(i) =>
    LET f == Figure(i).frame
        q == Given(i)
    IN \A k \in DOMAIN Figure(i).drawn :
         LET d == Figure(i).drawn[k]
             o == d.object
         IN /\ Auto(q.x_lims, q.sym_x_lims) => Within(o.x[1], f.x) /\ Within(o.x[2], f.x)
            /\ ~d.below /\ o.kind # "TH2" /\ Auto(q.y_lims, q.sym_y_lims) /\ ~LoweredByCms(i) =>
                 \A v \in Bars(o, q.y_log) : Within(v, f.y)
            /\ ~d.below /\ o.kind = "TH2" /\ q.z_lims = None => \A v \in Bars(o, q.z_log) : Within(v, f.z)
            /\ d.below /\ q.y_subplot_lims = None => \A v \in Bars(o, q.y_log) : Within(v, f.y_sub)

\* The legend names every labelled object of the plot once, in drawing order, with the
\* label of its position, or its nick if no label is given, and none of the subplot; the
\* extra texts are below all of them (plotroot.py: add_labels).
LegendAsAsked ==
  \A i \in DOMAIN made : Ended(i) /\ Given(i).legend # None =>
    LET drawn == Figure(i).drawn
        label(k) == IF ToSet(Given(i).labels) = {None} THEN drawn[k].nick ELSE Repeated(Given(i).labels, k)
        labelled == SelectSeq([k \in DOMAIN drawn |-> k], LAMBDA k : ~drawn[k].below /\ label(k) \notin {None, ""})
        extra == SelectSeq(Given(i).texts_below_legend, LAMBDA text : text # "")
    IN [e \in DOMAIN Figure(i).legend |-> <<Figure(i).legend[e][1], Figure(i).legend[e][2]>>]
         = [k \in DOMAIN labelled |-> <<drawn[labelled[k]].nick, label(labelled[k])>>]
           \o [t \in DOMAIN extra |-> <<None, extra[t]>>]

\* A plot does not depend on the plots that the process has made before, its texts
\* set aside: the same request gives the same figure, style or failure
\* (plotroot.py: set_style, create_canvas).
PlotsAreIndependent ==
  \A i, j \in DOMAIN made : asked[i] = asked[j] =>
    /\ Ended(i) <=> Ended(j)
    /\ Ended(i) => /\ made[i].style = made[j].style
                   /\ [Figure(i) EXCEPT !.cms = <<>>] = [Figure(j) EXCEPT !.cms = <<>>]
    /\ ~Ended(i) => made[i] = made[j]

\* "Make a CMS publication plot (CMS inside frame)." (plotroot.py:157)
CmsIsWritten == \A i \in DOMAIN made : Ended(i) /\ Given(i).cms => Figure(i).cms.cms = "CMS"
=============================================================================
