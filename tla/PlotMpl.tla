------------------------------- MODULE PlotMpl -------------------------------
(***************************************************************************)
(* HarryPlotter's plots with Matplotlib (plot_modules/plotmpl.py, with the *)
(* simple objects of utility/mplhisto.py): the plots that one process      *)
(* makes one after the other.  matplotlib.rcParams is global: it outlives  *)
(* a plot.  The add-ons PlotMplMean, PlotMplRectangle and                  *)
(* PlotMplLegendTable draw on the figure that PlotMpl has made.            *)
(***************************************************************************)
EXTENDS PlotBase

CONSTANTS Session,        \* the sequences of plots asked of a process
          Version,        \* of Matplotlib, its digits as a number
          AreasInLegend   \* Matplotlib has legend entries for areas between lines

VARIABLES asked, stage, p, objects, lims, fig, made,
          rc              \* matplotlib.rcParams

plot == <<p, objects, lims, fig>>
vars == <<asked, stage, plot, made, rc>>

Now == Len(made) + 1
Quadratic == <<7, 7>>
EmptyFigure == [axes |-> <<>>, artists |-> <<>>, x |-> Nothing, y |-> Nothing, y_sub |-> Nothing, colorbar |-> None,
                lines |-> <<>>, legend |-> <<>>, sub_legend |-> <<>>, frame |-> FALSE, texts |-> <<>>, added |-> <<>>]

PlotMplOptions ==
  [x_errors |-> <<None>>, y_errors |-> <<None>>, step |-> <<FALSE>>, zorder |-> <<None>>, line_styles |-> <<None>>,
   line_widths |-> <<None>>, marker_fill_styles |-> <<None>>, three_d |-> FALSE, save_legend |-> FALSE, aspect_ratio |-> 1, figsize |-> Quadratic,
   lines |-> <<>>, lines_styles |-> None, subplot_lines |-> <<1>>, subplot_fraction |-> 25, subplot_legend |-> None,
   legend |-> "upper right", formats |-> {"png"}, fit_results |-> {}, add_ons |-> <<>>, mean_nicks |-> None,
   rectangle_x |-> <<>>, rectangle_y |-> <<>>, rectangle_alpha |-> <<5>>, rectangle_color |-> <<"grey">>,
   table_columns |-> <<>>, table_rows |-> <<>>, table_invert |-> FALSE] @@ PlotBaseOptions

-----------------------------------------------------------------------------
\* prepare_args.
OrElse(list, default(_)) == [i \in DOMAIN list |-> IF list[i] = None THEN default(i) ELSE list[i]]
rel_y_lims(log) == IF log THEN <<<<1, 2>>, <<2, 1>>>> ELSE <<<<9, 10>>, <<12, 10>>>>

IsRatio(nick) == \E i \in 1 .. Len(nick) - 4 : SubSeq(nick, i, i + 4) = "ratio"
\* The list of what is in the subplot is not repeated with the nicks.
OutOfSubplots(q, i) == q.markers[i] = None /\ ~(i = 1 /\ Len(q.markers) > 1) /\ i \notin DOMAIN q.subplots
default_marker(q, objs, i) ==
  IF (i = 1 /\ Len(q.markers) > 1) \/ q.subplots[i] \/ IsRatio(q.nicks[i])
     \/ objs[q.nicks[i]].kind \in {"TProfile", "TGraph"}
  THEN "." ELSE "fill"

Bars == {"bar", "fill"}
\* Areas and markers have palettes of their own, of which the colours are taken in turn.
default_color(q, i) ==
  LET before(is) == Cardinality({j \in 1 .. i - 1 : q.colors[j] = None /\ (q.markers[j] \in Bars) = is})
  IN IF q.markers[i] \in Bars THEN <<"bar", before(TRUE) % 8>> ELSE <<"marker", before(FALSE) % 14>>

listed_options(q) ==
  prepare_list_args(q, {"nicks", "stacks", "colors", "labels", "markers", "marker_fill_styles",
                        "line_styles", "line_widths", "x_errors", "y_errors", "step", "zorder"}, n_items(q))
marked_args(q, objs) == [q EXCEPT !.markers = OrElse(@, LAMBDA i : default_marker(q, objs, i))]
styled_args(q) ==
  [q EXCEPT !.x_errors = OrElse(@, LAMBDA i : i = 1), !.y_errors = OrElse(@, LAMBDA i : i = 1),
            !.colors = OrElse(@, LAMBDA i : default_color(q, i)),
            !.zorder = OrElse(@, LAMBDA i : IF i = 1 THEN 99 ELSE i - 1),
            !.line_styles = OrElse(@, LAMBDA i : ""), !.line_widths = OrElse(@, LAMBDA i : 2),
            !.marker_fill_styles = OrElse(@, LAMBDA i : "full"),
            !.subplot_fraction = Max({0, Min({100, @})})]
checked_args(q, objs) ==
  IF \E i \in DOMAIN q.markers : OutOfSubplots(q, i) THEN Failure(q) ELSE styled_args(marked_args(q, objs))
after_base(base, objs) == IF HasFailed(base) THEN base ELSE checked_args(listed_options(base), objs)
prepare_args(asked_plot, objs) ==
  after_base(base_prepare_args([asked_plot EXCEPT !.y_rel_lims = IF @ = None THEN rel_y_lims(asked_plot.y_log) ELSE @]), objs)

-----------------------------------------------------------------------------
\* The simple objects: edges and contents of the bins without the flows.
nbins(o) == Cardinality(InBins(o))
width(o) == (o.x[2] -- o.x[1]) // Int2F(nbins(o))
xl(o) == [b \in 1 .. nbins(o) |-> o.x[1] ++ (Int2F(b - 1) ** width(o))]
xu(o) == [b \in 1 .. nbins(o) |-> o.x[1] ++ (Int2F(b) ** width(o))]
xbinedges(o) == Append(xl(o), xu(o)[nbins(o)])
bincontents(o) == [b \in 1 .. nbins(o) |-> o.v[b]]

\* Lines in steps: every inner edge twice, every content twice.
Interleaved(a, b) == [i \in 1 .. 2 * Len(a) |-> IF i % 2 = 1 THEN a[(i + 1) \div 2] ELSE b[i \div 2]]
steppify_bin(seq, isx) == IF isx THEN Interleaved(Front(seq), Tail(seq)) ELSE Interleaved(seq, seq)

\* An artist draws an object on an axis (2 is the subplot): as what, on which layer, and
\* how many handles its label gives to the legend.
Labelled(q, i, n, areas) == IF q.labels[i] \in {None, ""} THEN 0 ELSE n + (IF AreasInLegend THEN areas ELSE 0)
artist(q, i, as, layer, handles, outline) ==
  [nick |-> q.nicks[i], axis |-> IF q.nicks[i] \in ToSet(q.subplot_nicks) THEN 2 ELSE 1, as |-> as, color |-> q.colors[i],
   label |-> q.labels[i], layer |-> layer, handles |-> handles, outline |-> outline]

\* The markers of areas are no markers of points.
plot_errorbar(q, i, o) ==
  artist(q, i, IF q.markers[i] \in Bars THEN "." ELSE q.markers[i], q.zorder[i],
         Labelled(q, i, IF q.line_styles[i] # "" THEN 2 ELSE 1, 0),
         IF q.line_styles[i] # "" /\ q.step[i] /\ IsBinned(o)
         THEN <<steppify_bin(xbinedges(o), TRUE), steppify_bin(bincontents(o), FALSE)>> ELSE <<>>)
\* Areas are on the first layer, whatever is asked for.
plot_hist1d(q, i, o) ==
  artist(q, i, q.markers[i], 1,
         Labelled(q, i, (IF q.markers[i] = "errorband" THEN 0 ELSE 1) + (IF q.y_errors[i] THEN 1 ELSE 0),
                  IF q.markers[i] = "bar" THEN 0 ELSE 1),
         IF q.markers[i] = "bar" THEN <<>> ELSE <<steppify_bin(xbinedges(o), TRUE), steppify_bin(bincontents(o), FALSE)>>)
plot_tgrapherrors_envelope(q, i) == artist(q, i, "envelope", q.zorder[i], Labelled(q, i, 2, 1), <<>>)
plot_mesh(q, i) == artist(q, i, IF q.three_d THEN "surface" ELSE "mesh", 0, 0, <<>>)
plot_function(q, i) ==
  artist(q, i, IF q.y_errors[i] /\ q.nicks[i] \in q.fit_results THEN "line with band" ELSE "line", 2, Labelled(q, i, 1, 0), <<>>)

drawn(q, i, o) ==
  CASE o.kind = "TGraph" -> IF q.markers[i] = "fill" THEN plot_tgrapherrors_envelope(q, i) ELSE plot_errorbar(q, i, o)
    [] o.kind = "TH2" -> plot_mesh(q, i)
    [] o.kind \in {"TH1", "TProfile"} -> IF q.markers[i] \in Bars \cup {"errorband"} THEN plot_hist1d(q, i, o) ELSE plot_errorbar(q, i, o)
    [] o.kind = "TF1" -> plot_function(q, i)
get_artists(q, objs) == [i \in DOMAIN q.nicks |-> drawn(q, i, objs[q.nicks[i]])]
\* Surfaces need an axis with three dimensions, which a plot with a subplot has not.
plots_fail(q, objs) ==
  \E n \in ToSet(q.nicks) : objs[n].kind = "TH2" /\ q.three_d /\ q.subplot_nicks # <<>>
\* 0 for functions alone, 1 for points and histograms.
dimension(q, objs) ==
  Max({CASE objs[n].kind = "TF1" -> 0 [] objs[n].kind = "TH2" -> (IF q.three_d THEN 3 ELSE 2) [] OTHER -> 1 : n \in ToSet(q.nicks)})

-----------------------------------------------------------------------------
\* modify_axes.  None is a limit that is left to Matplotlib.
kinds(q, objs) == {objs[n].kind : n \in ToSet(q.nicks) \ ToSet(q.subplot_nicks)}
HasRange(objs, n) == objs[n].kind # "TF1"
x_limits(q, objs) ==
  LET of == {n \in ToSet(q.nicks) : HasRange(objs, n)}
  IN IF q.x_lims # None THEN q.x_lims ELSE <<MinF({objs[n].x[1] : n \in of}), MaxF({objs[n].x[2] : n \in of})>>
lower_limit(q, objs, y) ==
  CASE q.y_log -> IF y = Nothing THEN None ELSE IF Less(One, y[2]) /\ Less(y[1], One) THEN One ELSE y[1]
    [] ~q.y_log /\ "TH1" \in kinds(q, objs) -> Zero
    [] OTHER -> y[1]
upper_limit(q, objs, y) ==
  CASE kinds(q, objs) \subseteq {"TH1"} -> y[2] ** q.y_rel_lims[2]
    [] ~(kinds(q, objs) \subseteq {"TH1"}) /\ ~q.y_log /\ "TH2" \in kinds(q, objs) /\ "TH1" \notin kinds(q, objs) -> y[2]
    [] OTHER -> None
y_limits(q, objs, y) == IF q.y_lims # None THEN q.y_lims ELSE <<lower_limit(q, objs, y), upper_limit(q, objs, y)>>
\* Without a histogram or graph there is no object to ask for its labels; without an
\* object outside the subplot there is no maximum to multiply.
axes_fail(q, objs) ==
  \/ dimension(q, objs) = 0
  \/ dimension(q, objs) # 3 /\ q.y_lims = None /\ kinds(q, objs) = {}

default_linestyles == <<"--", "-.", ":", "-">>
Cycled(seq, n) == [i \in 1 .. n |-> seq[((i - 1) % Len(seq)) + 1]]
\* The styles that are given are a string: every line gets one character of it.
line_styles(q) ==
  IF q.lines_styles = None THEN Cycled(default_linestyles, Len(q.lines))
  ELSE Cycled([c \in 1 .. Len(q.lines_styles) |-> SubSeq(q.lines_styles, c, c)], Len(q.lines))

\* add_labels: of the handles with the same label one entry is made; the entries are
\* ordered like the labels of the plot.
as_handles(artists, labels) ==                       \* mutant: areas before points, as Matplotlib has them
  LET shown == SelectSeq(artists, LAMBDA a : a.handles > 0 /\ a.as \in Bars) \o SelectSeq(artists, LAMBDA a : a.handles > 0 /\ a.as \notin Bars)
  IN [i \in DOMAIN shown |-> shown[i].label]
get_legend_handles_labels_ordered(artists, labels) ==
  LET shown == {artists[i].label : i \in {j \in DOMAIN artists : artists[j].handles > 0}}
      first(l) == Min({i \in DOMAIN labels : labels[i] = l})
  IN SetToSortSeq(shown, LAMBDA a, b : first(a) < first(b))
on_axis(artists, axis) == SelectSeq(artists, LAMBDA a : a.axis = axis)
n_handles(artists) == FoldLeft(LAMBDA n, a : n + a.handles, 0, artists)
legend_of(artists, q, location) ==
  IF location # None /\ n_handles(artists) > 1 THEN get_legend_handles_labels_ordered(artists, q.labels) ELSE <<>>

\* The legends of PDF files without a frame need one that is made invisible.
NeedsWorkaround == "pdf" \in p.formats /\ ~rc.frameon /\ Version = 121

-----------------------------------------------------------------------------
\* PlotMplMean: the mean of every object that has one.
means(q, objs) ==
  LET nicks == IF q.mean_nicks = None THEN q.nicks ELSE q.mean_nicks
  IN SelectSeq(SubSeq(nicks, 1, Min({Len(nicks), Len(q.colors)})), LAMBDA n : objs[n].kind \in Binned \cup {"TGraph"})

\* PlotMplRectangle: rectangles on every axis, over its whole range where no pair of
\* coordinates is left.
rectangle_count(q) == Max({Len(q.rectangle_x) \div 2, Len(q.rectangle_y) \div 2, Len(q.rectangle_alpha), Len(q.rectangle_color)})
Pair(coordinates, k) == IF 2 * k <= Len(coordinates) THEN SubSeq(coordinates, 2 * k - 1, 2 * k) ELSE <<>>
Filled(list, default, n) == list \o [i \in 1 .. n - Len(list) |-> default]
rectangles(q) ==
  LET n == rectangle_count(q)
  IN [k \in 1 .. n |-> [x |-> Pair(q.rectangle_x, k), y |-> Pair(q.rectangle_y, k),
                        alpha |-> Filled(q.rectangle_alpha, 5, n)[k], color |-> Filled(q.rectangle_color, "grey", n)[k]]]
rectangles_fail(q) == Len(q.rectangle_x) % 2 = 1 \/ Len(q.rectangle_y) % 2 = 1

\* PlotMplLegendTable: the entries of the legend column by column, or the labels taken
\* row by row.  Labels that are not in the table have no position to sort by.
table_labels(q) ==
  LET rows == Len(q.table_rows)
      columns == Len(q.table_columns)
  IN IF q.table_invert
     THEN [k \in 1 .. rows * columns |-> q.labels[((k - 1) % rows) * columns + ((k - 1) \div rows) + 1]]
     ELSE q.labels
TableFails(q, artists) ==
  LET cells == Len(q.table_rows) * Len(q.table_columns)
      shown == {a.label : a \in {b \in ToSet(on_axis(artists, 1)) : b.handles > 0}}
  IN \/ q.table_invert /\ cells > Len(q.labels)
     \/ ~shown \subseteq ToSet(table_labels(q))
     \/ Cardinality(shown) < cells
table(q, artists) ==
  LET handles == get_legend_handles_labels_ordered(on_axis(artists, 1), table_labels(q))
      rows == Len(q.table_rows)
  IN [cell \in (1 .. rows) \X (1 .. Len(q.table_columns)) |-> handles[rows * (cell[2] - 1) + cell[1]]]

-----------------------------------------------------------------------------
Init ==
  /\ asked \in Session
  /\ stage = "prepare_args" /\ made = <<>>
  /\ p = None /\ objects = None /\ lims = None /\ fig = EmptyFigure
  /\ rc \in [figsize : {Quadratic}, frameon : BOOLEAN]        \* the user's matplotlibrc

\* The exception of a step ends this plot, the process goes on with the next one.
Raise(step) ==
  /\ made' = Append(made, [raised |-> step])
  /\ stage' = "prepare_args" /\ fig' = EmptyFigure
  /\ p' = None /\ objects' = None /\ lims' = None
  /\ UNCHANGED <<asked, rc>>
At(step) == stage = step /\ Now <= Len(asked)
Then(step) == stage' = step /\ UNCHANGED <<asked, made>>

PrepareArgs ==
  /\ At("prepare_args")
  /\ \E prepared \in {IF "rectangle" \in ToSet(asked[Now].options.add_ons) /\ rectangles_fail(asked[Now].options)
                       THEN Failure(p) ELSE prepare_args(asked[Now].options, asked[Now].objects)} :
        \/ HasFailed(prepared) /\ Raise("prepare_args")
        \/ ~HasFailed(prepared) /\ p' = prepared /\ objects' = asked[Now].objects
           /\ Then("set_style") /\ UNCHANGED <<lims, fig, rc>>

SetStyleOnce ==                                      \* mutant: the size is only set if it is not the default one
  /\ At("set_style")
  /\ \/ ~(Len(p.figsize) = 2 /\ p.aspect_ratio = 1) /\ Raise("set_style")
     \/ Len(p.figsize) = 2 /\ p.aspect_ratio = 1
        /\ rc' = [rc EXCEPT !.figsize = IF p.figsize = Quadratic THEN @ ELSE p.figsize]
        /\ Then("create_canvas") /\ UNCHANGED plot
\* A single number is no size, and a list cannot be multiplied with the aspect ratio.
SetStyle ==
  /\ At("set_style")
  /\ \/ ~(Len(p.figsize) = 2 /\ p.aspect_ratio = 1) /\ Raise("set_style")
     \/ Len(p.figsize) = 2 /\ p.aspect_ratio = 1
        /\ rc' = [rc EXCEPT !.figsize = p.figsize]
        /\ Then("create_canvas") /\ UNCHANGED plot

\* The subplot and the colour bar have axes of their own.
CreateCanvas ==
  /\ At("create_canvas")
  /\ LET bar == IF \E n \in DOMAIN objects : objects[n].kind = "TH2" THEN <<"bar">> ELSE <<>>
     IN fig' = [fig EXCEPT !.axes = IF p.subplot_nicks # <<>> THEN <<"main", "sub">> \o bar
                                    ELSE IF p.three_d THEN <<"3d">> ELSE <<"main">>]
  /\ Then("prepare_histograms") /\ UNCHANGED <<p, objects, lims, rc>>

PrepareHistograms ==
  /\ At("prepare_histograms")
  /\ \E prepared \in {base_prepare_histograms(p, objects)} :
        \/ HasFailed(prepared) /\ Raise("prepare_histograms")
        \/ ~HasFailed(prepared) /\ objects' = prepared /\ lims' = base_determine_plot_lims(p, prepared)
           /\ Then("make_plots") /\ UNCHANGED <<p, fig, rc>>

MakePlots ==
  /\ At("make_plots")
  /\ \/ plots_fail(p, objects) /\ Raise("make_plots")
     \/ ~plots_fail(p, objects) /\ fig' = [fig EXCEPT !.artists = get_artists(p, objects)]
        /\ Then("modify_axes") /\ UNCHANGED <<p, objects, lims, rc>>

\* The subplot takes over the range of the plot in x.
ModifyAxes ==
  /\ At("modify_axes")
  /\ \/ axes_fail(p, objects) /\ Raise("modify_axes")
     \/ /\ ~axes_fail(p, objects)
        /\ LET dim == dimension(p, objects)
           IN fig' = [fig EXCEPT !.x = IF dim = 3 THEN Nothing ELSE x_limits(p, objects),
                                 !.y = IF dim = 3 THEN Nothing ELSE y_limits(p, objects, lims.y),
                                 !.y_sub = IF p.subplot_nicks # <<>> /\ p.y_subplot_lims # None THEN p.y_subplot_lims ELSE @,
                                 !.lines = [i \in DOMAIN p.lines |-> <<p.lines[i], line_styles(p)[i]>>],
                                 !.colorbar = IF dim # 2 THEN None ELSE IF p.subplot_nicks # <<>> THEN 3 ELSE 1]
        /\ Then("add_labels") /\ UNCHANGED <<p, objects, lims, rc>>

AddLabels ==
  /\ At("add_labels")
  /\ rc' = [rc EXCEPT !.frameon = @ \/ NeedsWorkaround]
  /\ fig' = [fig EXCEPT !.legend = legend_of(on_axis(fig.artists, 1), p, p.legend),
                        !.sub_legend = IF Len(fig.axes) > 1 THEN legend_of(on_axis(fig.artists, 2), p, p.subplot_legend) ELSE <<>>,
                        !.frame = rc'.frameon /\ ~NeedsWorkaround]
  /\ Then("add_texts") /\ UNCHANGED <<p, objects, lims>>

\* There is no title on a plot with three dimensions.
AddTexts ==
  /\ At("add_texts")
  /\ fig' = [fig EXCEPT !.texts = p.texts \o IF dimension(p, objects) = 3 THEN <<>> ELSE base_dataset_title(p)]
  /\ Then("add_ons") /\ UNCHANGED <<p, objects, lims, rc>>

\* The add-ons in the order in which they are asked for.
Ran == Len(fig.added)
AddOn(name) == At("add_ons") /\ Ran < Len(p.add_ons) /\ p.add_ons[Ran + 1] = name
Done(result) ==
  /\ fig' = [fig EXCEPT !.added = Append(@, result)]
  /\ UNCHANGED <<asked, stage, p, objects, lims, made, rc>>
Mean == AddOn("mean") /\ Done([means |-> means(p, objects)])
Rectangle == AddOn("rectangle") /\ Done([rectangles |-> rectangles(p)])
LegendTable ==
  /\ AddOn("table")
  /\ \/ TableFails(p, fig.artists) /\ Raise("table")
     \/ ~TableFails(p, fig.artists) /\ Done([table |-> table(p, fig.artists)])

\* The legend is saved in a file of its own.
Save ==
  /\ At("add_ons") /\ Ran = Len(p.add_ons)
  /\ made' = Append(made, [figure |-> fig, size |-> rc.figsize,
                           saved |-> IF p.save_legend THEN get_legend_handles_labels_ordered(on_axis(fig.artists, 1), p.labels) ELSE <<>>])
  /\ stage' = "prepare_args" /\ fig' = EmptyFigure
  /\ p' = None /\ objects' = None /\ lims' = None
  /\ UNCHANGED <<asked, rc>>

Next == \/ PrepareArgs \/ SetStyle \/ CreateCanvas \/ PrepareHistograms \/ MakePlots \/ ModifyAxes
        \/ AddLabels \/ AddTexts \/ Mean \/ Rectangle \/ LegendTable \/ Save
Spec == Init /\ [][Next]_vars

-----------------------------------------------------------------------------
(* What the plots promise to those who asked for them, stated from the     *)
(* options and objects as given.                                           *)
Ended(i) == i \in DOMAIN made /\ "figure" \in DOMAIN made[i]
Figure(i) == made[i].figure
Given(i) == asked[i].options
Kind(i, n) == asked[i].objects[n].kind
Found(n, regexps) == \E k \in DOMAIN regexps : n \in regexps[k]
Kept(q) == {n \in ToSet(q.nicks) : (q.nicks_whitelist = <<>> \/ Found(n, q.nicks_whitelist)) /\ ~Found(n, q.nicks_blacklist)}

\* Every object that is selected is drawn, on the axis of the subplot if and only if
\* one of the expressions for the subplot finds it, and that axis exists
\* (plotbase.py: select_histograms, plotmpl.py: make_plots).
DrawnAsAsked ==
  \A i \in DOMAIN made : Ended(i) =>
    LET artists == Figure(i).artists
    IN /\ {artists[k].nick : k \in DOMAIN artists} = Kept(Given(i))
       /\ \A k \in DOMAIN artists : /\ artists[k].axis = 2 <=> Found(artists[k].nick, Given(i).subplot_nicks)
                                    /\ artists[k].axis \in DOMAIN Figure(i).axes
       /\ Figure(i).colorbar # None => Figure(i).colorbar \in DOMAIN Figure(i).axes

\* The outline of a one-dimensional histogram goes through its contents bin by bin:
\* over every bin, between its edges, it has the content (plotmpl.py: steppify_bin).
OutlineFollowsBins ==
  \A i \in DOMAIN made : Ended(i) =>
    \A k \in DOMAIN Figure(i).artists :
      LET a == Figure(i).artists[k]
          n == nbins(asked[i].objects[a.nick])
      IN a.outline # <<>> =>
           /\ Len(a.outline[1]) = 2 * n /\ Len(a.outline[2]) = 2 * n
           /\ \A b \in 1 .. n : /\ Less(a.outline[1][2 * b - 1], a.outline[1][2 * b])
                                /\ b < n => a.outline[1][2 * b] = a.outline[1][2 * b + 1]
                                /\ a.outline[2][2 * b - 1] = a.outline[2][2 * b]

\* Limits that the program chooses hold the histograms: all bins of all objects in x,
\* and for histograms alone that are not below zero, their values in y with room above
\* (plotmpl.py: modify_axes).
LimitsHoldHistograms ==
  \A i \in DOMAIN made : Ended(i) /\ Figure(i).x # Nothing =>
    LET f == Figure(i)
        main == {a.nick : a \in {b \in ToSet(f.artists) : b.axis = 1}}
    IN /\ Given(i).x_lims = None =>
            \A a \in ToSet(f.artists) : Kind(i, a.nick) # "TF1" =>
               ~Less(asked[i].objects[a.nick].x[1], f.x[1]) /\ ~Less(f.x[2], asked[i].objects[a.nick].x[2])
       /\ Given(i).y_lims = None /\ Given(i).y_rel_lims = None /\ (\A n \in main : Kind(i, n) = "TH1") =>
            \A n \in main : \A b \in InBins(asked[i].objects[n]) :
               Less(Zero, asked[i].objects[n].v[b]) => Less(asked[i].objects[n].v[b], f.y[2])

\* The legend names the labelled objects of its axis once each, in the order of the
\* labels, and the legend in a file of its own is the same one
\* (plotmpl.py: get_legend_handles_labels_ordered).
LegendInOrder ==
  \A i \in DOMAIN made : Ended(i) /\ Figure(i).legend # <<>> =>
    LET legend == Figure(i).legend
        main == {k \in DOMAIN Figure(i).artists : Figure(i).artists[k].axis = 1 /\ Figure(i).artists[k].handles > 0}
        labels == IF Given(i).labels = <<None>> THEN Given(i).nicks ELSE Given(i).labels
        first(l) == Min({j \in DOMAIN labels : labels[j] = l})
    IN /\ ToSet(legend) = {Figure(i).artists[k].label : k \in main}
       /\ \A k, l \in DOMAIN legend : k < l => first(legend[k]) < first(legend[l])
       /\ Given(i).save_legend => made[i].saved = legend

\* In the table of the legend each cell shows the label asked for: labels count down the
\* columns, or along the rows if inverted (plotmpllegendtable.py: run).
TableAsAsked ==
  \A i \in DOMAIN made : Ended(i) =>
    \A k \in DOMAIN Figure(i).added : "table" \in DOMAIN Figure(i).added[k] =>
      LET t == Figure(i).added[k].table
          q == Given(i)
          rows == Len(q.table_rows)
          columns == Len(q.table_columns)
      IN IsInjective(q.labels) /\ Len(q.labels) = rows * columns =>
           \A cell \in DOMAIN t :
             t[cell] = q.labels[IF q.table_invert THEN (cell[1] - 1) * columns + cell[2] ELSE (cell[2] - 1) * rows + cell[1]]

\* A plot does not depend on the plots that the process has made before, the frame of
\* its legend set aside (plotmpl.py: set_style).
PlotsAreIndependent ==
  \A i, j \in DOMAIN made : asked[i] = asked[j] =>
    /\ Ended(i) <=> Ended(j)
    /\ Ended(i) => /\ made[i].size = made[j].size
                   /\ [Figure(i) EXCEPT !.frame = FALSE] = [Figure(j) EXCEPT !.frame = FALSE]
    /\ ~Ended(i) => made[i] = made[j]
=============================================================================
