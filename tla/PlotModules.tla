---------------------------- MODULE PlotModules ----------------------------
(***************************************************************************)
(* The two modules of HarryPlotter that draw, one of which the list of     *)
(* processors of a call names (harrycore.py), with what they promise to    *)
(* those who ask for plots.                                                *)
(***************************************************************************)
CONSTANTS NotGiven,                  \* option that is not given
          RootSession, MplSession,   \* the sequences of plots asked of a process
          Colours,                   \* names of colours that ROOT can resolve
          Version, AreasInLegend     \* of Matplotlib

VARIABLES plotter,                   \* the plot module of this process
          asked, stage, options, objects, lims, fig, made, style, cms, rc
plotterVars == <<plotter, asked, stage, options, objects, lims, fig, made, style, cms, rc>>

Root == INSTANCE PlotRoot WITH None <- NotGiven, Session <- RootSession, p <- options
Mpl == INSTANCE PlotMpl WITH None <- NotGiven, Session <- MplSession, p <- options

Init == \/ plotter = "PlotRoot" /\ Root!Init /\ rc = NotGiven
        \/ plotter = "PlotMpl" /\ Mpl!Init /\ style = NotGiven /\ cms = NotGiven
Next == \/ plotter = "PlotRoot" /\ Root!Next /\ UNCHANGED <<plotter, rc>>
        \/ plotter = "PlotMpl" /\ Mpl!Next /\ UNCHANGED <<plotter, style, cms>>
Spec == Init /\ [][Next]_plotterVars

-----------------------------------------------------------------------------
OfRoot(property) == plotter = "PlotRoot" => property
OfMpl(property) == plotter = "PlotMpl" => property

\* Every object that the white- and blacklists select is drawn, on the pad that the
\* expressions for the subplot say, ROOT draws it once, and Matplotlib's outlines go
\* through its contents bin by bin; what is drawn for an object of a stack is the sum of
\* it and of the later ones of its stack, once each, for up to as many stacks as objects
\* (plotbase.py: select_histograms, prepare_histograms, plotroot.py and plotmpl.py:
\* make_plots).
DrawnAsAsked == OfRoot(Root!DrawnAsAsked /\ Root!StackedOnce) /\ OfMpl(Mpl!DrawnAsAsked /\ Mpl!OutlineFollowsBins)

\* Limits that the program chooses hold what is drawn, for ROOT with its errors; where the
\* code does not see to it, PlotRoot says so (plotroot.py: determine_plot_lims,
\* plotmpl.py: modify_axes).
LimitsHoldData == OfRoot(Root!FrameHoldsData) /\ OfMpl(Mpl!LimitsHoldHistograms)

\* The legend names the labelled objects of the plot, once each and in order, for ROOT each with
\* its own label and the extra texts below, and a table in its place shows in each cell the
\* label asked for (plotroot.py: add_labels, plotmpl.py:
\* get_legend_handles_labels_ordered, plotmpllegendtable.py: run).
LegendAsAsked == OfRoot(Root!LegendAsAsked) /\ OfMpl(Mpl!LegendInOrder /\ Mpl!TableAsAsked)

\* A plot does not depend on the plots that the process has made before (plotroot.py and
\* plotmpl.py: set_style, whose settings are global).
PlotsAreIndependent == OfRoot(Root!PlotsAreIndependent) /\ OfMpl(Mpl!PlotsAreIndependent)

\* "Make a CMS publication plot (CMS inside frame)." (plotroot.py:157)
CmsIsWritten == OfRoot(Root!CmsIsWritten)
=============================================================================
