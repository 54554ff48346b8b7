------------------------------ MODULE MCPlots ------------------------------
(***************************************************************************)
(* Sessions of one process with two or three plots, with ROOT or with      *)
(* Matplotlib, each changing some of the default options of the parsers,   *)
(* for the objects of four nicks.                                          *)
(***************************************************************************)
EXTENDS PlotBase, PlotModules

F(i) == Int2F(i)
H(kind, flows, values, errors) ==
  [kind |-> kind, x |-> <<F(0), F(Len(values))>>, y |-> <<F(0), F(2)>>,
   v |-> [b \in 0 .. Len(values) + 1 |-> IF b \in DOMAIN values THEN F(values[b]) ELSE F(flows)],
   e |-> [b \in 0 .. Len(values) + 1 |-> IF b \in DOMAIN errors THEN errors[b] ELSE 0]]
Points(kind, values, errors) == [kind |-> kind, x |-> <<F(-1), F(1)>>, v |-> [b \in DOMAIN values |-> F(values[b])], e |-> errors]

Data == H("TH1", 7, <<4, 2>>, <<3, 0>>)
Wide == H("TH1", 7, <<4, 2, 3>>, <<0, 0, 0>>)
Loose == H("TH1", 7, <<2, 9>>, <<3, 1>>)
Signal == H("TH1", 7, <<0, 5>>, <<4, 1>>)
Deep == H("TH1", 0, <<-3, -8>>, <<0, 0>>)
Rising == H("TH1", 7, <<-3, 8>>, <<0, 0>>)
Empty == H("TH1", 0, <<0, 0>>, <<0, 0>>)
Profile == H("TProfile", 1, <<2, 2>>, <<0, 0>>)
Plane == H("TH2", 1, <<1, 3>>, <<0, 0>>)
Curve == Points("TGraph", <<2, -1>>, <<1, 1>>)
Line == Points("TF1", <<1, 2>>, <<0, 0>>)
Objs(a, b, r, n) == "a" :> a @@ "b" :> b @@ "ratio" :> r @@ "noplot" :> n

Fixed == [nicks |-> <<"a", "b", "ratio", "noplot">>, subplots |-> <<>>,
          x_expressions |-> {"pt"}, y_expressions |-> {None}, z_expressions |-> {None}]
Asked(changes, defaults, objs) == [options |-> changes @@ Fixed @@ defaults, objects |-> objs]
\* Every two plots in turn, and every plot between two usual ones.
Sessions(plots, usual) == {<<q, r>> : q \in plots, r \in plots} \cup {<<usual, r, usual>> : r \in plots}

-----------------------------------------------------------------------------
RootDefaults == INSTANCE PlotRoot WITH Session <- {}, p <- options
RootOf(changes, objs) == Asked(changes, RootDefaults!PlotRootOptions, objs)
RootPlot(changes) == RootOf(changes, Objs(Data, Signal, Curve, Deep))
Periods(l) == [lumis |-> l, energies |-> <<8, 13>>, year |-> "2012"]
RootPlots == {
  RootPlot(<<>>),
  RootPlot([legend |-> <<>>, texts_below_legend |-> <<"text">>, labels |-> <<"A", "", "R">>]),
  RootPlot([legend |-> <<1, 2, 3, 4, 5>>, subplot_legend |-> <<1, 1, 2, 2>>, subplot_nicks |-> <<{"ratio"}, {"b"}>>]),
  RootPlot([nicks_whitelist |-> <<{"b"}, {"a", "b"}>>, legend |-> <<>>, subplot_legend |-> <<1, 1, 2, 2>>]),
  RootPlot([nicks_blacklist |-> <<{"a", "b", "ratio", "noplot"}>>]),
  RootPlot([nicks_blacklist |-> <<>>, subplot_nicks |-> <<{}>>, stacks |-> <<"s", None, None, "s">>, cms |-> TRUE]),
  RootPlot([stacks |-> <<"s", "s", None>>, markers |-> <<"HIST">>, colors |-> <<<<"kRed">>, <<"kRed", "#00ff00">>, None>>]),
  RootPlot([stacks |-> <<"s", "t", "s">>]),
  RootPlot([stacks |-> <<"s">>, subplot_nicks |-> <<{}>>, nicks_whitelist |-> <<{"a", "b"}>>]),
  RootOf([stacks |-> <<"s", "t">>, subplot_nicks |-> <<{}>>, legend |-> <<>>, labels |-> <<"A", None>>, texts_below_legend |-> <<"", "text", "more">>],
         Objs(Data, Wide, Signal, Data)),
  RootOf([stacks |-> <<"s", None>>, subplot_nicks |-> <<{}>>, legend |-> <<>>, labels |-> <<"A", "B", "R">>], Objs(Data, Signal, Profile, Data)),
  RootOf([stacks |-> <<"s", "s">>, nicks_whitelist |-> <<{"b"}>>], Objs(Data, Deep, Data, Data)),
  RootOf([cms |-> TRUE, nicks_whitelist |-> <<{"a"}>>], Objs(Deep, Data, Data, Data)),
  RootOf([cms |-> TRUE, nicks_whitelist |-> <<{"a", "b"}>>], Objs(Deep, Signal, Data, Data)),
  RootOf([y_log |-> TRUE, nicks_whitelist |-> <<{"a"}>>], Objs(Loose, Data, Data, Data)),
  RootPlot([colors |-> <<<<"bad">>>>]),
  RootPlot([sym_y_lims |-> TRUE, y_lims |-> <<F(1)>>, sym_y_subplot_lims |-> TRUE, grid |-> TRUE, subplot_grid |-> TRUE]),
  RootPlot([x_lims |-> <<F(0), F(1)>>, sym_x_lims |-> TRUE, y_lims |-> <<F(0), F(9)>>, y_rel_lims |-> <<<<1, 2>>, <<3, 2>>>>]),
  RootPlot([x_lims |-> <<F(1)>>, sym_x_lims |-> TRUE, subplot_nicks |-> <<{}>>, y_subplot_lims |-> <<F(0)>>]),
  RootPlot([y_log |-> TRUE, subplot_nicks |-> <<{}>>]),
  RootPlot([x_log |-> TRUE]),
  RootPlot([nicks_whitelist |-> <<{"ratio"}, {"a", "b"}>>]),
  RootPlot([subplot_nicks |-> <<>>]),
  RootPlot([y_subplot_log |-> TRUE]),
  RootPlot([subplot_nicks |-> <<{"a", "b", "ratio"}>>]),
  RootPlot([subplot_nicks |-> <<{"a", "b", "ratio"}>>, y_lims |-> <<F(0), F(1)>>]),
  RootOf([y_log |-> TRUE], Objs(Empty, Empty, Data, Data)),
  RootOf([nicks_blacklist |-> <<>>, fill_styles |-> <<1>>, line_widths |-> <<1, 2>>], Objs(Deep, Line, Empty, Curve)),
  RootOf([stacks |-> <<"s", "s", "s">>, subplot_nicks |-> <<{}>>], Objs(Profile, Signal, Profile, Data)),
  RootOf([y_expressions |-> {"eta"}, colormap |-> <<TRUE>>, colors |-> <<<<"kRed", "kBlue", "9">>>>, nicks_whitelist |-> <<{"a"}>>,
          set_paint_text_format |-> "4.1f"], Objs(Plane, Data, Data, Data)),
  RootOf([y_expressions |-> {"eta"}, z_log |-> TRUE, z_lims |-> <<F(1)>>, z_tick_labels |-> <<"l">>, nicks_whitelist |-> <<{"a"}>>,
          no_fit_results_box |-> TRUE, x_lims |-> <<F(1), F(1)>>], Objs(Plane, Data, Data, Data)),
  RootOf([sym_z_lims |-> TRUE, nicks_whitelist |-> <<{"a"}>>], Objs(Plane, Data, Data, Data)),
  RootPlot([z_tick_labels |-> <<"l">>]),
  RootPlot(Periods(<<197>>) @@ [extra_text |-> "Preliminary", cms_outframe |-> TRUE, title |-> "own work"]),
  RootPlot(Periods(<<197, 200>>) @@ [cms |-> TRUE, nicks_whitelist |-> <<{"a"}>>]),
  RootPlot([lumis |-> <<0>>, energies |-> <<8>>, extra_text |-> "Simulation"]),
  RootPlot([energies |-> <<8, 13>>]),
  RootPlot([lumis |-> <<0>>, energies |-> <<0>>, texts |-> <<"t">>]),
  RootOf(<<>>, Objs(Plane, Plane, Plane, Data))}
MCRootSession == Sessions(RootPlots, RootPlot(<<>>))
MCColours == {"kRed", "kBlue", "#00ff00", "9"}

-----------------------------------------------------------------------------
MplDefaults == INSTANCE PlotMpl WITH Session <- {}, p <- options
MplOf(changes, objs) == Asked(changes, MplDefaults!PlotMplOptions, objs)
MplPlot(changes) == MplOf(changes, Objs(Data, Signal, Curve, Rising))
Uneven == Objs(Wide, Signal, Curve, Rising)
All == [nicks_blacklist |-> <<>>, subplot_nicks |-> <<{}>>]
Table(rows, columns, invert) == [add_ons |-> <<"table">>, table_rows |-> rows, table_columns |-> columns, table_invert |-> invert]
MplPlots == {
  MplPlot(<<>>), MplOf(<<>>, Uneven),
  MplPlot([labels |-> <<"B", "A", "R">>, save_legend |-> TRUE, markers |-> <<"fill", "bar", ".">>]),
  MplPlot([labels |-> <<"A", "", "R">>, subplot_legend |-> "lower left", subplot_nicks |-> <<{"ratio"}, {"b"}>>]),
  MplPlot([labels |-> <<"A", "A", "A">>, save_legend |-> TRUE]),
  MplPlot([legend |-> None, nicks_whitelist |-> <<{"b"}, {"a", "b"}>>]),
  MplPlot([nicks_blacklist |-> <<{"a", "b", "ratio", "noplot"}>>]),
  MplPlot(All @@ [markers |-> <<"fill">>]),
  MplPlot(All @@ [markers |-> <<"fill", ".", "errorband", "fill">>, y_errors |-> <<TRUE>>, labels |-> <<"4", "3", "2", "1">>]),
  MplPlot(All @@ [markers |-> <<".">>, line_styles |-> <<"-">>, step |-> <<TRUE>>]),
  MplPlot([nicks_whitelist |-> <<{"a", "b"}>>, subplot_nicks |-> <<{}>>, markers |-> <<"fill">>]),
  MplPlot([nicks_whitelist |-> <<{"a", "b"}>>, subplot_nicks |-> <<{}>>, y_log |-> TRUE, stacks |-> <<"s", "s">>]),
  MplPlot([stacks |-> <<"s", "s", "t", "t">>]),
  MplPlot([stacks |-> <<"s", "t", "s">>]),
  MplPlot([subplot_nicks |-> <<{"a", "b", "ratio"}>>]),
  MplPlot([subplot_nicks |-> <<{"a", "b", "ratio"}>>, y_lims |-> <<F(0), F(9)>>, y_subplot_lims |-> <<F(0), F(2)>>]),
  MplPlot([colors |-> <<"red">>, zorder |-> <<3, 2, 1>>, x_lims |-> <<F(0), F(1)>>]),
  MplPlot([aspect_ratio |-> 2]),
  MplPlot([figsize |-> <<5>>]),
  MplPlot([figsize |-> <<9, 4>>, formats |-> {"pdf"}, lines |-> <<2, 3, 4, 5, 6>>]),
  MplOf([y_expressions |-> {"eta"}, nicks_whitelist |-> <<{"a"}>>, lumis |-> <<197>>, energies |-> <<8>>], Objs(Plane, Data, Data, Data)),
  MplOf([y_expressions |-> {"eta"}, nicks_whitelist |-> <<{"a", "ratio"}>>], Objs(Plane, Data, Curve, Data)),
  MplOf([three_d |-> TRUE, subplot_nicks |-> <<{}>>, nicks_whitelist |-> <<{"a"}>>, energies |-> <<8>>], Objs(Plane, Data, Curve, Data)),
  MplOf([three_d |-> TRUE, nicks_whitelist |-> <<{"a", "ratio"}>>], Objs(Plane, Data, Curve, Data)),
  MplOf([nicks_whitelist |-> <<{"a"}>>, y_errors |-> <<TRUE>>], Objs(Line, Data, Data, Data)),
  MplOf([nicks_blacklist |-> <<>>, y_errors |-> <<TRUE>>, fit_results |-> {"a"}], Objs(Line, Profile, Data, Line)),
  MplOf(All @@ [y_log |-> TRUE], Objs(Curve, Profile, Curve, Curve)),
  MplPlot([add_ons |-> <<"mean", "rectangle">>, rectangle_x |-> <<0, 1, 2, 3>>, rectangle_y |-> <<0, 1>>]),
  MplOf([add_ons |-> <<"rectangle", "mean">>, mean_nicks |-> <<"noplot", "a">>, rectangle_alpha |-> <<1, 2>>], Objs(Data, Data, Data, Line)),
  MplPlot([add_ons |-> <<"rectangle">>, rectangle_x |-> <<0>>]),
  MplPlot(All @@ [labels |-> <<"1", "2", "3", "4">>] @@ Table(<<"r", "s">>, <<"c", "d">>, FALSE)),
  MplPlot(All @@ [labels |-> <<"1", "2", "3", "4">>] @@ Table(<<"r", "s">>, <<"c", "d">>, TRUE)),
  MplPlot(All @@ [labels |-> <<"1", "2", "3", "4">>] @@ Table(<<"r">>, <<"c", "d">>, TRUE)),
  MplPlot(All @@ [labels |-> <<"1", "2", "3", "1">>] @@ Table(<<"r", "s">>, <<"c", "d">>, FALSE))}
MCMplSession == Sessions(MplPlots, MplPlot(<<>>))

=============================================================================
