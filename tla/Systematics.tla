------------------------------ MODULE Systematics ------------------------------
(***************************************************************************)
(* The production of the shapes of an analysis with HenryPlotter.          *)
(*                                                                         *)
(* First the channels, eras, systematic variations and estimation methods: *)
(* what histograms a process needs in a category for a variation, and how  *)
(* its shape is made from them (python/channel.py, era.py, categories.py,  *)
(* systematic_variations.py, estimation_methods.py and                     *)
(* estimation_methods_2017.py).  Estimation methods, categories and        *)
(* histograms are shared by reference, so they live on heaps.  A world is  *)
(* the record of these heaps, of the references of the holder              *)
(* (Root_objects) and of the exception, if any.  A cut or weight is its    *)
(* name; "ss" is the inverted cut "os".  The result of a histogram says    *)
(* how often it has the events of each selection.                          *)
(*                                                                         *)
(* A histogram gets the cuts of its category as the objects they are, and  *)
(* shows what becomes of them; no list of cuts changes after the category  *)
(* is made.  What is done to the 2017 methods is modelled up to where each *)
(* production with them ends, in Root_objects.add.                         *)
(*                                                                         *)
(* Then the production (python/systematics.py, process.py, histogram.py):  *)
(* systematics are booked, copied for systematic variations, their         *)
(* histograms made, drawn all at once, in the objects or in copies by a    *)
(* pool, and their shapes estimated one after the other.  An exception     *)
(* ends the script.                                                        *)
(***************************************************************************)
EXTENDS Integers, Sequences, FiniteSets, SequencesExt

CONSTANT Version   \* "2016" for estimation_methods.py, "2017" for estimation_methods_2017.py

NoObject == 0          \* no object: references start with 1

\* MT.get_cuts and ET.get_cuts.
CutsMT == {"extraelec_veto", "extramuon_veto", "againstMuonTight", "dilepton_veto", "againstElectronVeto",
           "tau_iso", "muon_iso", "os", "trg_singlemuon"}
CutsET == {"extraelec_veto", "againstMuonTight", "dilepton_veto", "againstElectronVeto",
           "tau_iso", "ele_iso", "os", "trg_singleelectron"}
ChannelCuts == [mt |-> CutsMT, et |-> CutsET]

\* The data sets of an era: one query for each of the channels there are.
DataFiles16 == [mt |-> {"SingleMuon_2016BCDEFGH"}, et |-> {"SingleElectron_2016BCDEFGH"}]
DataFiles17 == [mt |-> {"SingleMuon_2017BCD"}, et |-> {"SingleElectron_2017BCD"}]
data_files == IF Version = "2016" THEN DataFiles16 ELSE DataFiles17

\* The simulated processes: the names of their cuts and weights, their queries.
Method(cuts, weights, queries) == [cuts |-> cuts, weights |-> weights, queries |-> queries]
Corrected == {"hadronic_tau_sf", "eventWeight"}
Scaled == Corrected \cup {"lumi"}
ZWeights16 == Scaled \cup {"zPtReweightWeight", "z_stitching_weight"}
Methods16 ==
  [ZTT |-> Method({"ztt_genmatch_mt"}, ZWeights16, {"DYJets_and_1234Jets"}),
   Zll |-> Method({"zll_genmatch_mt"}, ZWeights16, {"DYJets_and_1234Jets"}),
   WJ  |-> Method({}, Scaled \cup {"wj_stitching_weight"}, {"W.*JetsToLNu"}),
   TT  |-> Method({}, Scaled \cup {"topPtReweightWeight"}, {"TT"}),
   VV  |-> Method({}, Corrected, {"VV", "ZZTo4L", "WZJToLLLNu", "SingleTop"})]
ZWeights17 == Scaled \cup {"zPtReweightWeight"}
Methods17 ==
  [ZTT |-> Method({"ztt_genmatch_mt"}, ZWeights17, {"DYJets_v1"}),
   Zll |-> Method({"zll_genmatch_mt"}, ZWeights17, {"DYJets_v1"}),
   WJ  |-> Method({}, Scaled, {"WJetsToLNu"}),
   TT  |-> Method({}, Scaled \cup {"topPtReweightWeight"}, {"TT"}),
   VV  |-> Method({}, Corrected, {"VV", "ZZTo4L", "WZJToLLLNu", "SingleTop"})]
Simulated == IF Version = "2016" THEN Methods16 ELSE Methods17

get_cuts(name) == IF name = "data_obs" THEN {} ELSE Simulated[name].cuts
get_weights(name) == IF name = "data_obs" THEN {"constant"} ELSE Simulated[name].weights
get_files(name, channel) == IF name = "data_obs" THEN data_files[channel] ELSE Simulated[name].queries

-----------------------------------------------------------------------------
\* Systematic variations.
Nominal == [kind |-> "nominal", name |-> "Nominal", of |-> "", direction |-> ""]
Variation(kind, name, of, direction) == [kind |-> kind, name |-> name, of |-> of, direction |-> direction]
Different_pipeline(name, pipeline, direction) == Variation("pipeline", name, pipeline, direction)
Reapply_remove_weight(name, weight, direction) == Variation("weight", name, weight, direction)
create_syst_variations(name, kind) == <<Variation(kind, name, name \o "Down", "Down"), Variation(kind, name, name \o "Up", "Up")>>
NameOfVariation(v) == <<v.name, v.direction>>

\* shifted_root_objects: another folder, or a weight squared or removed; the weight is
\* looked up by the name of the variation.
ShiftedFolder(v, folder) == IF v.kind = "pipeline" THEN v.of ELSE folder
Power(names) == [n \in names |-> 1]
ShiftedWeights(v, powers) ==
  CASE v.kind = "weight" /\ v.direction = "Up" -> [powers EXCEPT ![v.name] = 2 * @]
    [] v.kind = "weight" /\ v.direction = "Down" -> [n \in DOMAIN powers \ {v.name} |-> powers[n]]
    [] OTHER -> powers
WeightMissing(v, names) == v.kind = "weight" /\ v.direction \in {"Up", "Down"} /\ v.name \notin names

-----------------------------------------------------------------------------
\* Systematic.get_name, of a systematic that is not on a heap itself.
NameOf(w, s) == <<s.process, w.categories[s.category].channel, w.categories[s.category].name,
                  w.categories[s.category].variable, NameOfVariation(s.syst_var)>>
Systematic(process, method, category, syst_var) ==
  [process |-> process, method |-> method, category |-> category, syst_var |-> syst_var, shape |-> NoObject]

\* Estimation_method.define_root_objects, apply_systematic_variations and the calls of
\* the functions in the settings: one histogram, or an exception.  The files of the
\* data are those for the channel of the method, the folder is that of the category.
HistogramFor(w, s, name) ==
  [name |-> NameOf(w, s), inputfiles |-> get_files(name, w.methods[s.method].channel),
   folder |-> <<w.categories[s.category].channel, ShiftedFolder(s.syst_var, "nominal")>>,
   category |-> s.category, cuts |-> get_cuts(name), weights |-> ShiftedWeights(s.syst_var, Power(get_weights(name))),
   variable |-> w.categories[s.category].variable, result |-> <<>>]
SettingsError(w, s, name) ==
  IF w.categories[s.category].cuts \cap get_cuts(name) # {} THEN "LookupError"
  ELSE IF WeightMissing(s.syst_var, get_weights(name)) THEN "KeyError" ELSE "none"

WithObject(w, s, o) == [w EXCEPT !.objects = Append(@, o), !.methods[s.method].root_objects = <<Len(w.objects) + 1>>]
CreateOne(w, s, name) ==
  IF w.error # "none" THEN w
  ELSE IF SettingsError(w, s, name) # "none" THEN [w EXCEPT !.error = SettingsError(w, s, name)]
  ELSE WithObject(w, s, HistogramFor(w, s, name))

\* QCD_estimation.create_root_objects works in a copy of the category, with the cut "os"
\* inverted and a name of its own, for the data and each background process.
SameSign(c) == [c EXCEPT !.cuts = (@ \ {"os"}) \cup {"ss"}, !.name = IF Version = "2016" THEN "ss" ELSE @ \o "_ss"]
SameSignCategory(w, ref) == [world |-> [w EXCEPT !.categories = Append(@, SameSign(w.categories[ref]))], ref |-> Len(w.categories) + 1]
Parts(w, s, ref) == [i \in DOMAIN w.methods[s.method].processes |->
  Systematic(w.methods[s.method].processes[i].name, w.methods[s.method].processes[i].method, ref, s.syst_var)]
CreateParts(w, parts) == FoldLeft(LAMBDA acc, p : CreateOne(acc, p, acc.methods[p.method].name), w, parts)
Collected(w, s, parts) == [w EXCEPT !.methods[s.method].systematics = parts,
                                    !.methods[s.method].root_objects = FlattenSeq([i \in DOMAIN parts |-> w.methods[parts[i].method].root_objects])]
CreateQCD(c, s) == Collected(CreateParts(c.world, Parts(c.world, s, c.ref)), s, Parts(c.world, s, c.ref))

create_root_objects(w, s) ==
  IF w.error # "none" THEN w
  ELSE IF w.methods[s.method].name # "QCD" THEN CreateOne(w, s, w.methods[s.method].name)
  ELSE IF "os" \notin w.categories[s.category].cuts THEN [w EXCEPT !.error = "KeyError"]
  ELSE CreateQCD(SameSignCategory(w, s.category), s)

\* Root_objects.add of what get_root_objects returns: a list in 2016, a set in 2017,
\* which is taken for a single object and has no name.
HolderNames(w) == {w.objects[r].name : r \in Range(w.holder)}
AddList(w, refs) == IF \E i \in DOMAIN refs : w.objects[refs[i]].name \in HolderNames(w)
                    THEN [w EXCEPT !.error = "KeyError"] ELSE [w EXCEPT !.holder = @ \o refs]
AddToHolder(w, s) == IF w.error # "none" THEN w
                     ELSE IF Version = "2017" THEN [w EXCEPT !.error = "AttributeError"]
                     ELSE AddList(w, w.methods[s.method].root_objects)

-----------------------------------------------------------------------------
\* Histogram.create_result: the cuts of the category are evaluated now.
Selection(w, o) == [files |-> o.inputfiles, folder |-> o.folder, cuts |-> w.categories[o.category].cuts \cup o.cuts,
                    weights |-> o.weights, variable |-> o.variable]
Drawn(w, o) == [o EXCEPT !.result = [x \in {Selection(w, o)} |-> 1]]
\* TH1.Add with a factor.
At(result, x) == IF x \in DOMAIN result THEN result[x] ELSE 0
Add(a, b, factor) == [x \in DOMAIN a \cup DOMAIN b |-> At(a, x) + factor * At(b, x)]

\* Root_objects.get and Estimation_method.set_root_objects: the objects of the holder
\* with the names of those that were made; a pool has put copies there.
get(w, name) == IF name \in HolderNames(w) THEN w.holder[CHOOSE i \in DOMAIN w.holder : w.objects[w.holder[i]].name = name] ELSE NoObject
set_root_objects(w, m) == [w EXCEPT !.methods[m].root_objects = [i \in DOMAIN @ |-> get(w, w.objects[@[i]].name)]]

ShapeOf(w, m) == w.methods[m].root_objects[1]
\* QCD_estimation.do_estimation: the shape of the data minus those of the backgrounds,
\* in the histogram of the data, which gets the name of the systematic.
PartsSet(w, parts) == FoldLeft(LAMBDA acc, p : set_root_objects(acc, p.method), w, parts)
\* Mutant: the backgrounds are added.
Summed(data, result) == Add(data, result, 1)
Subtracted(data, result) == Add(data, result, -1)
Backgrounds(parts) == SubSeq(parts, 2, Len(parts))
DataDriven(w, parts) == FoldLeft(LAMBDA acc, p : Subtracted(acc, w.objects[ShapeOf(w, p.method)].result),
                                 w.objects[ShapeOf(w, parts[1].method)].result, Backgrounds(parts))
Estimated(w, s, parts, shape) == [w EXCEPT !.objects[shape].result = DataDriven(w, parts), !.objects[shape].name = NameOf(w, s)]
EstimateQCD(w, s, parts) == Estimated(w, s, parts, ShapeOf(w, parts[1].method))

do_estimation(w, s) ==
  IF w.methods[s.method].name # "QCD" THEN set_root_objects(w, s.method)
  ELSE EstimateQCD(PartsSet(set_root_objects(w, s.method), w.methods[s.method].systematics), s, w.methods[s.method].systematics)
shape_of(w, s) == IF w.methods[s.method].name # "QCD" THEN ShapeOf(w, s.method) ELSE ShapeOf(w, w.methods[s.method].systematics[1].method)

-----------------------------------------------------------------------------
CONSTANTS
  CategoryLists,   \* the categories of an analysis: sequences of [channel, name, cuts, variable, removed]
  ProcessNames,    \* the estimation methods that are booked
  Variations,      \* the lists given to add_syst_var
  Keywords,        \* its keywords in the order they are looked at: sequences of [key, names]
  BgProcesses,     \* the processes that QCD_estimation subtracts
  ShareProcesses,  \* may a Process be used for more than one systematic?
  MaxSystematics,  \* bound on len(systematics)
  Modes            \* the numbers of processes to draw with, 0 for "tdf"

VARIABLES
  methods, objects, categories, holder,  \* the world
  systematics,
  estimated,   \* how many of them have their shape
  phase,       \* "booking", "estimating" or "ended"
  error

vars == <<methods, objects, categories, holder, systematics, estimated, phase, error>>
World == [methods |-> methods, objects |-> objects, categories |-> categories, holder |-> holder, error |-> error]
WorldIs(w) == /\ methods' = w.methods /\ objects' = w.objects /\ categories' = w.categories
              /\ holder' = w.holder /\ error' = w.error

Init == /\ methods = <<>> /\ objects = <<>> /\ categories = <<>> /\ holder = <<>>
        /\ systematics = <<>> /\ estimated = 0
        /\ phase = "booking" /\ error = "none"

Booking == phase = "booking" /\ error = "none"

\* Category(name, channel, cuts, variable) for each category of the analysis; some call
\* may remove cuts from it later.
Conflict(c) == c.cuts \cap ChannelCuts[c.channel] # {}
NewCategories ==
  /\ Booking /\ categories = <<>> /\ UNCHANGED <<methods, objects, holder, systematics, estimated, phase>>
  /\ \E list \in CategoryLists :
       IF \E i \in DOMAIN list : Conflict(list[i]) THEN error' = "LookupError" /\ UNCHANGED categories
       ELSE /\ error' = "none"
            /\ categories' = [i \in DOMAIN list |-> [channel |-> list[i].channel, name |-> list[i].name, variable |-> list[i].variable,
                                                     cuts |-> (list[i].cuts \cup ChannelCuts[list[i].channel]) \ list[i].removed]]

\* The constructors of the estimation methods; QCD_estimation has its own copies of the
\* processes of the data and of the backgrounds.
Plain(name, channel) == [name |-> name, channel |-> channel, root_objects |-> <<>>, processes |-> <<>>, systematics |-> <<>>]
Own == <<"data_obs">> \o BgProcesses
NewMethods(name, channel) ==
  IF name # "QCD" THEN Append(methods, Plain(name, channel))
  ELSE methods \o [i \in DOMAIN Own |-> Plain(Own[i], channel)]
               \o <<[Plain("QCD", channel) EXCEPT !.processes = [i \in DOMAIN Own |-> [name |-> Own[i], method |-> Len(methods) + i]]]>>

\* Systematics.add(Systematic(category, process, analysis, era, Nominal())), with a new
\* Process for the channel or with one that an earlier systematic has.
Add1 ==
  /\ Booking /\ Len(systematics) < MaxSystematics /\ UNCHANGED <<objects, categories, holder, estimated, phase, error>>
  /\ \E name \in ProcessNames, c \in DOMAIN categories :
       \/ /\ methods' = NewMethods(name, categories[c].channel)
          /\ systematics' = Append(systematics, Systematic(name, Len(methods'), c, Nominal))
       \/ /\ ShareProcesses /\ UNCHANGED methods
          /\ \E i \in DOMAIN systematics : /\ systematics[i].process = name /\ systematics[i].syst_var = Nominal
                                           /\ systematics' = Append(systematics, Systematic(name, systematics[i].method, c, Nominal))

-----------------------------------------------------------------------------
\* Systematics.add_syst_var(syst_vars, key=names): copies of the nominal systematics.
is_nominal(s) == s.syst_var.kind = "nominal"
NameByKey(s, key) == CASE key = "process" -> <<s.process>>
                       [] key = "channel" -> <<categories[s.category].channel>>
                       [] key = "category" -> <<categories[s.category].channel, categories[s.category].name>>
                       [] key = "era" -> <<Version>>
                       [] key = "syst_var" -> NameOfVariation(s.syst_var)
\* The analysis and the name are strings and the mass None: no get_name().
KeyError(key) == CASE key \in {"process", "channel", "category", "era", "syst_var"} -> "none"
                   [] key \in {"analysis", "name", "mass"} -> "AttributeError"
                   [] OTHER -> "KeyError"
\* The keywords up to the first one that does not fit or is an error.
Fit(s, kws) ==
  FoldLeft(LAMBDA fit, kw : CASE fit # "fits" -> fit
                              [] KeyError(kw.key) # "none" -> KeyError(kw.key)
                              [] NameByKey(s, kw.key) \in kw.names -> fit
                              [] OTHER -> "differs", "fits", kws)
\* Mutant: systematics that are variations already are varied again.
AnyFound(s, kws) == Fit(s, kws) = "fits"
Found(s, kws) == is_nominal(s) /\ Fit(s, kws) = "fits"
Fails(s, kws) == is_nominal(s) /\ Fit(s, kws) \in {"AttributeError", "KeyError"}

\* copy.deepcopy of a systematic: its category, its process with the estimation method
\* and, for the QCD, the processes in there.
CopiedProcesses(n, processes) == [i \in DOMAIN processes |-> [name |-> processes[i].name, method |-> n + i]]
CopiedMethods(w, m) == w.methods \o [i \in DOMAIN w.methods[m].processes |-> w.methods[w.methods[m].processes[i].method]]
                                 \o <<[w.methods[m] EXCEPT !.processes = CopiedProcesses(Len(w.methods), @)]>>
Deepcopied(acc, s, ms) == [error |-> acc.error, methods |-> ms, categories |-> Append(acc.categories, acc.categories[s.category]),
  systematics |-> Append(acc.systematics, [s EXCEPT !.method = Len(ms), !.category = Len(acc.categories) + 1])]
deepcopy(acc, s) == Deepcopied(acc, s, CopiedMethods(acc, s.method))

VariedBy(acc, s, variation) == deepcopy(acc, [s EXCEPT !.syst_var = variation])
VaryOne(acc, s, list) == FoldLeft(LAMBDA a, v : VariedBy(a, s, v), acc, list)
VaryAll(acc, kws, list) ==
  FoldLeft(LAMBDA a, s : CASE a.error # "none" -> a
                           [] Fails(s, kws) -> [a EXCEPT !.error = Fit(s, kws)]
                           [] Found(s, kws) -> VaryOne(a, s, list)
                           [] OTHER -> a, acc, systematics)
AddSystVar ==
  /\ Booking /\ UNCHANGED <<objects, holder, estimated, phase>>
  /\ \E list \in Variations, kws \in Keywords :
       \E acc \in {VaryAll([error |-> error, methods |-> methods, categories |-> categories, systematics |-> systematics], kws, list)} :
         /\ Len(acc.systematics) <= MaxSystematics
         /\ methods' = acc.methods /\ categories' = acc.categories /\ systematics' = acc.systematics /\ error' = acc.error

-----------------------------------------------------------------------------
\* Systematics.create_histograms: Root_objects.remove_duplicates changes the order only,
\* on which nothing depends, for the names are unique; the pool draws copies, which
\* replace the objects of the holder.
Created == FoldLeft(LAMBDA acc, s : AddToHolder(create_root_objects(acc, s), s), World, systematics)
InPlace(w) == [w EXCEPT !.objects = [r \in DOMAIN @ |-> IF r \in Range(w.holder) THEN Drawn(w, @[r]) ELSE @[r]]]
ByPool(w) == [w EXCEPT !.objects = @ \o [i \in DOMAIN w.holder |-> Drawn(w, @[w.holder[i]])],
                       !.holder = [i \in DOMAIN @ |-> Len(w.objects) + i]]
Produced(w, mode) == CASE w.error # "none" -> w
                       [] mode = 0 -> [w EXCEPT !.error = "NotImplementedError"]
                       [] mode = 1 -> InPlace(w)
                       [] OTHER -> ByPool(w)
CreateHistograms ==
  /\ Booking /\ systematics # <<>> /\ UNCHANGED <<systematics, estimated>>
  /\ \E mode \in Modes, w \in {Created} : WorldIs(Produced(w, mode))
  /\ phase' = IF error' = "none" THEN "estimating" ELSE "ended"

\* Systematics.do_estimations, one systematic after the other.
DoEstimation ==
  /\ phase = "estimating"
  /\ \E i \in {estimated + 1} : \E w \in {do_estimation(World, systematics[i])} :
       /\ WorldIs(w)
       /\ systematics' = [systematics EXCEPT ![i].shape = shape_of(w, systematics[i])]
       /\ estimated' = i
       /\ phase' = IF i = Len(systematics) THEN "ended" ELSE phase

Next == NewCategories \/ Add1 \/ AddSystVar \/ CreateHistograms \/ DoEstimation

Spec == Init /\ [][Next]_vars

-----------------------------------------------------------------------------
\* The selection that is wanted for a process: its own cuts and weights on those of the
\* category, in the folder or with the weight of the variation.
Region(s, sign) == (categories[s.category].cuts \ {"os", "ss"}) \cup (IF {"os", "ss"} \cap categories[s.category].cuts = {} THEN {} ELSE {sign})
Varied(s, name) == LET v == s.syst_var IN
  [n \in get_weights(name) \ (IF v.kind = "weight" /\ v.direction = "Down" THEN {v.name} ELSE {}) |-> IF v.kind = "weight" /\ n = v.name THEN 2 ELSE 1]
Wanted(s, name, sign) == LET channel == categories[s.category].channel IN
  [files |-> get_files(name, channel), folder |-> <<channel, IF s.syst_var.kind = "pipeline" THEN s.syst_var.of ELSE "nominal">>,
   cuts |-> Region(s, sign) \cup get_cuts(name), weights |-> Varied(s, name), variable |-> categories[s.category].variable]
WantedShape(s) == IF s.process # "QCD" THEN [x \in {Wanted(s, s.process, "os")} |-> 1]
                  ELSE [x \in {Wanted(s, name, "ss") : name \in Range(Own)} |-> IF x = Wanted(s, "data_obs", "ss") THEN 1 ELSE -1]

\* Is the process used for two booked systematics, or made for another channel?
Shared(i) == \/ \E j, k \in DOMAIN systematics : /\ j # k /\ is_nominal(systematics[j]) /\ is_nominal(systematics[k])
                                                 /\ systematics[j].method = systematics[i].method /\ systematics[k].method = systematics[i].method
             \/ methods[systematics[i].method].channel # categories[systematics[i].category].channel
\* Whatever is booked and varied, drawn in place or by a pool, and in whatever order the
\* shapes are estimated: each shape of a systematic with its own process is the histogram
\* of this process in its category with its variation, the QCD the data minus each
\* background once in the same-sign region (systematics.py:95-147,
\* estimation_methods.py:57-100, 242-265).
ShapesAsWanted == \A i \in 1 .. estimated : ~Shared(i) => objects[systematics[i].shape].result = WantedShape(systematics[i])
\* With the methods of 2017 no production gets as far as a shape
\* (estimation_methods_2017.py:43, histogram.py:162-173).
NeverAdded == phase # "booking" => error # "none" /\ holder = <<>>
\* No two systematics with their own processes have one shape, and each shape keeps the
\* name of its own systematic until the end (systematics.py:50-66, estimation_methods.py:263).
OneShapeEach == \A i, j \in 1 .. estimated : ~Shared(i) =>
  /\ objects[systematics[i].shape].name = NameOf(World, systematics[i])
  /\ systematics[i].shape = systematics[j].shape => i = j
\* Making the histograms leaves the categories of the systematics alone, although the
\* QCD looks at the inverted charge cut (estimation_methods.py:243-245).
CategoriesKept == CreateHistograms => \A i \in DOMAIN categories : categories'[i] = categories[i]
\* Each nominal systematic that fits the keyword gets each variation once; variations
\* are not varied again, however often add_syst_var is called (systematics.py:125-147).
VariedOnce == AddSystVar /\ error' = "none" => \E list \in Variations, kws \in Keywords :
  LET fitting == {i \in DOMAIN systematics : /\ systematics[i].syst_var = Nominal
                                             /\ \A k \in Range(kws) : KeyError(k.key) = "none" /\ NameByKey(systematics[i], k.key) \in k.names}
      new == {j \in DOMAIN systematics' : j > Len(systematics)}
  IN  /\ Cardinality(new) = Len(list) * Cardinality(fitting)
      /\ \A i \in fitting, v \in Range(list) : \E j \in new :
           systematics'[j].process = systematics[i].process /\ systematics'[j].syst_var = v
           /\ categories'[systematics'[j].category] = categories[systematics[i].category]
=============================================================================
