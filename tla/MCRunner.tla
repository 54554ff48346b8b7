------------------------------- MODULE MCRunner -------------------------------
(***************************************************************************)
(* Instances of the pipeline runner.  Pipelines p, q of level one, r of    *)
(* level two and s of level three; filters f and g and the tagger t.       *)
(***************************************************************************)
EXTENDS PipelineRunner

CONSTANTS f, g, t, p1, q1, r2, s3, gap4

Names == {f, g, t, p1, q1, r2, s3, gap4}

Prod == [kind |-> "Producer", id |-> f]
Filt(n) == [kind |-> "Filter", id |-> n]
Pipeline(name, level, nodes, filters, tagging) ==
  [name |-> name, level |-> level, nodes |-> nodes, filters |-> filters, tagging |-> tagging]

P == Pipeline(p1, 1, <<Filt(t), Filt(g), Prod>>, <<g, t>>, {t})
\* Q uses the global filter f once more and takes it for a tagger.
Q == Pipeline(q1, 1, <<Prod, Filt(f)>>, <<f>>, {f})
R == Pipeline(r2, 2, <<>>, <<>>, {})
S == Pipeline(s3, 3, <<>>, <<>>, {})
G == Pipeline(gap4, 4, <<>>, <<>>, {})

\* A producer comes first; then a filter, then a producer it may skip.
ProducerFirst == <<Prod, Filt(f), Prod>>
FilterFirst   == <<Filt(f), Prod>>
GlobalList    == <<f>>
NoTags        == {}
NoLimit       == -1
TwoEvents     == 2

Levels  == <<S, P, R, Q>>
OneEach == <<P, R>>
WithGap == <<P, R, G>>
=============================================================================
