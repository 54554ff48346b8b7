------------------------------ MODULE MCCutFlow ------------------------------
(***************************************************************************)
(* A global filter f; a local tagger t, filters g and h; u is a filter the *)
(* configuration does not name.  j is a producer.                          *)
(***************************************************************************)
EXTENDS CutFlow

CONSTANTS f, t, g, h, u, j

Names == {f, t, g, h, u, j}
Prod == [kind |-> "Producer", id |-> j]
Filt(n) == [kind |-> "Filter", id |-> n]

GlobalChain == <<Prod, Filt(f)>>
GlobalList  == <<f>>
NoTags      == {}
LocalChain  == <<Filt(t), Filt(g), Prod, Filt(h), Filt(u)>>
LocalList   == <<t, g, h>>
LocalTags   == {t}

Event(r, l, e) == [run |-> r, lumi |-> l, event |-> e]
ThreeEvents == <<Event(1, 1, 5), Event(1, 2, 6), Event(2, 1, 7)>>
=============================================================================
