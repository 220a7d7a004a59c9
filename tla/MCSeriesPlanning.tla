------------------------- MODULE MCSeriesPlanning -------------------------
(* Instances of SeriesPlanning for TLC.                                    *)
EXTENDS SeriesPlanning

TwoEpisodes == 1..2
FirstEpisode == {1}
=============================================================================
