-------------------------------- MODULE MCGLog --------------------------------
(* Two threads that log at a level above and one below that of the file, and *)
(* every way two lines a thread can be split over files.                     *)
EXTENDS GLog

CONSTANTS l1, l2

MCLoggers == {l1, l2}
MCLevels == {3, 6}
MCSplitSizes == {0, 1, 2}
=============================================================================
