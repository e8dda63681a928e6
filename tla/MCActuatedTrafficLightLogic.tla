-------------------- MODULE MCActuatedTrafficLightLogic --------------------
\* A crossing of two approaches and short vehicles, for TLC.
EXTENDS ActuatedTrafficLightLogic

CONSTANTS north, east

\* North is green for two to four seconds, then yellow; east for one to
\* three, the second of its phases with a fixed length and a yellow link.
MCPhases == <<
  [min |-> 2 * TS, max |-> 4 * TS, green |-> {north},       yellow |-> FALSE],
  [min |-> TS,     max |-> TS,     green |-> {},            yellow |-> TRUE],
  [min |-> TS,     max |-> 3 * TS, green |-> {north, east}, yellow |-> FALSE],
  [min |-> TS,     max |-> TS,     green |-> {east},        yellow |-> TRUE]>>

\* DefaultMaxGap, DefaultDetectorGap
MCMaxGap      == 3 * TS
MCDetectorGap == 2 * TS

\* In centimetres.  A vehicle comes 10 onto its lane, and 1390 is the way at 50
\* km/h: fronts come to stand exactly on the loop at 1400, and backs exactly on
\* it and one centimetre before, which is seven tenths of a millisecond.
MCLength == [v \in Vehicles |-> 702 - v]
=============================================================================
