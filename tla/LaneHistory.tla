---------------------------- MODULE LaneHistory ----------------------------
(***************************************************************************)
(* The lane with a note of whether two requests were ever in flight        *)
(* together.  It records, and constrains nothing: it tells the histories   *)
(* in which every request had the lane to itself from those in which one   *)
(* may have written over what another did.                                 *)
(***************************************************************************)
EXTENDS JobLane

VARIABLE overlapped

laneHistoryVars == <<allVars, overlapped>>

\* No two requests are in flight.
Alone ==
    \A s, t \in Slots : requests[s] # NoRequest /\ requests[t] # NoRequest => s = t

LaneHInit == LaneInit /\ overlapped = FALSE
LaneHNext == LaneNext /\ overlapped' = (overlapped \/ ~Alone')
LaneHSpec == LaneHInit /\ [][LaneHNext]_laneHistoryVars

\* As long as no two requests overlap, a record only moves forward and a
\* terminal one stays what it is, through crashes, calls given up on that are
\* mined later, and a guard that appears between two requests: what a request
\* read is still so when it writes.
RecordsOnlyAdvance ==
    [][~overlapped' => \A j \in JobIds :
        /\ Rank(records'[j].state) >= Rank(records[j].state)
        /\ Rank(records[j].state) = 6 => records'[j].state = records[j].state]_laneHistoryVars
=============================================================================
