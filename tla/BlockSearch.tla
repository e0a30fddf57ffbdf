---------------------------- MODULE BlockSearch ----------------------------
(***************************************************************************)
(* The search for the block of a date, by which a new wallet decides where *)
(* to start: the latest height, then one request per date.  The search     *)
(* stops when it has come near enough.                                     *)
(***************************************************************************)
EXTENDS Integers

CONSTANTS
    Activation,     \* first height
    MaxHeight,      \* bound: last height of the chain
    Date,           \* height -> date of the block
    SearchTimes,    \* dates that are asked for
    Near            \* the search stops below this distance: 1000 in the code

Heights == Activation .. MaxHeight

\* Dates of blocks may go back a little on the real chain; the search, and what
\* is said of it here, takes them for ordered.
ASSUME SearchAssumption ==
    /\ Activation \in Nat /\ MaxHeight \in Nat /\ Activation <= MaxHeight
    /\ Near \in Nat /\ Near >= 2
    /\ SearchTimes \subseteq Nat
    /\ Date \in [Heights -> Nat]
    /\ \A g, h \in Heights : g <= h => Date[g] <= Date[h]

VARIABLES
    stage,          \* "idle", "first", "last", "middle", "done"
    time,           \* the date asked for
    latest,         \* the height of the server when the call began
    start, end,     \* the heights between which the block is looked for
    found           \* the answer

searchVars == <<stage, time, latest, start, end, found>>

SearchInit ==
    /\ stage = "idle" /\ time \in SearchTimes
    /\ latest = Activation /\ start = Activation /\ end = Activation /\ found = 0

Answer(h) == stage' = "done" /\ found' = h

\* get_latest_height.
BeginSearch(t, tip) ==
    /\ stage \in {"idle", "done"}
    /\ stage' = "first" /\ time' = t /\ latest' = tip
    /\ start' = Activation /\ end' = tip
    /\ UNCHANGED found

CheckFirst ==
    /\ stage = "first"
    /\ IF time <= Date[start] THEN Answer(0) ELSE stage' = "last" /\ found' = found
    /\ UNCHANGED <<time, latest, start, end>>

CheckLast ==
    /\ stage = "last"
    /\ IF time >= Date[end] THEN Answer(end) ELSE stage' = "middle" /\ found' = found
    /\ UNCHANGED <<time, latest, start, end>>

CheckMiddle ==
    LET mid == (start + end) \div 2 IN
    /\ stage = "middle" /\ end - start >= Near
    /\ \/ /\ time < Date[mid]
          /\ end' = mid - 1 /\ UNCHANGED <<stage, start, found>>
       \/ /\ time > Date[mid]
          /\ start' = mid + 1 /\ UNCHANGED <<stage, end, found>>
       \/ /\ time = Date[mid]
          /\ Answer(mid) /\ UNCHANGED <<start, end>>
    /\ UNCHANGED <<time, latest>>

Stop ==
    /\ stage = "middle" /\ end - start < Near
    /\ Answer(start)
    /\ UNCHANGED <<time, latest, start, end>>

SearchFails ==
    /\ stage \in {"first", "last", "middle"}
    /\ stage' = "idle"
    /\ UNCHANGED <<time, latest, start, end, found>>

SearchNext ==
    \/ \E t \in SearchTimes, tip \in Heights : BeginSearch(t, tip)
    \/ CheckFirst \/ CheckLast \/ CheckMiddle \/ Stop \/ SearchFails

SearchSpec == SearchInit /\ [][SearchNext]_searchVars

----------------------------------------------------------------------------
(* Properties.                                                             *)

\* The answer is 0 when no block is older than the date.  Otherwise it is a
\* block of the date itself, or every block below it is older and every block
\* from Near above it is younger; past the last block it is the last one
\* (chain.rs:62-88).
SearchNear ==
    stage = "done" =>
        \/ found = 0 /\ \A h \in Activation .. latest : time <= Date[h]
        \/ /\ found \in Activation .. latest
           /\ \/ Date[found] = time
              \/ found = latest /\ Date[found] <= time
              \/ /\ \A h \in Activation .. found - 1 : Date[h] < time
                 /\ \A h \in found + Near .. latest : Date[h] > time

\* The unsigned differences of the loop never go below zero (chain.rs:76-82).
BoundsInOrder == stage \in {"first", "last", "middle"} => start <= end
=============================================================================
