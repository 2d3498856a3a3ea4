---------------------------- MODULE ChannelModel ----------------------------
(***************************************************************************)
(* How a session's link gets its channel (src/qunetsim_service.py,         *)
(* src/optical/channel.py, src/optical/channel_model.py): a link without   *)
(* length has a statistical channel; for a fibre the table exported by     *)
(* Ansys is read and interpolated at the session's distance, with the      *)
(* binary search that is used without scipy.  Every turn of its loop is a  *)
(* step.                                                                   *)
(*                                                                         *)
(* Distances are integers and transmissions integers in parts of Unit; an  *)
(* interpolated value is a fraction and not rounded.  A photon on a fibre  *)
(* may be lost whatever the value is.                                      *)
(***************************************************************************)
EXTENDS Integers, Sequences

CONSTANTS
  Files,      \* the contents the file may have: sequences of rows [d, t]
  Distances,  \* the lengths of links, 0 for a link without fibre
  Unit        \* transmission 1.0

ASSUME ChannelAssumption ==
  /\ Files \subseteq Seq([d : Int, t : Int])
  /\ Distances \subseteq Nat
  /\ Unit \in Nat \ {0}

VARIABLES
  at,        \* where NetworkSession's constructor is
  distance,  \* its argument distance_km
  unread,    \* local: the rows of the file _load_csv has not read yet
  table,     \* local: the rows it has kept
  lo, hi,    \* local: the rows between which _interp searches
  T,         \* local: the value of _interp, as [num, den]
  fiber      \* the channel is a FiberChannel

locals      == <<distance, unread, table, lo, hi>>
channelVars == <<at, locals, T, fiber>>

Whole  == [num |-> 1, den |-> 1]
Row(i) == [num |-> table[i].t, den |-> Unit]

(* The value on the straight line between rows i and j. *)
Line(i, j) ==
  [num |-> table[i].t * (table[j].d - table[i].d)
             + (distance - table[i].d) * (table[j].t - table[i].t),
   den |-> (table[j].d - table[i].d) * Unit]

(* _load_csv: a row that is no transmission at a distance is left out. *)
Usable(row) == 0 < row.t /\ row.t <= Unit /\ row.d >= 0

ChannelInit ==
  /\ at = "load"
  /\ distance \in Distances
  /\ unread \in Files \cup {<< >>} /\ table = << >>
  /\ lo = 1 /\ hi = 1
  /\ T = Whole
  /\ fiber = (distance > 0)

(* StatisticalChannel *)
NoFiber ==
  /\ at = "load" /\ ~fiber
  /\ at' = "ready"
  /\ distance' = 0 /\ unread' = << >>
  /\ UNCHANGED <<table, lo, hi, T, fiber>>

ReadRow ==
  /\ at = "load" /\ fiber /\ unread # << >>
  /\ unread' = Tail(unread)
  /\ table' = IF Usable(Head(unread)) THEN Append(table, Head(unread)) ELSE table
  /\ UNCHANGED <<at, distance, lo, hi, T, fiber>>

(* A row that is no numbers: nothing of the file is used. *)
Unreadable ==
  /\ at = "load" /\ fiber /\ unread # << >>
  /\ at' = "loaded"
  /\ unread' = << >> /\ table' = << >>
  /\ UNCHANGED <<distance, lo, hi, T, fiber>>

(* The end of the file; one that does not exist ends at once. *)
Loaded ==
  /\ at = "load" /\ fiber /\ unread = << >>
  /\ at' = "loaded"
  /\ UNCHANGED <<locals, T, fiber>>

Return(value) ==
  /\ at' = "value"
  /\ T' = value
  /\ UNCHANGED <<locals, fiber>>

(* Without a table the formula's value is some transmission. *)
Formula ==
  /\ at = "loaded" /\ fiber /\ table = << >>
  /\ \E t \in 1..Unit : Return([num |-> t, den |-> Unit])

FirstRow ==
  /\ at = "loaded" /\ fiber /\ table # << >>
  /\ distance <= table[1].d
  /\ Return(Row(1))

LastRow ==
  /\ at = "loaded" /\ fiber /\ table # << >>
  /\ distance > table[1].d /\ distance >= table[Len(table)].d
  /\ Return(Row(Len(table)))

BeginSearch ==
  /\ at = "loaded" /\ fiber /\ table # << >>
  /\ distance > table[1].d /\ distance < table[Len(table)].d
  /\ at' = "search"
  /\ lo' = 1 /\ hi' = Len(table)
  /\ UNCHANGED <<distance, unread, table, T, fiber>>

(* Mutant: the test for the half is the wrong way around. *)
HalveTheWrongWay ==
  /\ at = "search" /\ lo + 1 < hi
  /\ LET mid == (lo + hi) \div 2
     IN IF table[mid].d > distance THEN lo' = mid /\ hi' = hi
                                   ELSE hi' = mid /\ lo' = lo
  /\ UNCHANGED <<at, distance, unread, table, T, fiber>>

Halve ==
  /\ at = "search" /\ lo + 1 < hi
  /\ LET mid == (lo + hi) \div 2
     IN IF table[mid].d <= distance THEN lo' = mid /\ hi' = hi
                                    ELSE hi' = mid /\ lo' = lo
  /\ UNCHANGED <<at, distance, unread, table, T, fiber>>

Interpolate ==
  /\ at = "search" /\ lo + 1 >= hi
  /\ Return(Line(lo, hi))

(* transmission_prob and the rest of the constructors; the locals end.     *)
Built ==
  /\ at = "value"
  /\ at' = "ready"
  /\ distance' = 0 /\ table' = << >> /\ lo' = 1 /\ hi' = 1 /\ T' = Whole
  /\ UNCHANGED <<unread, fiber>>

Construct == \/ NoFiber \/ ReadRow \/ Unreadable \/ Loaded \/ Formula \/ FirstRow \/ LastRow
             \/ BeginSearch \/ Halve \/ Interpolate \/ Built

ChannelSpec == ChannelInit /\ [][Construct]_channelVars

-----------------------------------------------------------------------------
(* Properties *)

(* In whatever order the rows are and however often a distance is repeated *)
(* in them, the search keeps the session's distance between its two rows:  *)
(* the slope's division is never by zero.                                  *)
Bracketed ==
  at = "search" => /\ 1 <= lo /\ lo < hi /\ hi <= Len(table)
                   /\ table[lo].d <= distance /\ distance < table[hi].d

(* The value is that of the formula, that of a row at an end of the table, *)
(* or lies on the line between two neighbouring rows that enclose the      *)
(* distance (_linear_interp).                                              *)
OnEnclosingLine ==
  at = "value" /\ table # << >> =>
    \/ distance <= table[1].d /\ T = Row(1)
    \/ distance >= table[Len(table)].d /\ T = Row(Len(table))
    \/ \E i \in 1..(Len(table) - 1) :
         /\ table[i].d <= distance /\ distance < table[i + 1].d
         /\ T = Line(i, i + 1)
=============================================================================
