----------------------------- MODULE LoserTree ------------------------------
(***************************************************************************)
(* The quote merge of algorithm/tournament_sort: load_quote_c() puts the   *)
(* first tick of each channel at a leaf of a loser tree, pop_tick() takes  *)
(* the champion and lets the next tick of its channel play its way up.     *)
(* One step is one iteration of the loop in adjust_by_exch_time() and      *)
(* adjust_by_local_time(), which differ in the time stamp they compare;    *)
(* a tick has the one that sort_method selects.                            *)
(*                                                                         *)
(* Node n of the tree has the children 2n and 2n + 1; the nodes K to       *)
(* 2K - 1 are the leaves of the channels 0 to K - 1.                       *)
(***************************************************************************)
EXTENDS Integers, Sequences

CONSTANTS
  K,              \* size: the number of channels
  Inputs,         \* what the caller may load: times, for each channel
  TimeMod,        \* 2^64, the range of a time
  MaxChannelCnt,  \* 4096, what a column takes of an encoded tick
  RowMod          \* 2^20, the rows that 32 bits leave beside a column

Channels == 0 .. K - 1

\* Times are at least two below the end of their range: a tick is moved by
\* one, and must then differ from the end marks.
Times == 0 .. TimeMod - 3

ASSUME ConstantsAssumption ==
  /\ K \in Nat \ {0} /\ MaxChannelCnt \in Nat /\ K <= MaxChannelCnt
  /\ TimeMod \in Nat /\ TimeMod >= 3 /\ RowMod \in Nat \ {0}
  /\ Inputs \subseteq [Channels -> Seq(Times) \ {<<>>}]

None == -1        \* UINT_MAX, as the int that update_loser_tree() makes of it
ReachEnd == -1    \* REACH_END

VARIABLES
  data,   \* the items of each channel
  ptr,    \* items the pointer d[c].data has been moved by
  q,      \* the ticks that play; q[K] is the least
  l,      \* the loser of each match; l[0] is the champion
  ptick,  \* p_tick_col and p_tick_row
  ret,    \* what pop_tick() returned last
  pc,     \* in init_loser_tree(), between calls, in pop_tick(), after the end
  leaf,   \* i of init_loser_tree()
  i, s,   \* i and s of the adjustment
  win     \* history: who won a node, and its time then

vars == <<data, ptr, q, l, ptick, ret, pc, leaf, i, s, win>>

Nodes == 1 .. 2 * K - 1
Inner == 1 .. K - 1
Sentinel == [time |-> 0, column |-> None, row |-> None]
FillTick == [time |-> TimeMod - 1, column |-> None, row |-> None]

Convert_Stuck(d, c, p, r) ==
  [time |-> (d[c][1] + 1) % TimeMod, column |-> c, row |-> r]
\* The item p of channel c of d, as tick number r.
Convert(d, c, p, r) ==
  [time |-> (d[c][p + 1] + 1) % TimeMod, column |-> c, row |-> r]

FirstTicks(d) ==
  [c \in 0 .. K |-> IF c = K THEN Sentinel ELSE Convert(d, c, 0, 0)]

Father_Whole(c) == c + K
\* The node of the first match of channel c.
Father(c) == (c + K) \div 2

Encode_Narrow(r, c) == (r % RowMod) * (MaxChannelCnt - 1) + c
\* encode_tick() in 32 bits, decode_tick_row() and decode_tick_col().
Encode(r, c) == (r % RowMod) * MaxChannelCnt + c
DecodeRow(v) == v \div MaxChannelCnt
DecodeCol(v) == v % MaxChannelCnt

\* The contender s at node i loses to the one kept there.
Beaten_Equal == q[s].time >= q[l[i]].time
Beaten == q[s].time > q[l[i]].time

MoreRows_Short(c, r) == r + 1 < Len(data[c]) - 1
\* Channel c has a tick after number r.
MoreRows(c, r) == r < Len(data[c]) - 1

Entered(w, c, t) == [w EXCEPT ![K + c] = [leaf |-> c, time |-> t]]
NobodyWon == [n \in Nodes |-> [leaf |-> K, time |-> 0]]

Init ==
  /\ data \in Inputs
  /\ ptr = [c \in Channels |-> 1]
  /\ q = FirstTicks(data)
  /\ l = [n \in 0 .. K |-> K]
  /\ ptick = [col |-> 0, row |-> 0] /\ ret = 0
  /\ pc = "init" /\ leaf = K - 1 /\ i = Father(K - 1) /\ s = K - 1
  /\ win = Entered(NobodyWon, K - 1, q[K - 1].time)

\* load_quote_c() up to the adjustments, at any time between two calls.
Load ==
  /\ pc \in {"idle", "ended"}
  /\ data' \in Inputs
  /\ ptr' = [c \in Channels |-> 1]
  /\ q' = FirstTicks(data')
  /\ l' = [n \in 0 .. K |-> K]
  /\ ptick' = [col |-> 0, row |-> 0]
  /\ pc' = "init" /\ leaf' = K - 1 /\ i' = Father(K - 1) /\ s' = K - 1
  /\ win' = Entered(NobodyWon, K - 1, q'[K - 1].time)
  /\ UNCHANGED ret

\* One match on the way up: the loser stays, the winner goes on.
Adjust ==
  /\ pc \in {"init", "pop"} /\ i > 0
  /\ l' = IF Beaten THEN [l EXCEPT ![i] = s] ELSE l
  /\ s' = IF Beaten THEN l[i] ELSE s
  /\ win' = [win EXCEPT ![i] = [leaf |-> s', time |-> q[s'].time]]
  /\ i' = i \div 2
  /\ UNCHANGED <<data, ptr, q, ptick, ret, pc, leaf>>

\* The end of an adjustment of init_loser_tree().
Placed ==
  /\ pc = "init" /\ i = 0
  /\ l' = [l EXCEPT ![0] = s]
  /\ IF leaf = 0
     THEN pc' = "idle" /\ UNCHANGED <<leaf, i, s, win>>
     ELSE /\ leaf' = leaf - 1 /\ s' = leaf - 1 /\ i' = Father(leaf - 1)
          /\ win' = Entered(win, leaf - 1, q[leaf - 1].time)
          /\ UNCHANGED pc
  /\ UNCHANGED <<data, ptr, q, ptick, ret>>

\* pop_tick() takes the champion and puts the next tick of its channel, or
\* the mark of its end, in its place.
Pop ==
  /\ pc = "idle" /\ q[l[0]].column # None
  /\ LET c == q[l[0]].column  r == q[l[0]].row  more == MoreRows(c, r) IN
     /\ ptick' = [col |-> c, row |-> r]
     /\ q' = [q EXCEPT ![c] = IF more THEN Convert(data, c, ptr[c], r + 1)
                              ELSE FillTick]
     /\ ptr' = IF more THEN [ptr EXCEPT ![c] = @ + 1] ELSE ptr
     /\ i' = Father(c) /\ s' = c /\ pc' = "pop"
     /\ win' = Entered(win, c, q'[c].time)
  /\ UNCHANGED <<data, l, ret, leaf>>

\* The end of the adjustment of pop_tick(), and its return.
Return ==
  /\ pc = "pop" /\ i = 0
  /\ l' = [l EXCEPT ![0] = s]
  /\ ret' = Encode(ptick.row, ptick.col) /\ pc' = "idle"
  /\ UNCHANGED <<data, ptr, q, ptick, leaf, i, s, win>>

\* pop_tick() at the end of the data.  update_loser_tree() then works at
\* index -1, which lies in front of q[] and in size, sort_method and
\* p_tick; only load_quote_c() uses these again, and sets them first.
PopEnd ==
  /\ \/ pc = "idle" /\ q[l[0]].column = None
     \/ pc = "ended"
  /\ ptick' = [col |-> None, row |-> None]
  /\ ret' = ReachEnd /\ pc' = "ended"
  /\ UNCHANGED <<data, ptr, q, l, leaf, i, s, win>>

Next == Load \/ Adjust \/ Placed \/ Pop \/ Return \/ PopEnd

Spec == Init /\ [][Next]_vars

-----------------------------------------------------------------------------
(* Properties *)

Ticks == [time : 0 .. TimeMod - 1, column : Channels \cup {None},
          row : Nat \cup {None}]

\* The tree, its ticks and the call in progress keep their types; in
\* particular every index of q[] and l[] that is used exists.
TypeOK ==
  /\ data \in Inputs
  /\ ptr \in [Channels -> Nat]
  /\ q \in [0 .. K -> Ticks]
  /\ l \in [0 .. K -> 0 .. K]
  /\ ptick \in [col : Channels \cup {None}, row : Nat \cup {None}]
  /\ ret \in Nat \cup {ReachEnd}
  /\ pc \in {"init", "idle", "pop", "ended"}
  /\ leaf \in Channels /\ i \in 0 .. K - 1 /\ s \in 0 .. K
  /\ win \in [Nodes -> [leaf : 0 .. K, time : 0 .. TimeMod - 1]]

\* The ticks of channel c that have been popped.
Given(c) == IF q[c].column = None THEN Len(data[c]) ELSE q[c].row

Service == INSTANCE MergeService
  WITH given <- [c \in Channels |-> Given(c)],
       last <- <<ptick.col, ptick.row>>

\* The tree implements the merge: each tick once, none out of the order of
\* its channel, always an earliest one, and REACH_END only after the last
\* (pop_tick(), update_loser_tree(), adjust_by_*_time()).
ImplementsMerge == Service!Spec

Started == \E c \in Channels : Given(c) > 0
Ordered(x) == \A n \in 1 .. Len(x) - 1 : x[n] <= x[n + 1]
LastTime == data[ptick.col][ptick.row + 1]

\* From channels in order of time, ticks come out in order of time, across
\* channels and through every refill.
SortedOutput ==
  [][Pop /\ Started /\ (\A c \in Channels : Ordered(data[c]))
     => LastTime <= LastTime']_vars

\* Among ticks of one time the channel that is being read goes on: only a
\* strictly later contender is beaten, so a run of equal times is not torn.
KeepsTurn ==
  [][Pop /\ Started /\ q[ptick.col].column # None
     /\ data[ptick.col][q[ptick.col].row + 1] = LastTime
     => ptick'.col = ptick.col]_vars

\* What the caller decodes is the tick that was popped, its row as far as
\* 32 bits hold it beside the column (encode_tick(), decode_tick_*()).
DecodedRight ==
  pc = "idle" /\ Started =>
    /\ DecodeCol(ret) = ptick.col
    /\ DecodeRow(ret) = ptick.row % RowMod
=============================================================================
