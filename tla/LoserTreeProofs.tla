-------------------------- MODULE LoserTreeProofs ---------------------------
(***************************************************************************)
(* Proofs about LoserTree, for any number of channels and any data.        *)
(*                                                                         *)
(* The inductive invariant says how the losers in l[] and the history win  *)
(* of winners describe the matches of a tree in which one leaf was         *)
(* replaced and plays its way up.  No induction over the tree is needed:   *)
(* the invariant is local to a node and its children, and what holds of    *)
(* the whole tree follows from the least node that would contradict it.    *)
(***************************************************************************)
EXTENDS LoserTree, NaturalsInduction, WellFoundedInduction, TLAPS

\* The player at q[x], with its present time.
Rec(x) == [leaf |-> x, time |-> q[x].time]

\* Each channel plays with its next tick, or with the end mark.
Heads ==
  /\ q[K] = Sentinel
  /\ \A c \in Channels :
       \/ /\ ptr[c] \in 1 .. Len(data[c])
          /\ q[c] = [time |-> data[c][ptr[c]] + 1, column |-> c,
                     row |-> ptr[c] - 1]
       \/ q[c] = FillTick

\* What each label says of the adjustment.
Labels ==
  /\ pc = "ended" => ptick = [col |-> None, row |-> None]
  /\ pc \in {"idle", "ended"} => i = 0 /\ s = l[0]
  /\ pc # "init" => leaf = 0
  /\ pc = "init" => \A c \in Channels : q[c].column = c /\ q[c].row = 0
  /\ pc = "pop" => ptick.col \in Channels /\ ptick.row \in Nat

\* A leaf is its channel, or the sentinel before the channel has entered.
Leaves == \A c \in Channels : win[K + c] = Rec(IF c < leaf THEN K ELSE c)

\* The players that have entered are the sentinel or distinct channels.
Distinct ==
  /\ s >= leaf
  /\ \A n \in Inner : l[n] >= leaf
  /\ \A n \in Inner : l[n] # K =>
       l[n] # s /\ \A m \in Inner : m # n => l[m] # l[n]

\* w and the loser kept at node n are the winners of its children.
Match(n, w) ==
  \/ win[2 * n] = w /\ win[2 * n + 1] = Rec(l[n])
  \/ win[2 * n] = Rec(l[n]) /\ win[2 * n + 1] = w
Matches == \A n \in Inner : Match(n, IF n = i THEN Rec(s) ELSE win[n])

\* No winner is later than its children, but where the next match is.
Local ==
  \A n \in Inner : n # i =>
    win[n].time <= win[2 * n].time /\ win[n].time <= win[2 * n + 1].time

\* The nodes still to be played were all won by the player now replaced.
Chain ==
  /\ i > 0 => win[i] = win[1]
  /\ i = 0 => win[1] = Rec(s)
  /\ \A n \in 2 .. i : win[n] = win[1] => win[n \div 2] = win[1]

OnlySentinelZero == \A n \in Nodes : win[n].leaf = K <=> win[n].time = 0

IInv ==
  /\ TypeOK /\ Heads /\ Labels /\ Leaves /\ Distinct /\ Matches /\ Local
  /\ Chain /\ OnlySentinelZero

\* What the caller was told last.
Answered ==
  pc = "idle" /\ Started =>
    /\ ptick.col \in Channels /\ ptick.row \in Nat
    /\ ret = Encode(ptick.row, ptick.col)

\* From ordered channels, nothing that still plays is earlier than the tick
\* popped last.
Past ==
  pc # "ended" /\ Started /\ (\A c \in Channels : Ordered(data[c])) =>
    LastTime \in Nat /\ \A c \in Channels : LastTime < q[c].time

\* A channel whose next tick has the time of the one just popped is neither
\* beaten nor behind any other.
Same == q[ptick.col].column # None
        /\ data[ptick.col][q[ptick.col].row + 1] = LastTime
Turn ==
  pc \in {"idle", "pop"} =>
    /\ s # K /\ \A n \in Inner : l[n] # K
    /\ Started /\ Same =>
         s = ptick.col /\ \A c \in Channels : q[s].time <= q[c].time

-----------------------------------------------------------------------------
(* Numbers and nodes *)

\* Sets of naturals have a least element, from the well-foundedness of <.
LEMMA BelowNat ==
  \E R : /\ IsWellFoundedOn(R, Nat)
        /\ \A x, y \in Nat : x < y => <<x, y>> \in R
<1>1. IsWellFoundedOn(OpToRel(<, Nat), Nat)
  BY NatLessThanWellFounded, Zenon
<1>2. \A x, y \in Nat : x < y => <<x, y>> \in OpToRel(<, Nat)
  BY Zenon DEF OpToRel
<1>. QED  BY <1>1, <1>2, Zenon

LEMMA MinimalOf ==
  ASSUME NEW R, NEW D, IsWellFoundedOn(R, D), NEW T, T \subseteq D, T # {}
  PROVE  \E x \in T : \A y \in T : ~(<<y, x>> \in R)
BY WFMin, Zenon

LEMMA LeastOf ==
  ASSUME NEW T, T \subseteq Nat, T # {}
  PROVE  \E x \in T : \A y \in T : x <= y
<1>1. PICK R : /\ IsWellFoundedOn(R, Nat)
               /\ \A x, y \in Nat : x < y => <<x, y>> \in R
  BY BelowNat
<1>a. IsWellFoundedOn(R, Nat)
  BY <1>1
<1>b. \E x \in T : \A y \in T : ~(<<y, x>> \in R)
  BY <1>a, MinimalOf, ZenonT(30)
<1>2. PICK x \in T : \A y \in T : ~(<<y, x>> \in R)
  BY <1>b
<1>3. ASSUME NEW y \in T PROVE x <= y
  <2>1. x \in Nat /\ y \in Nat  OBVIOUS
  <2>2. ~(y < x)  BY <1>1, <1>2, <2>1, Zenon
  <2>. QED  BY <2>1, <2>2
<1>. QED  BY <1>3

LEMMA GreatestOf ==
  ASSUME NEW N \in Nat, NEW T, T \subseteq 1 .. N, T # {}
  PROVE  \E x \in T : \A y \in T : y <= x
<1>. DEFINE D == {N - x : x \in T}
<1>1. D \subseteq Nat /\ D # {}
  <2>1. \A x \in T : N - x \in Nat  OBVIOUS
  <2>2. PICK x \in T : TRUE  OBVIOUS
  <2>3. N - x \in D  OBVIOUS
  <2>. QED  BY <2>1, <2>3
<1>2. PICK d \in D : \A e \in D : d <= e
  <2>. HIDE DEF D
  <2>. QED  BY <1>1, LeastOf, Zenon
<1>3. PICK x \in T : d = N - x  OBVIOUS
<1>4. ASSUME NEW y \in T PROVE y <= x
  <2>1. N - y \in D  OBVIOUS
  <2>2. d <= N - y  BY <1>2, <2>1
  <2>. QED  BY <1>3, <2>2
<1>. QED  BY <1>4

\* Leaves, and the fathers of nodes.
LEMMA Fathers ==
  /\ \A c \in Channels :
       /\ K + c \in Nodes /\ K + c \notin Inner
       /\ Father(c) \in 0 .. K - 1 /\ Father(c) = (K + c) \div 2
       /\ Father(c) = 0 <=> K = 1
       /\ Father(c) = 0 => K + c = 1
  /\ \A n \in 2 .. 2 * K - 1 :
       /\ n \div 2 \in Inner /\ n \div 2 < n
       /\ n = 2 * (n \div 2) \/ n = 2 * (n \div 2) + 1
  /\ \A n \in Inner : 2 * n \in 2 .. 2 * K - 1 /\ 2 * n + 1 \in 2 .. 2 * K - 1
BY ConstantsAssumption DEF Channels, Nodes, Inner, Father

\* The players: channels, and the sentinel.
LEMMA Players ==
  /\ \A c \in Channels : c \in 0 .. K /\ c \in Nat /\ c # K
                        /\ K + c \in Nodes /\ K + c # 0
  /\ \A x \in 0 .. K : x \in Channels \/ x = K
  /\ K \notin Channels /\ K \in 0 .. K /\ 0 \in 0 .. K
  /\ \A n \in Inner : n \in 0 .. K /\ n # 0
  /\ \A c, d \in Channels : c # d => K + c # K + d
BY ConstantsAssumption DEF Channels, Nodes, Inner

\* Every item loads as a tick that differs from both marks.
LEMMA ConvertTick ==
  ASSUME NEW d \in Inputs, NEW c \in Channels, NEW p \in 0 .. Len(d[c]) - 1,
         NEW r
  PROVE  /\ d[c][p + 1] \in Times
         /\ Convert(d, c, p, r) =
              [time |-> d[c][p + 1] + 1, column |-> c, row |-> r]
<1>1. d[c] \in Seq(Times)  BY ConstantsAssumption
<1>2. d[c][p + 1] \in Times  BY <1>1
<1>3. (d[c][p + 1] + 1) % TimeMod = d[c][p + 1] + 1
  <2>. DEFINE t == d[c][p + 1] + 1
  <2>1. t \in Nat /\ t < TimeMod /\ TimeMod \in Nat
    BY <1>2, ConstantsAssumption DEF Times
  <2>. HIDE DEF t
  <2>2. t % TimeMod = t  BY <2>1
  <2>. QED  BY <2>2 DEF t
<1>. QED  BY <1>2, <1>3 DEF Convert

LEMMA FirstTick ==
  ASSUME NEW d \in Inputs
  PROVE  /\ FirstTicks(d) \in [0 .. K -> Ticks]
         /\ FirstTicks(d)[K] = Sentinel
         /\ \A c \in Channels :
              /\ 1 \in 1 .. Len(d[c])
              /\ d[c][1] \in Times
              /\ FirstTicks(d)[c] =
                   [time |-> d[c][1] + 1, column |-> c, row |-> 0]
<1>1. ASSUME NEW c \in Channels
      PROVE  /\ 1 \in 1 .. Len(d[c]) /\ d[c][1] \in Times
             /\ FirstTicks(d)[c] =
                  [time |-> d[c][1] + 1, column |-> c, row |-> 0]
             /\ FirstTicks(d)[c] \in Ticks
  <2>1. d[c] \in Seq(Times) /\ d[c] # <<>>  BY ConstantsAssumption
  <2>2. 0 \in 0 .. Len(d[c]) - 1  BY <2>1
  <2>3. c \in 0 .. K /\ c # K  BY ConstantsAssumption DEF Channels
  <2>4. FirstTicks(d)[c] = Convert(d, c, 0, 0)  BY <2>3 DEF FirstTicks
  <2>5. /\ d[c][1] \in Times
        /\ Convert(d, c, 0, 0)
             = [time |-> d[c][1] + 1, column |-> c, row |-> 0]
    BY <2>2, ConvertTick
  <2>. QED
    BY <2>2, <2>4, <2>5, ConstantsAssumption DEF Ticks, Times
<1>2. FirstTicks(d)[K] = Sentinel
  BY ConstantsAssumption DEF FirstTicks
<1>3. Sentinel \in Ticks  BY ConstantsAssumption DEF Sentinel, Ticks
<1>4. ASSUME NEW x \in 0 .. K PROVE FirstTicks(d)[x] \in Ticks
  <2>1. CASE x = K  BY <1>2, <1>3, <2>1
  <2>2. CASE x # K
    <3>1. x \in Channels  BY <2>2, ConstantsAssumption DEF Channels
    <3>. QED  BY <1>1, <3>1
  <2>. QED  BY <2>1, <2>2
<1>5. FirstTicks(d) \in [0 .. K -> Ticks]
  BY <1>4 DEF FirstTicks
<1>. QED  BY <1>1, <1>2, <1>5

-----------------------------------------------------------------------------
(* The whole tree *)

\* When no match is open, the root is not later than any node.
LEMMA RootLeast ==
  ASSUME TypeOK, Local, i = 0
  PROVE  \A n \in Nodes : win[1].time <= win[n].time
<1>. DEFINE T == {n \in Nodes : win[n].time < win[1].time}
<1>1. SUFFICES T = {}
  <2>1. ASSUME NEW n \in Nodes PROVE win[n].time \in Nat
    BY ConstantsAssumption DEF TypeOK
  <2>2. 1 \in Nodes  BY ConstantsAssumption DEF Nodes
  <2>. QED  BY <2>1, <2>2
<1>2. SUFFICES ASSUME T # {} PROVE FALSE  OBVIOUS
<1>3. PICK n \in T : \A m \in T : n <= m
  <2>1. T \subseteq Nat  BY ConstantsAssumption DEF Nodes
  <2>. HIDE DEF T
  <2>. QED  BY <1>2, <2>1, LeastOf, Zenon
<1>4. n \in 2 .. 2 * K - 1
  <2>1. win[1].time \in Nat
    BY ConstantsAssumption DEF TypeOK, Nodes
  <2>2. n # 1  BY <2>1
  <2>. QED  BY <2>2, ConstantsAssumption DEF Nodes
<1>. DEFINE f == n \div 2
<1>5. /\ f \in Inner /\ f < n /\ f \in Nodes
      /\ n = 2 * f \/ n = 2 * f + 1
  BY <1>4, Fathers, ConstantsAssumption DEF Inner, Nodes
<1>. HIDE DEF f
<1>6. win[f].time <= win[n].time
  <2>1. f # i  BY <1>5, ConstantsAssumption DEF Inner
  <2>2. win[f].time <= win[2 * f].time /\ win[f].time <= win[2 * f + 1].time
    BY <1>5, <2>1 DEF Local
  <2>. QED  BY <1>5, <2>2
<1>7. f \in T
  BY SMTT(30), <1>5, <1>6, ConstantsAssumption DEF TypeOK, Nodes
<1>. QED  BY <1>3, <1>5, <1>7, ConstantsAssumption DEF Nodes, Inner

\* The time of a player is 0 for the sentinel alone.
LEMMA Times0 ==
  ASSUME TypeOK, Heads
  PROVE  /\ q[K].time = 0
         /\ \A c \in Channels : q[c].time \in 1 .. TimeMod - 1
<1>1. q[K].time = 0  BY DEF Heads, Sentinel
<1>2. ASSUME NEW c \in Channels PROVE q[c].time \in 1 .. TimeMod - 1
  <2>1. CASE q[c] = FillTick
    BY <2>1, ConstantsAssumption DEF FillTick
  <2>2. CASE q[c] # FillTick
    <3>1. /\ ptr[c] \in 1 .. Len(data[c])
          /\ q[c] = [time |-> data[c][ptr[c]] + 1, column |-> c,
                     row |-> ptr[c] - 1]
      BY <2>2, Zenon DEF Heads
    <3>2. data[c] \in Seq(Times)  BY ConstantsAssumption DEF TypeOK
    <3>3. data[c][ptr[c]] \in Times  BY <3>1, <3>2
    <3>. QED  BY <3>1, <3>3, ConstantsAssumption DEF Times
  <2>. QED  BY <2>1, <2>2
<1>. QED  BY <1>1, <1>2

\* Once all channels have entered, the winner is one of them: from the root
\* down, some child repeats the record of its father.
LEMMA ChampionReal ==
  ASSUME IInv, i = 0, leaf = 0
  PROVE  s \in Channels
<1>. DEFINE T == {n \in Nodes : win[n].time = 0}
<1>1. SUFFICES ASSUME s = K PROVE FALSE
  BY ConstantsAssumption DEF IInv, TypeOK, Channels
<1>2. win[1] = Rec(s)  BY DEF IInv, Chain
<1>3. 1 \in T
  BY <1>1, <1>2, Times0, ConstantsAssumption DEF Rec, IInv, Nodes
<1>4. PICK n \in T : \A m \in T : m <= n
  <2>1. T \subseteq 1 .. 2 * K - 1 /\ 2 * K - 1 \in Nat
    BY ConstantsAssumption DEF Nodes
  <2>. HIDE DEF T
  <2>. QED  BY <1>3, <2>1, GreatestOf, Zenon
<1>5. CASE n \in Inner
  <2>1. n # i /\ Match(n, win[n])
    BY <1>5, ConstantsAssumption DEF IInv, Matches, Inner
  <2>2. win[2 * n] = win[n] \/ win[2 * n + 1] = win[n]
    BY <2>1 DEF Match
  <2>3. 2 * n \in Nodes /\ 2 * n + 1 \in Nodes /\ n \in Nat
    BY <1>5, Fathers, ConstantsAssumption DEF Nodes, Inner
  <2>4. 2 * n \in T \/ 2 * n + 1 \in T  BY <2>2, <2>3
  <2>. QED
    BY <1>4, <1>5, <2>4, ConstantsAssumption DEF Inner
<1>6. CASE n \notin Inner
  <2>. DEFINE c == n - K
  <2>1. c \in Channels /\ n = K + c
    BY <1>6, ConstantsAssumption DEF Inner, Nodes, Channels
  <2>. HIDE DEF c
  <2>2. win[n] = Rec(c)
    BY <2>1, ConstantsAssumption DEF IInv, Leaves, Channels
  <2>3. win[n].time # 0
    BY <2>1, <2>2, Times0, ConstantsAssumption DEF Rec, IInv
  <2>. QED  BY <2>3
<1>. QED  BY <1>5, <1>6

\* A node won by the champion was won by it up to the root.
LEMMA OldChain ==
  ASSUME IInv, i = 0
  PROVE  \A n \in 2 .. 2 * K - 1 : win[n] = win[1] => win[n \div 2] = win[1]
<1>. SUFFICES ASSUME NEW n \in 2 .. 2 * K - 1, win[n] = win[1]
              PROVE  win[n \div 2] = win[1]
  OBVIOUS
<1>. DEFINE f == n \div 2
<1>1. /\ f \in Inner /\ f \in Nodes /\ f # i
      /\ n = 2 * f \/ n = 2 * f + 1
  BY Fathers, ConstantsAssumption DEF Inner, Nodes
<1>. HIDE DEF f
<1>2. win[1] = Rec(s)  BY DEF IInv, Chain
<1>3. CASE s = K
  <2>1. win[n].time = 0  BY <1>2, <1>3, Times0 DEF Rec, IInv
  <2>2. win[f].time <= 0
    BY <1>1, <2>1, ConstantsAssumption DEF IInv, Local, Inner
  <2>3. win[f] \in [leaf : 0 .. K, time : 0 .. TimeMod - 1]
    BY <1>1 DEF IInv, TypeOK
  <2>4. win[f].time = 0 /\ win[f].leaf = K
    BY <1>1, <2>2, <2>3, ConstantsAssumption DEF IInv, OnlySentinelZero
  <2>5. win[f] = [leaf |-> K, time |-> 0]  BY <2>3, <2>4
  <2>. QED  BY <1>2, <1>3, <2>5, Times0 DEF Rec, IInv, f
<1>4. CASE s # K
  <2>1. Match(f, win[f])  BY <1>1 DEF IInv, Matches
  <2>2. win[n] = win[f] \/ win[n] = Rec(l[f])
    BY <1>1, <2>1 DEF Match
  <2>3. ASSUME win[n] = Rec(l[f]) PROVE FALSE
    <3>1. l[f] = s  BY <1>2, <2>3 DEF Rec
    <3>. QED  BY <1>1, <1>4, <3>1 DEF IInv, Distinct
  <2>. QED  BY <2>2, <2>3 DEF f
<1>. QED  BY <1>3, <1>4

-----------------------------------------------------------------------------
(* Steps *)

\* The tree that load_quote_c() leaves to its first adjustment.
Fresh ==
  /\ data \in Inputs /\ ptr = [c \in Channels |-> 1] /\ q = FirstTicks(data)
  /\ l = [n \in 0 .. K |-> K]
  /\ ptick = [col |-> 0, row |-> 0] /\ ret \in Nat \cup {ReachEnd}
  /\ pc = "init" /\ leaf = K - 1 /\ i = Father(K - 1) /\ s = K - 1
  /\ win = Entered(NobodyWon, K - 1, q[K - 1].time)

LEMMA FreshGood == Fresh => IInv
<1>. SUFFICES ASSUME Fresh PROVE IInv  OBVIOUS
<1>. USE DEF Fresh
<1>. DEFINE nobody == [leaf |-> K, time |-> 0]
<1>1. /\ K - 1 \in Channels /\ 0 \in Channels /\ i = K - 1
      /\ K + (K - 1) = 2 * K - 1
  BY ConstantsAssumption DEF Channels, Father
<1>2. /\ q \in [0 .. K -> Ticks] /\ q[K] = Sentinel
      /\ \A c \in Channels :
           /\ 1 \in 1 .. Len(data[c]) /\ data[c][1] \in Times
           /\ q[c] = [time |-> data[c][1] + 1, column |-> c, row |-> 0]
  BY FirstTick
<1>3. Heads  BY <1>2 DEF Heads
<1>4. q[K - 1].time \in 1 .. TimeMod - 1
  <2>1. /\ data[K - 1][1] \in Times
        /\ q[K - 1]
             = [time |-> data[K - 1][1] + 1, column |-> K - 1, row |-> 0]
    BY <1>1, <1>2, Zenon
  <2>. QED  BY <2>1, ConstantsAssumption DEF Times
<1>5. /\ \A n \in Nodes : win[n] = IF n = 2 * K - 1 THEN Rec(K - 1) ELSE nobody
      /\ nobody = Rec(K)
      /\ DOMAIN win = Nodes /\ win = [n \in Nodes |-> win[n]]
  BY <1>1, <1>2, <1>4 DEF Entered, NobodyWon, Rec, Sentinel
<1>6. TypeOK
  <2>1. win \in [Nodes -> [leaf : 0 .. K, time : 0 .. TimeMod - 1]]
    <3>1. /\ Rec(K - 1) \in [leaf : 0 .. K, time : 0 .. TimeMod - 1]
          /\ nobody \in [leaf : 0 .. K, time : 0 .. TimeMod - 1]
      BY <1>4, ConstantsAssumption DEF Rec
    <3>2. \A n \in Nodes : win[n] \in [leaf : 0 .. K, time : 0 .. TimeMod - 1]
      BY <1>5, <3>1, Zenon
    <3>. QED  BY <1>5, <3>2
  <2>2. ptick \in [col : Channels \cup {None}, row : Nat \cup {None}]
    BY <1>1
  <2>3. /\ l \in [0 .. K -> 0 .. K] /\ ptr \in [Channels -> Nat]
        /\ i \in 0 .. K - 1 /\ s \in 0 .. K /\ leaf \in Channels
    BY <1>1, ConstantsAssumption
  <2>. QED  BY <1>2, <2>1, <2>2, <2>3 DEF TypeOK
<1>7. Labels
  <2>1. ASSUME NEW c \in Channels PROVE q[c].column = c /\ q[c].row = 0
    <3>1. q[c] = [time |-> data[c][1] + 1, column |-> c, row |-> 0]
      BY <1>2, Zenon
    <3>. HIDE DEF Fresh
    <3>. QED  BY <3>1
  <2>. HIDE DEF Fresh
  <2>. QED  BY <2>1 DEF Labels, Fresh
<1>8. Leaves
  <2>. SUFFICES ASSUME NEW c \in Channels
                PROVE  win[K + c] = Rec(IF c < leaf THEN K ELSE c)
    BY DEF Leaves
  <2>1. K + c \in Nodes /\ (K + c = 2 * K - 1 <=> ~(c < leaf))
    BY ConstantsAssumption DEF Channels, Nodes
  <2>2. ~(c < leaf) => c = K - 1  BY ConstantsAssumption DEF Channels
  <2>. QED  BY <1>5, <2>1, <2>2
<1>9. Distinct
  BY <1>1, ConstantsAssumption DEF Distinct, Inner, Channels
<1>10. Matches
  <2>. SUFFICES ASSUME NEW n \in Inner
                PROVE  Match(n, IF n = i THEN Rec(s) ELSE win[n])
    BY DEF Matches
  <2>1. /\ 2 * n \in Nodes /\ 2 * n + 1 \in Nodes /\ n \in Nodes
        /\ 2 * n # 2 * K - 1 /\ n # 2 * K - 1
        /\ 2 * n + 1 = 2 * K - 1 <=> n = i
    BY <1>1, ConstantsAssumption DEF Inner, Nodes
  <2>2. l[n] = K  BY ConstantsAssumption DEF Inner
  <2>3. win[2 * n] = Rec(K) /\ win[n] = Rec(K)  BY <1>5, <2>1
  <2>4. win[2 * n + 1] = IF n = i THEN Rec(s) ELSE Rec(K)  BY <1>5, <2>1
  <2>. QED  BY <2>2, <2>3, <2>4 DEF Match
<1>11. Local
  <2>. SUFFICES ASSUME NEW n \in Inner, n # i
                PROVE  /\ win[n].time <= win[2 * n].time
                       /\ win[n].time <= win[2 * n + 1].time
    BY DEF Local
  <2>1. /\ 2 * n \in Nodes /\ 2 * n + 1 \in Nodes /\ n \in Nodes
        /\ n # 2 * K - 1
    BY ConstantsAssumption DEF Inner, Nodes
  <2>2. win[n].time = 0  BY <1>5, <2>1
  <2>3. \A m \in Nodes : win[m].time \in Nat
    BY <1>6, ConstantsAssumption DEF TypeOK
  <2>. QED  BY <2>1, <2>2, <2>3
<1>12. Chain
  <2>1. CASE K = 1
    BY <1>1, <1>5, <2>1 DEF Chain, Nodes
  <2>2. CASE K # 1
    <3>0. \A n \in 1 .. i : n \in Nodes /\ n # 2 * K - 1
      BY <1>1, ConstantsAssumption DEF Nodes
    <3>1. \A n \in 1 .. i : win[n] = nobody
      BY <1>5, <3>0, Zenon
    <3>2. 1 \in 1 .. i /\ i \in 1 .. i /\ i > 0
      BY <1>1, <2>2, ConstantsAssumption
    <3>3. \A n \in 2 .. i : n \div 2 \in 1 .. i  BY <1>1, ConstantsAssumption
    <3>. QED  BY <3>1, <3>2, <3>3, ConstantsAssumption DEF Chain
  <2>. QED  BY <2>1, <2>2
<1>13. OnlySentinelZero
  <2>1. K - 1 # K  BY ConstantsAssumption
  <2>. QED  BY <1>4, <1>5, <2>1 DEF OnlySentinelZero, Rec
<1>. QED
  BY <1>3, <1>6, <1>7, <1>8, <1>9, <1>10, <1>11, <1>12, <1>13 DEF IInv

\* A channel enters at its leaf, where the present champion stood.
LEMMA Entering ==
  ASSUME IInv, i = 0, NEW c \in Channels,
         win[K + c] = win[1], \A n \in Inner : l[n] # c,
         q'[c].time \in 1 .. TimeMod - 1,
         \A x \in 0 .. K : x # c => q'[x] = q[x],
         \A n \in Inner : l'[n] = l[n],
         i' = Father(c), s' = c, win' = Entered(win, c, q'[c].time)
  PROVE  Matches' /\ Local' /\ Chain' /\ OnlySentinelZero'
<1>. DEFINE a == K + c
<1>1. /\ a \in Nodes /\ a \notin Inner
      /\ i' \in 0 .. K - 1 /\ i' = a \div 2 /\ (i' = 0 <=> K = 1)
      /\ i' = 0 => a = 1
      /\ a \in Nat /\ i' \in Nat
  <2>1. /\ K + c \in Nodes /\ K + c \notin Inner
        /\ Father(c) \in 0 .. K - 1 /\ Father(c) = (K + c) \div 2
        /\ Father(c) = 0 <=> K = 1
        /\ Father(c) = 0 => K + c = 1
    BY Fathers, Zenon
  <2>. QED  BY <2>1, ConstantsAssumption DEF Channels
<1>2. /\ win' \in [Nodes -> [leaf : 0 .. K, time : 0 .. TimeMod - 1]]
      /\ win'[a] = [leaf |-> c, time |-> q'[c].time]
      /\ \A n \in Nodes : n # a => win'[n] = win[n]
  <2>1. win \in [Nodes -> [leaf : 0 .. K, time : 0 .. TimeMod - 1]]
    BY DEF IInv, TypeOK
  <2>2. [leaf |-> c, time |-> q'[c].time]
          \in [leaf : 0 .. K, time : 0 .. TimeMod - 1]
    BY ConstantsAssumption DEF Channels
  <2>3. win' = [win EXCEPT ![a] = [leaf |-> c, time |-> q'[c].time]]
    BY DEF Entered
  <2>. QED  BY <1>1, <2>1, <2>2, <2>3
<1>. HIDE DEF a
<1>3. ASSUME NEW n \in Inner
      PROVE  /\ n \in Nodes /\ n # a /\ 2 * n \in Nodes /\ 2 * n + 1 \in Nodes
             /\ n # i' => 2 * n # a /\ 2 * n + 1 # a
             /\ n = i' => 2 * n = a \/ 2 * n + 1 = a
             /\ n # 0 /\ n \in Nat
  BY <1>1, ConstantsAssumption DEF Inner, Nodes
<1>4. ASSUME NEW n \in Inner
      PROVE  Rec(l[n])' = Rec(l[n]) /\ Match(n, win[n])
  <2>1. l'[n] = l[n] /\ l[n] # c /\ l[n] \in 0 .. K
    <3>1. l \in [0 .. K -> 0 .. K]  BY DEF IInv, TypeOK
    <3>. QED  BY <3>1, ConstantsAssumption DEF Inner
  <2>2. Rec(l[n])' = Rec(l[n])  BY <2>1 DEF Rec
  <2>. QED  BY <1>3, <2>2 DEF IInv, Matches
<1>5. Rec(s)' = win'[a]  BY <1>2 DEF Rec
<1>6. ASSUME NEW n \in Inner
      PROVE  Match(n, IF n = i THEN Rec(s) ELSE win[n])'
  <2>1. CASE n # i'
    <3>1. /\ win'[2 * n] = win[2 * n] /\ win'[2 * n + 1] = win[2 * n + 1]
          /\ win'[n] = win[n]
      BY <1>2, <1>3, <2>1
    <3>. QED  BY <1>4, <2>1, <3>1 DEF Match
  <2>2. CASE n = i'
    <3>1. win[n] = win[1]
      <4>1. a \in 2 .. 2 * K - 1
        BY <1>1, <1>3, <2>2, ConstantsAssumption DEF Nodes
      <4>. QED  BY <1>1, <2>2, <4>1, OldChain DEF a
    <3>2. win[a] = win[n]  BY <3>1 DEF a
    <3>3. 2 * n # 2 * n + 1  BY <1>3
    <3>4. CASE 2 * n = a
      <4>1. win[2 * n + 1] = Rec(l[n])  BY <1>4, <3>2, <3>4 DEF Match
      <4>2. win'[2 * n + 1] = win[2 * n + 1]  BY <1>2, <1>3, <3>3, <3>4
      <4>. QED  BY <1>4, <1>5, <2>2, <3>4, <4>1, <4>2 DEF Match
    <3>5. CASE 2 * n + 1 = a
      <4>1. win[2 * n] = Rec(l[n])  BY <1>4, <3>2, <3>5 DEF Match
      <4>2. win'[2 * n] = win[2 * n]  BY <1>2, <1>3, <3>3, <3>5
      <4>. QED  BY <1>4, <1>5, <2>2, <3>5, <4>1, <4>2 DEF Match
    <3>. QED  BY <1>3, <2>2, <3>4, <3>5
  <2>. QED  BY <2>1, <2>2
<1>7. Matches'  BY <1>6 DEF Matches
<1>8. Local'
  <2>. SUFFICES ASSUME NEW n \in Inner, n # i'
                PROVE  /\ win'[n].time <= win'[2 * n].time
                       /\ win'[n].time <= win'[2 * n + 1].time
    BY DEF Local
  <2>1. /\ win'[2 * n] = win[2 * n] /\ win'[2 * n + 1] = win[2 * n + 1]
        /\ win'[n] = win[n]
    BY <1>2, <1>3
  <2>. QED  BY <1>3, <2>1 DEF IInv, Local
<1>9. Chain'
  <2>1. CASE i' = 0
    <3>1. \A n \in 2 .. i' : FALSE  BY <2>1
    <3>. QED  BY <1>1, <1>5, <2>1, <3>1 DEF Chain
  <2>2. CASE i' # 0
    <3>1. \A n \in 1 .. i' : n \in Nodes /\ n # a
      BY <1>1, ConstantsAssumption DEF Nodes, Inner
    <3>2. \A n \in 1 .. i' : win'[n] = win[n]  BY <1>2, <3>1
    <3>3. 1 \in 1 .. i' /\ i' \in 1 .. i'  BY <1>1, <2>2
    <3>4. win[i'] = win[1]
      <4>1. a \in 2 .. 2 * K - 1
        BY <1>1, <2>2, ConstantsAssumption DEF Nodes
      <4>. QED  BY <1>1, <4>1, OldChain DEF a
    <3>5. ASSUME NEW n \in 2 .. i', win'[n] = win'[1]
          PROVE  win'[n \div 2] = win'[1]
      <4>1. n \in 1 .. i' /\ n \div 2 \in 1 .. i' /\ n \in 2 .. 2 * K - 1
        BY <1>1, ConstantsAssumption
      <4>. QED  BY <3>2, <3>3, <3>5, <4>1, OldChain
    <3>. QED  BY <2>2, <3>2, <3>3, <3>4, <3>5 DEF Chain
  <2>. QED  BY <2>1, <2>2
<1>10. OnlySentinelZero'
  <2>1. c # K /\ q'[c].time # 0  BY ConstantsAssumption DEF Channels
  <2>. QED  BY <1>2, <2>1 DEF IInv, OnlySentinelZero
<1>. QED  BY <1>7, <1>8, <1>9, <1>10

LEMMA LoadStep == IInv /\ Load => Fresh'
<1>1. IInv => ret \in Nat \cup {ReachEnd}  BY DEF IInv, TypeOK
<1>. QED  BY <1>1 DEF Load, Fresh

\* One match: the winner of node i is the better of its two children.
LEMMA AdjustStep == ASSUME IInv, Adjust PROVE IInv'
<1>. DEFINE p == i \div 2
<1>0. TypeOK  BY DEF IInv
<1>1. /\ i \in Inner /\ i \in Nodes /\ i' = p /\ p \in 0 .. K - 1 /\ p < i
      /\ i \in Nat /\ p \in Nat /\ (p = 0 <=> i = 1)
      /\ p > 0 => p \in Inner /\ p \in Nodes /\ i \in 2 .. 2 * K - 1
      /\ i = 2 * p \/ i = 2 * p + 1
  <2>1. i \in 0 .. K - 1 /\ i > 0 /\ i' = p  BY <1>0 DEF Adjust, TypeOK
  <2>. QED  BY <2>1, ConstantsAssumption DEF Inner, Nodes
<1>. HIDE DEF p
<1>2. /\ q' = q /\ ptr' = ptr /\ data' = data /\ leaf' = leaf /\ pc' = pc
      /\ pc \in {"init", "pop"} /\ ptick' = ptick /\ ret' = ret
  BY DEF Adjust
<1>3. ASSUME NEW x \in 0 .. K PROVE Rec(x)' = Rec(x)
  BY <1>2 DEF Rec
<1>4. /\ s \in 0 .. K /\ l \in [0 .. K -> 0 .. K] /\ l[i] \in 0 .. K
      /\ i \in 0 .. K
  <2>1. i \in 0 .. K  BY <1>1, ConstantsAssumption DEF Inner
  <2>. QED  BY <1>0, <2>1 DEF TypeOK
<1>5. \A x \in 0 .. K : q[x].time \in 0 .. TimeMod - 1
  BY <1>0 DEF TypeOK, Ticks
\* The two players of the match, after it.
<1>6. /\ s' \in 0 .. K /\ l' \in [0 .. K -> 0 .. K] /\ l'[i] \in 0 .. K
      /\ \A n \in 0 .. K : n # i => l'[n] = l[n]
      /\ \/ s' = s /\ l'[i] = l[i]
         \/ s' = l[i] /\ l'[i] = s
      /\ q[s'].time <= q[l'[i]].time
  <2>1. CASE Beaten
    <3>1. s' = l[i] /\ l' = [l EXCEPT ![i] = s]  BY <2>1 DEF Adjust
    <3>2. q[l[i]].time <= q[s].time  BY <1>4, <1>5, <2>1 DEF Beaten
    <3>. QED  BY <1>4, <3>1, <3>2
  <2>2. CASE ~Beaten
    <3>1. s' = s /\ l' = l  BY <2>2 DEF Adjust
    <3>2. q[s].time <= q[l[i]].time  BY <1>4, <1>5, <2>2 DEF Beaten
    <3>. QED  BY <1>4, <3>1, <3>2
  <2>. QED  BY <2>1, <2>2
<1>7. /\ win' \in [Nodes -> [leaf : 0 .. K, time : 0 .. TimeMod - 1]]
      /\ win'[i] = Rec(s')
      /\ \A n \in Nodes : n # i => win'[n] = win[n]
  <2>1. win' = [win EXCEPT ![i] = Rec(s')]  BY DEF Adjust, Rec
  <2>2. Rec(s') \in [leaf : 0 .. K, time : 0 .. TimeMod - 1]
    BY <1>5, <1>6 DEF Rec
  <2>3. win \in [Nodes -> [leaf : 0 .. K, time : 0 .. TimeMod - 1]]
    BY <1>0 DEF TypeOK
  <2>. QED  BY <1>1, <2>1, <2>2, <2>3
<1>8. TypeOK'
  BY <1>0, <1>1, <1>2, <1>6, <1>7 DEF TypeOK
<1>9. Heads' /\ Labels'
  <2>1. Heads'
    <3>1. Heads  BY DEF IInv
    <3>. QED  BY <1>2, <3>1 DEF Heads
  <2>2. Labels'
    <3>1. Labels  BY DEF IInv
    <3>. QED  BY <1>2, <3>1 DEF Labels
  <2>. QED  BY <2>1, <2>2
<1>10. Leaves'
  <2>. SUFFICES ASSUME NEW c \in Channels
                PROVE  win'[K + c] = Rec(IF c < leaf THEN K ELSE c)'
    BY <1>2 DEF Leaves
  <2>0. K + c \in Nodes /\ K + c \notin Inner  BY Fathers, Zenon
  <2>1. K + c \in Nodes /\ K + c # i /\ c \in 0 .. K /\ K \in 0 .. K
    BY <1>1, <2>0, ConstantsAssumption DEF Channels
  <2>2. win[K + c] = Rec(IF c < leaf THEN K ELSE c)  BY DEF IInv, Leaves
  <2>. QED  BY <1>2, <1>3, <1>7, <2>1, <2>2
<1>11. Distinct'
  <2>1. \A n \in Inner : n \in 0 .. K  BY ConstantsAssumption DEF Inner
  <2>. QED  BY SMTT(30), <1>1, <1>2, <1>6, <2>1 DEF IInv, Distinct
<1>12. /\ \/ win'[2 * i] = Rec(s') /\ win'[2 * i + 1] = Rec(l'[i])
          \/ win'[2 * i] = Rec(l'[i]) /\ win'[2 * i + 1] = Rec(s')
       /\ 2 * i \in Nodes /\ 2 * i + 1 \in Nodes
  <2>1. Match(i, Rec(s))  BY <1>1 DEF IInv, Matches
  <2>2. /\ 2 * i \in Nodes /\ 2 * i + 1 \in Nodes
        /\ 2 * i # i /\ 2 * i + 1 # i
    BY <1>1, Fathers, ConstantsAssumption DEF Nodes
  <2>3. win'[2 * i] = win[2 * i] /\ win'[2 * i + 1] = win[2 * i + 1]
    BY <1>7, <2>2
  <2>. QED  BY <1>6, <2>1, <2>2, <2>3 DEF Match
<1>13. ASSUME NEW n \in Inner, n # i
       PROVE  /\ Match(n, win[n]) /\ l'[n] = l[n] /\ win'[n] = win[n]
              /\ Rec(l[n])' = Rec(l[n])
              /\ 2 * n \in Nodes /\ 2 * n + 1 \in Nodes
              /\ n # p => 2 * n # i /\ 2 * n + 1 # i
  <2>1. n \in 0 .. K /\ n \in Nodes /\ n \in Nat
    BY ConstantsAssumption DEF Inner, Nodes
  <2>2. l[n] \in 0 .. K  BY <1>4, <2>1
  <2>3. l'[n] = l[n] /\ win'[n] = win[n]  BY <1>6, <1>7, <1>13, <2>1
  <2>4. Match(n, win[n])  BY <1>13 DEF IInv, Matches
  <2>5. Rec(l[n])' = Rec(l[n])  BY <1>2, <2>3 DEF Rec
  <2>6. 2 * n \in Nodes /\ 2 * n + 1 \in Nodes
    BY Fathers, ConstantsAssumption DEF Nodes
  <2>7. n # p => 2 * n # i /\ 2 * n + 1 # i
    BY <1>1, <2>1, ConstantsAssumption DEF p
  <2>. QED  BY <2>3, <2>4, <2>5, <2>6, <2>7
<1>14. Matches'
  <2>. SUFFICES ASSUME NEW n \in Inner
                PROVE  Match(n, IF n = i THEN Rec(s) ELSE win[n])'
    BY DEF Matches
  <2>1. CASE n = i
    <3>1. i' # n  BY <1>1, <2>1
    <3>2. Rec(l[n])' = Rec(l'[i])  BY <1>2, <2>1 DEF Rec
    <3>. QED  BY <1>7, <1>12, <2>1, <3>1, <3>2 DEF Match
  <2>2. CASE n # i /\ n # p
    <3>1. win'[2 * n] = win[2 * n] /\ win'[2 * n + 1] = win[2 * n + 1]
      BY <1>7, <1>13, <2>2
    <3>. QED  BY <1>1, <1>13, <2>2, <3>1 DEF Match
  <2>3. CASE n = p
    <3>0. n # i /\ n \in Nat /\ p > 0 /\ 2 * n # 2 * n + 1
      BY <1>1, <2>3, ConstantsAssumption DEF Inner
    <3>1. win[i] = win[n]
      <4>1. i \in 2 .. i  BY <1>1, <3>0
      <4>2. win[i] = win[1]  BY <1>1 DEF IInv, Chain
      <4>. QED  BY <2>3, <4>1, <4>2 DEF IInv, Chain, p
    <3>2. Rec(s)' = Rec(s')  BY <1>2 DEF Rec
    <3>3. CASE i = 2 * n
      <4>1. win[2 * n + 1] = Rec(l[n])  BY <1>13, <3>0, <3>1, <3>3 DEF Match
      <4>2. win'[2 * n + 1] = win[2 * n + 1]
        BY <1>7, <1>13, <3>0, <3>3
      <4>. QED
        BY <1>1, <1>7, <1>13, <2>3, <3>0, <3>2, <3>3, <4>1, <4>2 DEF Match
    <3>4. CASE i = 2 * n + 1
      <4>1. win[2 * n] = Rec(l[n])  BY <1>13, <3>0, <3>1, <3>4 DEF Match
      <4>2. win'[2 * n] = win[2 * n]
        BY <1>7, <1>13, <3>0, <3>4
      <4>. QED
        BY <1>1, <1>7, <1>13, <2>3, <3>0, <3>2, <3>4, <4>1, <4>2 DEF Match
    <3>. QED  BY <1>1, <2>3, <3>3, <3>4
  <2>. QED  BY <2>1, <2>2, <2>3
<1>15. Local'
  <2>. SUFFICES ASSUME NEW n \in Inner, n # i'
                PROVE  /\ win'[n].time <= win'[2 * n].time
                       /\ win'[n].time <= win'[2 * n + 1].time
    BY DEF Local
  <2>1. CASE n = i
    <3>1. /\ Rec(s').time = q[s'].time /\ Rec(l'[i]).time = q[l'[i]].time
          /\ q[s'].time <= q[s'].time
      BY <1>5, <1>6 DEF Rec
    <3>. QED  BY <1>6, <1>7, <1>12, <2>1, <3>1
  <2>2. CASE n # i
    <3>1. win'[2 * n] = win[2 * n] /\ win'[2 * n + 1] = win[2 * n + 1]
      BY <1>1, <1>7, <1>13, <2>2
    <3>. QED  BY <1>13, <2>2, <3>1 DEF IInv, Local
  <2>. QED  BY <2>1, <2>2
<1>16. Chain'
  <2>0. 1 \in Nodes  BY ConstantsAssumption DEF Nodes
  <2>1. CASE p = 0
    <3>1. win'[1] = Rec(s)'  BY <1>1, <1>2, <1>7, <2>1 DEF Rec
    <3>2. \A n \in 2 .. i' : FALSE  BY <1>1, <2>1
    <3>. QED  BY <1>1, <2>1, <3>1, <3>2 DEF Chain
  <2>2. CASE p # 0
    <3>1. \A n \in 1 .. p : n \in Nodes /\ n # i
      BY <1>1, ConstantsAssumption DEF Nodes, Inner
    <3>2. \A n \in 1 .. p : win'[n] = win[n]  BY <1>7, <3>1
    <3>3. 1 \in 1 .. p /\ p \in 1 .. p  BY <1>1, <2>2
    <3>4. win[i] = win[1]  BY <1>1 DEF IInv, Chain
    <3>5. i \in 2 .. i  BY <1>1, <2>2
    <3>6. win[p] = win[1]  BY <3>4, <3>5 DEF IInv, Chain, p
    <3>7. ASSUME NEW n \in 2 .. p, win'[n] = win'[1]
          PROVE  win'[n \div 2] = win'[1]
      <4>1. n \in 1 .. p /\ n \div 2 \in 1 .. p /\ n \in 2 .. i
        BY <1>1
      <4>2. win[n] = win[1]  BY <3>2, <3>3, <3>7, <4>1
      <4>3. win[n \div 2] = win[1]  BY <4>1, <4>2 DEF IInv, Chain
      <4>. QED  BY <3>2, <3>3, <4>1, <4>3
    <3>. QED  BY <1>1, <2>2, <3>2, <3>3, <3>6, <3>7 DEF Chain
  <2>. QED  BY <2>1, <2>2
<1>17. OnlySentinelZero'
  <2>1. \A x \in 0 .. K : x = K <=> q[x].time = 0
    <3>1. Heads  BY DEF IInv
    <3>2. \A x \in 0 .. K : x = K \/ x \in Channels
      BY ConstantsAssumption DEF Channels
    <3>3. K \notin Channels  BY ConstantsAssumption DEF Channels
    <3>. QED  BY <1>0, <3>1, <3>2, <3>3, Times0
  <2>2. win'[i].leaf = K <=> win'[i].time = 0
    BY <1>6, <1>7, <2>1 DEF Rec
  <2>. QED  BY <1>7, <2>2 DEF IInv, OnlySentinelZero
<1>. QED
  BY <1>8, <1>9, <1>10, <1>11, <1>14, <1>15, <1>16, <1>17 DEF IInv

\* After an adjustment l[0] is written; while the tree is being built, the
\* sentinel has then won, and the next channel enters in its place.
LEMMA PlacedStep == ASSUME IInv, Placed PROVE IInv'
<1>0. TypeOK /\ Heads  BY DEF IInv
<1>1. /\ q' = q /\ ptr' = ptr /\ data' = data /\ ptick' = ptick
      /\ ret' = ret /\ pc = "init" /\ i = 0 /\ l' = [l EXCEPT ![0] = s]
  BY DEF Placed
<1>2. /\ l' \in [0 .. K -> 0 .. K] /\ l'[0] = s
      /\ \A n \in Inner : l'[n] = l[n]
  <2>1. l \in [0 .. K -> 0 .. K] /\ s \in 0 .. K  BY <1>0 DEF TypeOK
  <2>. QED  BY <1>1, <2>1, Players
<1>3. Heads'
  BY <1>0, <1>1 DEF Heads
<1>4. CASE leaf = 0
  <2>1. pc' = "idle" /\ leaf' = leaf /\ i' = i /\ s' = s /\ win' = win
    BY <1>4 DEF Placed
  <2>2. TypeOK'  BY <1>0, <1>1, <1>2, <2>1 DEF TypeOK
  <2>3. Labels'  BY <1>1, <1>2, <1>4, <2>1 DEF IInv, Labels
  <2>4. \A x : Rec(x)' = Rec(x)  BY <1>1 DEF Rec
  <2>5. Leaves'  BY <2>1, <2>4 DEF IInv, Leaves
  <2>6. Distinct'  BY <1>2, <2>1 DEF IInv, Distinct
  <2>7. \A n \in Inner : Rec(l[n])' = Rec(l[n])  BY <1>1, <1>2 DEF Rec
  <2>8. Matches'
    BY <1>1, <2>1, <2>4, <2>7 DEF IInv, Matches, Match
  <2>9. Local' /\ OnlySentinelZero'
    BY <1>1, <2>1 DEF IInv, Local, OnlySentinelZero
  <2>10. Chain'
    <3>1. Rec(s)' = Rec(s)  BY <1>1, <2>1 DEF Rec
    <3>. QED  BY <2>1, <3>1 DEF IInv, Chain
  <2>. QED
    BY <1>3, <2>2, <2>3, <2>5, <2>6, <2>8, <2>9, <2>10 DEF IInv
<1>5. CASE leaf # 0
  <2>. DEFINE c == leaf - 1
  <2>1. /\ c \in Channels /\ c < leaf /\ K + c \in Nodes /\ 1 \in Nodes
        /\ c \in 0 .. K /\ K \in 0 .. K /\ leaf \in Nat
    BY <1>0, <1>5, Fathers, ConstantsAssumption
    DEF TypeOK, Channels, Nodes
  <2>2. /\ leaf' = c /\ s' = c /\ i' = Father(c) /\ pc' = pc
        /\ win' = Entered(win, c, q[c].time)
    BY <1>5 DEF Placed
  <2>. HIDE DEF c
  <2>3. win[K + c] = Rec(K)  BY <2>1 DEF IInv, Leaves
  <2>4. win[1] = Rec(s)  BY <1>1 DEF IInv, Chain
  <2>5. s = K
    <3>1. win[1].time <= win[K + c].time
      BY <1>1, <2>1, RootLeast DEF IInv
    <3>2. q[s].time <= 0  BY <1>0, <2>3, <2>4, <3>1, Times0 DEF Rec
    <3>3. s \in 0 .. K  BY <1>0 DEF TypeOK
    <3>4. s \in Channels => q[s].time > 0
      BY <1>0, Times0, ConstantsAssumption
    <3>5. s \notin Channels
      <4>1. q[s].time \in 0 .. TimeMod - 1
        BY <1>0, <3>3 DEF TypeOK, Ticks
      <4>. QED  BY <3>2, <3>4, <4>1, ConstantsAssumption
    <3>. QED  BY <3>3, <3>5, Players
  <2>6. q'[c].time = q[c].time /\ q[c].time \in 1 .. TimeMod - 1
    BY <1>0, <1>1, <2>1, Times0
  <2>7. \A n \in Inner : l[n] # c /\ l[n] >= c
    <3>1. \A n \in Inner : l[n] >= leaf /\ l[n] \in Nat
      BY SMTT(30), <1>0, ConstantsAssumption DEF IInv, Distinct, TypeOK, Inner
    <3>. QED  BY <2>1, <3>1, ConstantsAssumption DEF Channels
  <2>8. Matches' /\ Local' /\ Chain' /\ OnlySentinelZero'
    BY <1>1, <1>2, <2>1, <2>2, <2>3, <2>4, <2>5, <2>6, <2>7, Entering
  <2>9. /\ win' \in [Nodes -> [leaf : 0 .. K, time : 0 .. TimeMod - 1]]
        /\ win'[K + c] = [leaf |-> c, time |-> q[c].time]
        /\ \A n \in Nodes : n # K + c => win'[n] = win[n]
    <3>1. win \in [Nodes -> [leaf : 0 .. K, time : 0 .. TimeMod - 1]]
      BY <1>0 DEF TypeOK
    <3>2. [leaf |-> c, time |-> q[c].time]
            \in [leaf : 0 .. K, time : 0 .. TimeMod - 1]
      BY <2>1, <2>6, ConstantsAssumption
    <3>. QED  BY <2>1, <2>2, <3>1, <3>2 DEF Entered
  <2>10. TypeOK'
    <3>1. i' \in 0 .. K - 1  BY <2>1, <2>2, Fathers
    <3>. QED  BY <1>0, <1>1, <1>2, <2>1, <2>2, <2>9, <3>1 DEF TypeOK
  <2>11. Labels'  BY <1>1, <2>2 DEF IInv, Labels
  <2>12. Leaves'
    <3>. SUFFICES ASSUME NEW d \in Channels
                  PROVE  win'[K + d] = Rec(IF d < leaf THEN K ELSE d)'
      BY DEF Leaves
    <3>0. \A x : Rec(x)' = Rec(x)  BY <1>1 DEF Rec
    <3>1. CASE d = c
      BY <1>1, <2>1, <2>2, <2>9, <3>1, ConstantsAssumption
      DEF Rec, Channels
    <3>2. CASE d # c
      <4>1. K + d \in Nodes /\ K + d # K + c
        BY <2>1, <3>2, Players
      <4>2. d < leaf <=> d < c
        BY <2>1, <3>2, ConstantsAssumption DEF Channels, c
      <4>3. win[K + d] = Rec(IF d < leaf THEN K ELSE d)
        BY DEF IInv, Leaves
      <4>. QED  BY <1>1, <2>2, <2>9, <4>1, <4>2, <4>3 DEF Rec
    <3>. QED  BY <3>1, <3>2
  <2>13. Distinct'
    <3>1. c >= c  BY <2>1, Players
    <3>. QED  BY <1>2, <2>2, <2>7, <3>1 DEF IInv, Distinct
  <2>. QED  BY <1>3, <2>8, <2>10, <2>11, <2>12, <2>13 DEF IInv
<1>. QED  BY <1>4, <1>5

\* The champion of a tree at rest: a channel, at its next tick or its end.
LEMMA Champion ==
  ASSUME IInv, pc \in {"idle", "ended"}
  PROVE  /\ i = 0 /\ leaf = 0 /\ s = l[0] /\ s \in Channels
         /\ win[1] = Rec(s) /\ win[K + s] = win[1]
         /\ \A n \in Inner : l[n] # s
         /\ \A c \in Channels : q[s].time <= q[c].time
<1>1. i = 0 /\ leaf = 0 /\ s = l[0]  BY DEF IInv, Labels
<1>2. s \in Channels  BY <1>1, ChampionReal
<1>3. win[1] = Rec(s)  BY <1>1 DEF IInv, Chain
<1>4. \A c \in Channels : win[K + c] = Rec(c) /\ K + c \in Nodes
  <2>1. \A c \in Channels : ~(c < leaf)
    BY <1>1, ConstantsAssumption DEF Channels
  <2>. QED  BY <2>1, Players DEF IInv, Leaves
<1>5. \A n \in Inner : l[n] # s
  BY <1>2, ConstantsAssumption DEF IInv, Distinct, Channels
<1>6. ASSUME NEW c \in Channels PROVE q[s].time <= q[c].time
  <2>1. win[1].time <= win[K + c].time
    BY <1>1, <1>4, RootLeast DEF IInv
  <2>2. win[1].time = q[s].time /\ win[K + c].time = q[c].time
    <3>1. Rec(s).time = q[s].time /\ Rec(c).time = q[c].time  BY DEF Rec
    <3>. QED  BY <1>3, <1>4, <3>1, Zenon
  <2>. QED  BY <2>1, <2>2
<1>. QED  BY <1>1, <1>2, <1>3, <1>4, <1>5, <1>6

\* What pop_tick() does to the channel of the champion.
LEMMA Refill ==
  ASSUME IInv, Pop
  PROVE  /\ s \in Channels /\ l[0] = s
         /\ ptr[s] \in 1 .. Len(data[s]) /\ Len(data[s]) \in Nat
         /\ q[s] = [time |-> data[s][ptr[s]] + 1, column |-> s,
                    row |-> ptr[s] - 1]
         /\ ptick' = [col |-> s, row |-> ptr[s] - 1]
         /\ i' = Father(s) /\ s' = s /\ pc' = "pop"
         /\ win' = Entered(win, s, q'[s].time)
         /\ q' \in [0 .. K -> Ticks] /\ ptr' \in [Channels -> Nat]
         /\ \A x \in 0 .. K : x # s => q'[x] = q[x]
         /\ \A c \in Channels : c # s => ptr'[c] = ptr[c]
         /\ q'[s].time \in 1 .. TimeMod - 1
         /\ \/ /\ ptr[s] + 1 \in 1 .. Len(data[s]) /\ ptr'[s] = ptr[s] + 1
               /\ data[s][ptr[s] + 1] \in Times
               /\ q'[s] = [time |-> data[s][ptr[s] + 1] + 1, column |-> s,
                           row |-> ptr[s]]
            \/ ptr[s] = Len(data[s]) /\ q'[s] = FillTick /\ ptr' = ptr
<1>. USE DEF None
<1>0. TypeOK /\ Heads  BY DEF IInv
<1>1. s \in Channels /\ l[0] = s /\ pc = "idle" /\ q[s].column # None
  BY Champion DEF Pop
<1>2. /\ ptr[s] \in 1 .. Len(data[s])
      /\ q[s] = [time |-> data[s][ptr[s]] + 1, column |-> s,
                 row |-> ptr[s] - 1]
  <2>1. q[s] # FillTick  BY <1>1 DEF FillTick
  <2>. QED  BY <1>0, <1>1, <2>1, Zenon DEF Heads
<1>3. data \in Inputs /\ data[s] \in Seq(Times)
  BY <1>0, <1>1, ConstantsAssumption DEF TypeOK
<1>4. Len(data[s]) \in Nat /\ ptr[s] \in Nat  BY <1>2, <1>3
<1>5. q[s].column = s /\ q[s].row = ptr[s] - 1  BY <1>2
<1>. DEFINE more == MoreRows(s, ptr[s] - 1)
<1>6. /\ ptick' = [col |-> s, row |-> ptr[s] - 1]
      /\ q' = [q EXCEPT ![s] = IF more
                  THEN Convert(data, s, ptr[s], ptr[s] - 1 + 1) ELSE FillTick]
      /\ ptr' = IF more THEN [ptr EXCEPT ![s] = @ + 1] ELSE ptr
      /\ i' = Father(s) /\ s' = s /\ pc' = "pop"
      /\ win' = Entered(win, s, q'[s].time)
  BY <1>1, <1>5 DEF Pop
<1>7. more <=> ptr[s] < Len(data[s])  BY <1>4 DEF MoreRows
<1>8. q \in [0 .. K -> Ticks] /\ ptr \in [Channels -> Nat] /\ s \in 0 .. K
  BY <1>0, <1>1, Players DEF TypeOK
<1>9. CASE more
  <2>1. /\ ptr[s] \in 0 .. Len(data[s]) - 1 /\ ptr[s] - 1 + 1 = ptr[s]
        /\ ptr[s] + 1 \in 1 .. Len(data[s])
    BY <1>4, <1>7, <1>9
  <2>2. /\ data[s][ptr[s] + 1] \in Times
        /\ Convert(data, s, ptr[s], ptr[s]) =
             [time |-> data[s][ptr[s] + 1] + 1, column |-> s, row |-> ptr[s]]
    BY <1>1, <1>3, <2>1, ConvertTick
  <2>. DEFINE tick == [time |-> data[s][ptr[s] + 1] + 1, column |-> s,
                       row |-> ptr[s]]
  <2>3. q' = [q EXCEPT ![s] = tick] /\ ptr' = [ptr EXCEPT ![s] = @ + 1]
    BY <1>6, <1>9, <2>1, <2>2
  <2>4. tick.time \in 1 .. TimeMod - 1 /\ tick \in Ticks
    BY <1>1, <1>4, <2>2, ConstantsAssumption DEF Ticks, Times
  <2>. HIDE DEF tick
  <2>5. /\ q' \in [0 .. K -> Ticks] /\ q'[s] = tick
        /\ \A x \in 0 .. K : x # s => q'[x] = q[x]
    BY <1>8, <2>3, <2>4
  <2>6. /\ ptr' \in [Channels -> Nat] /\ ptr'[s] = ptr[s] + 1
        /\ \A c \in Channels : c # s => ptr'[c] = ptr[c]
    BY <1>1, <1>8, <2>3
  <2>. QED
    BY <1>1, <1>2, <1>4, <1>6, <2>1, <2>2, <2>4, <2>5, <2>6 DEF tick
<1>10. CASE ~more
  <2>1. q' = [q EXCEPT ![s] = FillTick] /\ ptr' = ptr  BY <1>6, <1>10
  <2>2. FillTick \in Ticks /\ FillTick.time \in 1 .. TimeMod - 1
    BY ConstantsAssumption DEF FillTick, Ticks
  <2>3. /\ q' \in [0 .. K -> Ticks] /\ q'[s] = FillTick
        /\ \A x \in 0 .. K : x # s => q'[x] = q[x]
    BY <1>8, <2>1, <2>2
  <2>4. ptr[s] = Len(data[s])  BY <1>2, <1>4, <1>7, <1>10
  <2>. QED  BY <1>1, <1>2, <1>4, <1>6, <1>8, <2>1, <2>2, <2>3, <2>4
<1>. QED  BY <1>9, <1>10

LEMMA PopStep == ASSUME IInv, Pop PROVE IInv'
<1>0. TypeOK /\ Heads  BY DEF IInv
<1>1. data' = data /\ l' = l /\ ret' = ret /\ leaf' = leaf /\ pc = "idle"
  BY DEF Pop
<1>2. /\ i = 0 /\ leaf = 0 /\ win[K + s] = win[1]
      /\ \A n \in Inner : l[n] # s
  BY <1>1, Champion
<1>3. Matches' /\ Local' /\ Chain' /\ OnlySentinelZero'
  BY <1>1, <1>2, Refill, Entering
<1>4. /\ win' \in [Nodes -> [leaf : 0 .. K, time : 0 .. TimeMod - 1]]
      /\ win'[K + s] = [leaf |-> s, time |-> q'[s].time]
      /\ \A n \in Nodes : n # K + s => win'[n] = win[n]
  <2>1. win \in [Nodes -> [leaf : 0 .. K, time : 0 .. TimeMod - 1]]
    BY <1>0 DEF TypeOK
  <2>2. s \in 0 .. K /\ K + s \in Nodes  BY Refill, Players
  <2>3. [leaf |-> s, time |-> q'[s].time]
          \in [leaf : 0 .. K, time : 0 .. TimeMod - 1]
    BY <2>2, Refill, ConstantsAssumption
  <2>. QED  BY <2>1, <2>2, <2>3, Refill DEF Entered
<1>5. TypeOK'
  <2>1. i' \in 0 .. K - 1  BY Refill, Fathers, Zenon
  <2>2. ptick' \in [col : Channels \cup {None}, row : Nat \cup {None}]
    BY Refill
  <2>. QED  BY <1>0, <1>1, <1>4, <2>1, <2>2, Refill DEF TypeOK
<1>6. Heads'
  <2>1. q'[K] = Sentinel  BY <1>0, Refill, Players DEF Heads
  <2>2. ASSUME NEW c \in Channels
        PROVE  \/ /\ ptr'[c] \in 1 .. Len(data[c])
                  /\ q'[c] = [time |-> data[c][ptr'[c]] + 1, column |-> c,
                              row |-> ptr'[c] - 1]
               \/ q'[c] = FillTick
    <3>1. CASE c # s
      <4>1. c \in 0 .. K  BY Players
      <4>2. q'[c] = q[c] /\ ptr'[c] = ptr[c]  BY <3>1, <4>1, Refill
      <4>3. \/ /\ ptr[c] \in 1 .. Len(data[c])
               /\ q[c] = [time |-> data[c][ptr[c]] + 1, column |-> c,
                          row |-> ptr[c] - 1]
            \/ q[c] = FillTick
        BY <1>0, Zenon DEF Heads
      <4>. QED  BY <4>2, <4>3, Zenon
    <3>2. CASE c = s
      <4>1. ptr[s] + 1 - 1 = ptr[s]  BY Refill
      <4>. QED  BY <3>2, <4>1, Refill
    <3>. QED  BY <3>1, <3>2
  <2>. QED  BY <1>1, <2>1, <2>2 DEF Heads
<1>7. Labels'
  BY <1>1, <1>2, Refill DEF Labels
<1>8. Leaves'
  <2>. SUFFICES ASSUME NEW c \in Channels
                PROVE  win'[K + c] = Rec(IF c < leaf THEN K ELSE c)'
    BY DEF Leaves
  <2>1. ~(c < leaf) /\ ~(c < leaf')
    BY <1>1, <1>2, ConstantsAssumption DEF Channels
  <2>2. CASE c = s  BY <1>4, <2>1, <2>2 DEF Rec
  <2>3. CASE c # s
    <3>1. K + c \in Nodes /\ K + c # K + s /\ c \in 0 .. K
      BY <2>3, Refill, Players
    <3>2. win[K + c] = Rec(c)  BY <2>1 DEF IInv, Leaves
    <3>3. q'[c] = q[c]  BY <2>3, <3>1, Refill
    <3>. QED  BY <1>4, <2>1, <3>1, <3>2, <3>3 DEF Rec
  <2>. QED  BY <2>2, <2>3
<1>9. Distinct'
  <2>1. s' = s  BY Refill
  <2>. QED  BY <1>1, <2>1 DEF IInv, Distinct
<1>. QED  BY <1>3, <1>5, <1>6, <1>7, <1>8, <1>9 DEF IInv

\* Steps that leave the tree as it is, but for l[0].
LEMMA RestStep ==
  ASSUME IInv, i = 0,
         UNCHANGED <<data, ptr, q, leaf, i, s, win>>,
         l' \in [0 .. K -> 0 .. K], \A n \in Inner : l'[n] = l[n],
         ptick' \in [col : Channels \cup {None}, row : Nat \cup {None}],
         ret' \in Nat \cup {ReachEnd},
         pc' \in {"init", "idle", "pop", "ended"}, Labels'
  PROVE  IInv'
<1>1. TypeOK'  BY DEF IInv, TypeOK
<1>2. \A x : Rec(x)' = Rec(x)  BY DEF Rec
<1>3. \A n \in Inner : Rec(l[n])' = Rec(l[n])  BY DEF Rec
<1>4. Heads'  BY DEF IInv, Heads
<1>5. Leaves'  BY <1>2 DEF IInv, Leaves
<1>6. Distinct'  BY DEF IInv, Distinct
<1>7. Matches'
  <2>1. Rec(s)' = Rec(s)  BY DEF Rec
  <2>. QED  BY <1>3, <2>1 DEF IInv, Matches, Match
<1>8. Local' /\ OnlySentinelZero'
  BY DEF IInv, Local, OnlySentinelZero
<1>9. Chain'
  <2>1. Rec(s)' = Rec(s)  BY DEF Rec
  <2>. QED  BY <2>1 DEF IInv, Chain
<1>. QED
  BY <1>1, <1>4, <1>5, <1>6, <1>7, <1>8, <1>9 DEF IInv

LEMMA ReturnStep == ASSUME IInv, Return PROVE IInv'
<1>1. /\ pc = "pop" /\ i = 0 /\ l' = [l EXCEPT ![0] = s]
      /\ ret' = Encode(ptick.row, ptick.col) /\ pc' = "idle"
      /\ UNCHANGED <<data, ptr, q, leaf, i, s, win>> /\ ptick' = ptick
  BY DEF Return
<1>2. l \in [0 .. K -> 0 .. K] /\ s \in 0 .. K  BY DEF IInv, TypeOK
<1>3. /\ l' \in [0 .. K -> 0 .. K] /\ l'[0] = s
      /\ \A n \in Inner : l'[n] = l[n]
  BY <1>1, <1>2, Players
<1>4. ptick.col \in Channels /\ ptick.row \in Nat /\ leaf = 0
  BY <1>1 DEF IInv, Labels
<1>5. ret' \in Nat
  <2>1. ptick.row % RowMod \in Nat  BY <1>4, ConstantsAssumption
  <2>. DEFINE r == ptick.row % RowMod
  <2>. HIDE DEF r
  <2>2. r \in Nat => r * MaxChannelCnt \in Nat  BY ConstantsAssumption
  <2>3. r * MaxChannelCnt \in Nat  BY <2>1, <2>2 DEF r
  <2>4. ptick.col \in Nat  BY <1>4, Players
  <2>5. ret' = r * MaxChannelCnt + ptick.col  BY <1>1 DEF Encode, r
  <2>. QED  BY <2>3, <2>4, <2>5
<1>6. Labels'  BY <1>1, <1>3, <1>4 DEF Labels
<1>7. ptick' \in [col : Channels \cup {None}, row : Nat \cup {None}]
  BY <1>1 DEF IInv, TypeOK
<1>. QED  BY <1>1, <1>3, <1>5, <1>6, <1>7, RestStep

LEMMA PopEndStep == ASSUME IInv, PopEnd PROVE IInv'
<1>1. /\ pc \in {"idle", "ended"} /\ ptick' = [col |-> None, row |-> None]
      /\ ret' = ReachEnd /\ pc' = "ended"
      /\ UNCHANGED <<data, ptr, q, l, leaf, i, s, win>>
  BY DEF PopEnd
<1>2. i = 0 /\ s = l[0] /\ leaf = 0  BY <1>1 DEF IInv, Labels
<1>3. l \in [0 .. K -> 0 .. K]  BY DEF IInv, TypeOK
<1>4. Labels'  BY <1>1, <1>2 DEF Labels
<1>. QED  BY <1>1, <1>2, <1>3, <1>4, RestStep

LEMMA InitFresh == Init => Fresh
BY DEF Init, Fresh

\* IInv holds in every state of every behaviour.
THEOREM Invariance == Spec => []IInv
<1>1. Init => IInv  BY InitFresh, FreshGood
<1>2. IInv /\ Load => IInv'  BY LoadStep, FreshGood, PTL
<1>3. IInv /\ [Next]_vars => IInv'
  <2>. SUFFICES ASSUME IInv, [Next]_vars PROVE IInv'  OBVIOUS
  <2>1. CASE Load  BY <1>2, <2>1
  <2>2. CASE Adjust  BY <2>2, AdjustStep
  <2>3. CASE Placed  BY <2>3, PlacedStep
  <2>4. CASE Pop  BY <2>4, PopStep
  <2>5. CASE Return  BY <2>5, ReturnStep
  <2>6. CASE PopEnd  BY <2>6, PopEndStep
  <2>7. CASE UNCHANGED vars
    <3>. USE <2>7 DEF vars
    <3>1. \A x : Rec(x)' = Rec(x)  BY DEF Rec
    <3>2. Rec(s)' = Rec(s) /\ \A n : Rec(l[n])' = Rec(l[n])  BY DEF Rec
    <3>3. TypeOK' /\ Heads' /\ Labels' /\ Distinct' /\ Local'
          /\ OnlySentinelZero'
      BY DEF IInv, TypeOK, Heads, Labels, Distinct, Local,
             OnlySentinelZero
    <3>4. Leaves'  BY <3>1 DEF IInv, Leaves
    <3>5. Matches'  BY <3>2 DEF IInv, Matches, Match
    <3>6. Chain'  BY <3>2 DEF IInv, Chain
    <3>. QED  BY <3>3, <3>4, <3>5, <3>6 DEF IInv
  <2>. QED  BY <2>1, <2>2, <2>3, <2>4, <2>5, <2>6, <2>7 DEF Next
<1>. QED  BY <1>1, <1>3, PTL DEF Spec

\* The tree, its ticks and the call in progress keep their types.
THEOREM TypeCorrect == Spec => []TypeOK
<1>1. IInv => TypeOK  BY DEF IInv
<1>. QED  BY <1>1, Invariance, PTL

-----------------------------------------------------------------------------
(* The merge *)

\* The ticks popped from a channel, as pointer and as row.
LEMMA GivenTicks ==
  ASSUME IInv, NEW c \in Channels
  PROVE  /\ Len(data[c]) \in Nat /\ Given(c) \in 0 .. Len(data[c])
         /\ \/ /\ q[c] = FillTick /\ q[c].column = None
               /\ Given(c) = Len(data[c])
            \/ /\ q[c].column # None /\ Given(c) = ptr[c] - 1
               /\ Given(c) < Len(data[c])
               /\ data[c][Given(c) + 1] \in Times
               /\ q[c].row = Given(c)
               /\ q[c].time = data[c][Given(c) + 1] + 1
<1>. USE DEF None
<1>1. data[c] \in Seq(Times)  BY ConstantsAssumption DEF IInv, TypeOK
<1>2. Len(data[c]) \in Nat  BY <1>1
<1>3. CASE q[c] = FillTick
  BY <1>2, <1>3 DEF FillTick, Given
<1>4. CASE q[c] # FillTick
  <2>1. /\ ptr[c] \in 1 .. Len(data[c])
        /\ q[c] = [time |-> data[c][ptr[c]] + 1, column |-> c,
                   row |-> ptr[c] - 1]
    BY <1>4, Zenon DEF IInv, Heads
  <2>2. q[c].column # None  BY <2>1, Players
  <2>3. Given(c) = ptr[c] - 1 /\ Given(c) + 1 = ptr[c]
    BY <1>2, <2>1, <2>2 DEF Given
  <2>4. data[c][ptr[c]] \in Times  BY <1>1, <2>1
  <2>. QED  BY <1>2, <2>1, <2>2, <2>3, <2>4
<1>. QED  BY <1>3, <1>4

Taken == [c \in Channels |-> Given(c)]

Untouched ==
  /\ Taken = [c \in Channels |-> 0] /\ ~Started
  /\ ptick = [col |-> 0, row |-> 0] /\ data \in Inputs

LEMMA FreshTaken == Fresh => Untouched
<1>. SUFFICES ASSUME Fresh
              PROVE  Taken = [c \in Channels |-> 0] /\ ~Started
  BY DEF Fresh, Untouched
<1>1. IInv  BY FreshGood
<1>2. \A c \in Channels : q[c].column = c /\ q[c].row = 0
  BY <1>1 DEF IInv, Labels, Fresh
<1>3. \A c \in Channels : Given(c) = 0
  BY <1>2, Players DEF Given, None
<1>. QED  BY <1>3 DEF Taken, Started

LEMMA LoadTakes == IInv /\ Load => Untouched'
BY LoadStep, FreshTaken, PTL

\* One pop takes one tick, an earliest of those that are first.
LEMMA PopTakes ==
  ASSUME IInv, Pop
  PROVE  /\ s \in Channels /\ Given(s) < Len(data[s])
         /\ \A d \in Channels : Given(d) < Len(data[d]) =>
              data[s][Given(s) + 1] <= data[d][Given(d) + 1]
         /\ ptick' = [col |-> s, row |-> Given(s)] /\ data' = data
         /\ Taken' = [Taken EXCEPT ![s] = Given(s) + 1]
<1>. USE DEF None
<1>1. /\ s \in Channels /\ pc = "idle" /\ data' = data
      /\ q[s].column # None
      /\ \A d \in Channels : q[s].time <= q[d].time
  <2>1. q[l[0]].column # None /\ pc = "idle" /\ data' = data  BY DEF Pop
  <2>. QED  BY <2>1, Champion
<1>2. /\ Given(s) = ptr[s] - 1 /\ Given(s) < Len(data[s])
      /\ q[s].time = data[s][Given(s) + 1] + 1
      /\ data[s][Given(s) + 1] \in Times
  BY <1>1, GivenTicks
<1>3. ASSUME NEW d \in Channels, Given(d) < Len(data[d])
      PROVE  data[s][Given(s) + 1] <= data[d][Given(d) + 1]
  <2>1. /\ data[d][Given(d) + 1] \in Times
        /\ q[d].time = data[d][Given(d) + 1] + 1
    BY <1>3, GivenTicks
  <2>2. q[s].time <= q[d].time  BY <1>1
  <2>. QED  BY <1>2, <2>1, <2>2 DEF Times
<1>4. ptick' = [col |-> s, row |-> Given(s)]  BY <1>2, Refill
<1>5. ASSUME NEW d \in Channels
      PROVE  Given(d)' = IF d = s THEN Given(s) + 1 ELSE Given(d)
  <2>1. CASE d = s
    <3>1. ptr[s] \in Nat /\ Len(data[s]) \in Nat  BY Refill
    <3>2. CASE q'[s] = FillTick /\ ptr[s] = Len(data[s])
      <4>1. q'[s].column = None  BY <3>2 DEF FillTick
      <4>. QED  BY <1>1, <1>2, <2>1, <3>1, <3>2, <4>1 DEF Given
    <3>3. CASE q'[s] = [time |-> data[s][ptr[s] + 1] + 1, column |-> s,
                        row |-> ptr[s]]
      <4>1. q'[s].column = s /\ q'[s].row = ptr[s] /\ s # None
        BY <1>1, <3>3, Players
      <4>. QED  BY <1>2, <2>1, <3>1, <4>1 DEF Given
    <3>. QED  BY <3>2, <3>3, Refill
  <2>2. CASE d # s
    <3>1. d \in 0 .. K  BY Players
    <3>2. q'[d] = q[d]  BY <2>2, <3>1, Refill
    <3>. QED  BY <1>1, <2>2, <3>2 DEF Given
  <2>. QED  BY <2>1, <2>2
<1>6. Taken' = [Taken EXCEPT ![s] = Given(s) + 1]
  BY <1>1, <1>5 DEF Taken
<1>. QED  BY <1>1, <1>2, <1>3, <1>4, <1>6

\* The end is reported when every channel is empty.
LEMMA EndOfAll ==
  ASSUME IInv, pc = "idle", q[l[0]].column = None
  PROVE  \A c \in Channels : Given(c) = Len(data[c])
<1>1. s \in Channels /\ \A c \in Channels : q[s].time <= q[c].time
  BY Champion
<1>2. q[s] = FillTick  BY <1>1, Champion, GivenTicks
<1>. SUFFICES ASSUME NEW c \in Channels PROVE Given(c) = Len(data[c])
  OBVIOUS
<1>3. TimeMod - 1 <= q[c].time  BY <1>1, <1>2 DEF FillTick
<1>4. CASE q[c].column # None
  <2>1. /\ q[c].time = data[c][Given(c) + 1] + 1
        /\ data[c][Given(c) + 1] \in Times
    BY <1>4, GivenTicks
  <2>. QED  BY <1>3, <2>1, ConstantsAssumption DEF Times
<1>. QED  BY <1>4, GivenTicks

\* The loser tree implements the merge, for any number of channels.
THEOREM TreeImplementsMerge == Spec => ImplementsMerge
<1>. USE DEF Service!Init, Service!Next, Service!vars, Service!Load,
             Service!Pop, Service!End, Service!Left, Service!First
<1>1. Init => Service!Init
  <2>1. Init => Fresh  BY InitFresh
  <2>2. Fresh => Service!Init  BY FreshTaken DEF Taken, Untouched
  <2>. QED  BY <2>1, <2>2
<1>2. IInv /\ [Next]_vars => [Service!Next]_(Service!vars)
  <2>. SUFFICES ASSUME IInv, [Next]_vars
                PROVE  Service!Next \/ UNCHANGED Service!vars
    OBVIOUS
  <2>1. ASSUME UNCHANGED <<data, q, ptick>> PROVE UNCHANGED Service!vars
    <3>1. \A c \in Channels : Given(c)' = Given(c)  BY <2>1 DEF Given
    <3>. QED  BY <2>1, <3>1
  <2>2. CASE Load
    <3>1. /\ Taken' = [c \in Channels |-> 0] /\ data' \in Inputs
          /\ ptick' = [col |-> 0, row |-> 0]
      BY <2>2, LoadTakes DEF Untouched
    <3>. QED  BY <3>1 DEF Taken
  <2>3. CASE Pop
    <3>1. Service!Pop(s)
      <4>1. Taken[s] = Given(s)  BY <2>3, PopTakes DEF Taken
      <4>2. \A d \in Channels : Taken[d] = Given(d)  BY DEF Taken
      <4>3. ptick'.col = s /\ ptick'.row = Given(s)  BY <2>3, PopTakes
      <4>. QED  BY <2>3, <4>1, <4>2, <4>3, PopTakes DEF Taken
    <3>2. s \in Channels  BY <2>3, PopTakes
    <3>. QED  BY <3>1, <3>2
  <2>4. CASE PopEnd
    <3>1. CASE pc = "idle" /\ q[l[0]].column = None
      <4>1. \A c \in Channels : ~(Given(c) < Len(data[c]))
        <5>1. \A c \in Channels : Given(c) = Len(data[c])
          BY <3>1, EndOfAll
        <5>2. \A c \in Channels : Len(data[c]) \in Nat  BY GivenTicks
        <5>. QED  BY <5>1, <5>2
      <4>2. UNCHANGED <<data, q>> /\ ptick' = [col |-> -1, row |-> -1]
        BY <2>4 DEF PopEnd, None
      <4>3. \A c \in Channels : Given(c)' = Given(c)  BY <4>2 DEF Given
      <4>4. ptick'.col = -1 /\ ptick'.row = -1  BY <4>2
      <4>. QED  BY <4>1, <4>2, <4>3, <4>4
    <3>2. CASE pc = "ended"
      <4>1. ptick' = ptick  BY <2>4, <3>2 DEF PopEnd, IInv, Labels
      <4>. QED  BY <2>1, <2>4, <4>1 DEF PopEnd
    <3>. QED  BY <2>4, <3>1, <3>2 DEF PopEnd
  <2>5. CASE Adjust \/ Placed \/ Return \/ UNCHANGED vars
    BY <2>1, <2>5 DEF Adjust, Placed, Return, vars
  <2>. QED  BY <2>2, <2>3, <2>4, <2>5 DEF Next
<1>. QED
  BY <1>1, <1>2, Invariance, PTL DEF Spec, ImplementsMerge, Service!Spec

-----------------------------------------------------------------------------
(* What the caller sees *)

LEMMA Rests ==
  ASSUME UNCHANGED <<data, q, ptick>>
  PROVE  /\ \A c : Given(c)' = Given(c)
         /\ Started' = Started /\ LastTime' = LastTime /\ Same' = Same
<1>1. \A c : Given(c)' = Given(c)  BY DEF Given
<1>. QED  BY <1>1 DEF Started, LastTime, Same

LEMMA InitNotStarted == IInv /\ pc = "init" => ~Started
<1>. SUFFICES ASSUME IInv, pc = "init" PROVE ~Started  OBVIOUS
<1>1. \A c \in Channels : q[c].column = c /\ q[c].row = 0
  BY DEF IInv, Labels
<1>2. \A c \in Channels : Given(c) = 0  BY <1>1, Players DEF Given, None
<1>. QED  BY <1>2 DEF Started

\* The next time of the channel that is being read, when it has one.
LEMMA PopTimes ==
  ASSUME IInv, Pop
  PROVE  /\ s \in Channels /\ s' = s /\ ptick'.col = s
         /\ LastTime' = data[s][Given(s) + 1] /\ LastTime' \in Nat
         /\ q[s].time = LastTime' + 1
         /\ \A c \in Channels : q[s].time <= q[c].time /\ q[c].time \in Nat
         /\ \A c \in Channels : c # s => q'[c] = q[c]
         /\ q'[s].column # None => q'[s].time = data[s][q'[s].row + 1] + 1
         /\ q'[s].column # None => data[s][q'[s].row + 1] \in Times
         /\ q'[s].column # None => q'[s].row = Given(s) + 1
         /\ q'[s].column = None => q'[s].time = TimeMod - 1
         /\ Given(s) + 1 \in 1 .. Len(data[s]) /\ Len(data[s]) \in Nat
         /\ q'[s].column # None => Given(s) + 2 \in 1 .. Len(data[s])
<1>. USE DEF None
<1>1. /\ s \in Channels /\ pc = "idle" /\ q[s].column # None
      /\ \A d \in Channels : q[s].time <= q[d].time
  <2>1. q[l[0]].column # None /\ pc = "idle"  BY DEF Pop
  <2>. QED  BY <2>1, Champion
<1>2. /\ Given(s) = ptr[s] - 1 /\ Given(s) < Len(data[s])
      /\ q[s].time = data[s][Given(s) + 1] + 1 /\ Len(data[s]) \in Nat
      /\ data[s][Given(s) + 1] \in Times /\ Given(s) \in Nat
  BY <1>1, GivenTicks
<1>3. LastTime' = data[s][Given(s) + 1] /\ ptick'.col = s
  <2>1. ptick' = [col |-> s, row |-> Given(s)] /\ data' = data
    BY PopTakes
  <2>. QED  BY <2>1 DEF LastTime
<1>4. \A c \in Channels : q[c].time \in Nat
  BY Times0, ConstantsAssumption DEF IInv
<1>5. \A c \in Channels : c # s => q'[c] = q[c]  BY Refill, Players
<1>6. CASE q'[s] = FillTick
  BY <1>1, <1>2, <1>3, <1>4, <1>5, <1>6, Refill,
     ConstantsAssumption DEF FillTick, Times
<1>7. CASE q'[s] # FillTick
  <2>1. /\ ptr[s] + 1 \in 1 .. Len(data[s])
        /\ data[s][ptr[s] + 1] \in Times
        /\ q'[s] = [time |-> data[s][ptr[s] + 1] + 1, column |-> s,
                    row |-> ptr[s]]
    BY <1>7, Refill
  <2>2. /\ q'[s].column = s /\ s # None /\ q'[s].row = ptr[s]
        /\ q'[s].time = data[s][ptr[s] + 1] + 1
    BY <1>1, <2>1, Players
  <2>3. ptr[s] = Given(s) + 1 /\ Given(s) + 2 \in 1 .. Len(data[s])
    <3>1. ptr[s] \in Nat  BY Refill
    <3>. QED  BY <1>2, <2>1, <3>1
  <2>. QED
    BY SMTT(30), <1>1, <1>2, <1>3, <1>4, <1>5, <2>1, <2>2, <2>3, Refill,
       ConstantsAssumption DEF Times
<1>. QED  BY <1>6, <1>7

LEMMA AnsweredStep ==
  ASSUME IInv, Answered, [Next]_vars PROVE Answered'
<1>1. CASE Load  BY <1>1 DEF Load, Answered
<1>2. CASE Pop  BY <1>2, Refill DEF Answered
<1>3. CASE Return
  <2>1. pc = "pop" /\ ptick' = ptick /\ ret' = Encode(ptick.row, ptick.col)
    BY <1>3 DEF Return
  <2>. QED  BY <2>1 DEF IInv, Labels, Answered, Encode
<1>4. CASE PopEnd  BY <1>4 DEF PopEnd, Answered
<1>5. CASE Adjust \/ UNCHANGED vars
  <2>1. UNCHANGED <<data, q, ptick>> /\ pc' = pc /\ ret' = ret
    BY <1>5 DEF Adjust, vars
  <2>. QED  BY <2>1, Rests DEF Answered, Encode
<1>6. CASE Placed
  <2>1. UNCHANGED <<data, q, ptick>> /\ pc = "init"  BY <1>6 DEF Placed
  <2>2. ~Started'  BY <2>1, InitNotStarted, Rests
  <2>. QED  BY <2>2 DEF Answered
<1>. QED  BY <1>1, <1>2, <1>3, <1>4, <1>5, <1>6 DEF Next

LEMMA PastStep ==
  ASSUME IInv, Past, [Next]_vars PROVE Past'
<1>1. CASE Load
  <2>1. ~Started'  BY <1>1, LoadTakes DEF Untouched
  <2>. QED  BY <2>1 DEF Past
<1>2. CASE Pop
  <2>. SUFFICES ASSUME \A c \in Channels : Ordered(data[c]),
                       NEW c \in Channels
                PROVE  LastTime' < q'[c].time
    <3>1. data' = data  BY <1>2 DEF Pop
    <3>2. LastTime' \in Nat  BY <1>2, PopTimes
    <3>. QED  BY <3>1, <3>2 DEF Past, Ordered
  <2>1. CASE c # s  BY <1>2, <2>1, PopTimes
  <2>2. CASE c = s /\ q'[s].column # None
    <3>1. data[s][Given(s) + 1] <= data[s][Given(s) + 1 + 1]
      <4>1. Given(s) + 1 \in 1 .. Len(data[s]) - 1
        <5>1. Given(s) \in Nat  BY <1>2, PopTimes, GivenTicks
        <5>. QED  BY <1>2, <2>2, <5>1, PopTimes
      <4>. QED  BY <2>2, <4>1 DEF Ordered
    <3>2. q'[s].time = data[s][Given(s) + 1 + 1] + 1
          /\ data[s][Given(s) + 1 + 1] \in Times
          /\ LastTime' = data[s][Given(s) + 1] /\ LastTime' \in Nat
      BY <1>2, <2>2, PopTimes
    <3>. QED  BY <2>2, <3>1, <3>2 DEF Times
  <2>3. CASE c = s /\ q'[s].column = None
    <3>1. LastTime' + 1 \in 1 .. TimeMod - 1 /\ LastTime' \in Times
      <4>1. LastTime' = data[s][Given(s) + 1] /\ q[s].column # None
            /\ s \in Channels
        <5>1. q[s].column # None  BY <1>2, Champion DEF Pop
        <5>. QED  BY <1>2, <5>1, PopTimes
      <4>2. data[s][Given(s) + 1] \in Times  BY <4>1, GivenTicks
      <4>. QED  BY <4>1, <4>2, ConstantsAssumption DEF Times
    <3>. QED
      BY <1>2, <2>3, <3>1, PopTimes, ConstantsAssumption DEF Times
  <2>. QED  BY <2>1, <2>2, <2>3
<1>3. CASE Adjust \/ Placed \/ Return \/ UNCHANGED vars
  <2>1. UNCHANGED <<data, q, ptick>> /\ (pc = "ended" => pc' = "ended")
    BY <1>3 DEF Adjust, Placed, Return, vars
  <2>. QED  BY <2>1, Rests DEF Past, Ordered
<1>4. CASE PopEnd  BY <1>4 DEF PopEnd, Past
<1>. QED  BY <1>1, <1>2, <1>3, <1>4 DEF Next

\* Once every channel has entered, the sentinel is no loser either.
LEMMA NoSentinel ==
  ASSUME IInv, i = 0, leaf = 0
  PROVE  \A n \in Inner : l[n] # K
<1>. SUFFICES ASSUME NEW n \in Inner, l[n] = K PROVE FALSE  OBVIOUS
<1>0. TypeOK /\ Heads  BY DEF IInv
<1>1. Match(n, win[n])
  BY Players DEF IInv, Matches
<1>2. 2 * n \in Nodes /\ 2 * n + 1 \in Nodes
  BY Fathers, ConstantsAssumption DEF Nodes
<1>3. Rec(l[n]).time = 0  BY <1>0, Times0 DEF Rec
<1>4. PICK m \in Nodes : win[m].time = 0  BY <1>1, <1>2, <1>3 DEF Match
<1>5. win[1].time <= 0  BY <1>4, RootLeast DEF IInv
<1>6. win[1] = Rec(s)  BY DEF IInv, Chain
<1>7. q[s].time <= 0  BY <1>5, <1>6 DEF Rec
<1>8. s \in Channels  BY ChampionReal
<1>9. q[s].time \in 1 .. TimeMod - 1  BY <1>0, <1>8, Times0
<1>. QED  BY <1>7, <1>9, ConstantsAssumption

LEMMA TurnStep ==
  ASSUME IInv, Answered, Turn, [Next]_vars PROVE Turn'
<1>. USE DEF None
<1>1. CASE Load  BY <1>1 DEF Load, Turn
<1>2. CASE PopEnd  BY <1>2 DEF PopEnd, Turn
<1>3. CASE Placed
  <2>1. UNCHANGED <<data, q, ptick>> /\ pc = "init" /\ i = 0
    BY <1>3 DEF Placed
  <2>2. ~Started'  BY <2>1, InitNotStarted, Rests
  <2>3. CASE leaf = 0
    <3>1. l' = [l EXCEPT ![0] = s]  BY <1>3 DEF Placed
    <3>2. \A n \in Inner : l'[n] = l[n]
      BY <3>1, Players DEF IInv, TypeOK
    <3>3. s' = s /\ s # K
      <4>1. s' = s  BY <1>3, <2>3 DEF Placed
      <4>. QED  BY <2>1, <2>3, <4>1, ChampionReal, Players
    <3>. QED  BY <2>1, <2>2, <2>3, <3>2, <3>3, NoSentinel DEF Turn
  <2>4. CASE leaf # 0
    BY <1>3, <2>1, <2>4 DEF Placed, Turn
  <2>. QED  BY <2>3, <2>4
<1>4. CASE Pop
  <2>1. pc = "idle" /\ l' = l /\ data' = data  BY <1>4 DEF Pop
  <2>2. s' # K /\ \A n \in Inner : l'[n] # K
    BY <1>4, <2>1, PopTimes, Players DEF Turn
  <2>. SUFFICES ASSUME Same'
                PROVE  s' = ptick'.col
                       /\ \A c \in Channels : q'[s'].time <= q'[c].time
    BY <2>2 DEF Turn
  <2>3. /\ s' = s /\ ptick'.col = s /\ q'[s].column # None
        /\ data[s][q'[s].row + 1] = LastTime'
    BY <1>4, <2>1, PopTimes DEF Same
  <2>4. q'[s].time = LastTime' + 1  BY <1>4, <2>3, PopTimes
  <2>5. q[s].time = q'[s].time  BY <1>4, <2>4, PopTimes
  <2>6. q'[s].time \in Nat  BY <1>4, <2>4, PopTimes
  <2>7. ASSUME NEW c \in Channels PROVE q'[s].time <= q'[c].time
    <3>1. CASE c = s  BY <2>6, <3>1
    <3>2. CASE c # s  BY <1>4, <2>5, <3>2, PopTimes
    <3>. QED  BY <3>1, <3>2
  <2>. QED  BY <2>3, <2>7
<1>5. CASE Return
  <2>1. /\ UNCHANGED <<data, q, ptick, s>> /\ pc = "pop"
        /\ l' = [l EXCEPT ![0] = s]
    BY <1>5 DEF Return
  <2>2. \A n \in Inner : l'[n] = l[n]
    BY <2>1, Players DEF IInv, TypeOK
  <2>. QED  BY <2>1, <2>2, Rests DEF Turn
<1>6. CASE Adjust
  <2>0. TypeOK  BY DEF IInv
  <2>1. /\ UNCHANGED <<data, q, ptick>> /\ pc' = pc /\ i \in Inner
        /\ l' = (IF Beaten THEN [l EXCEPT ![i] = s] ELSE l)
        /\ s' = (IF Beaten THEN l[i] ELSE s)
    BY <1>6, <2>0, ConstantsAssumption DEF Adjust, TypeOK, Inner
  <2>. SUFFICES ASSUME pc = "pop"
                PROVE  Turn'
    BY <1>6, <2>1 DEF Adjust, Turn
  <2>2. /\ s # K /\ \A n \in Inner : l[n] # K
        /\ l \in [0 .. K -> 0 .. K] /\ s \in 0 .. K /\ i \in 0 .. K
    BY <2>0, <2>1, Players DEF Turn, TypeOK
  <2>3. s' # K /\ \A n \in Inner : l'[n] # K
    BY <2>1, <2>2
  <2>4. ASSUME Started, Same
        PROVE  s' = s /\ s = ptick.col
               /\ \A c \in Channels : q[s].time <= q[c].time
    <3>1. s = ptick.col /\ \A c \in Channels : q[s].time <= q[c].time
      BY <2>4 DEF Turn
    <3>2. l[i] \in Channels /\ s \in Channels  BY <2>1, <2>2, Players
    <3>3. q[s].time \in 0 .. TimeMod - 1 /\ q[l[i]].time \in 0 .. TimeMod - 1
      BY <2>0, <2>2 DEF TypeOK, Ticks
    <3>4. ~Beaten  BY <3>1, <3>2, <3>3 DEF Beaten
    <3>. QED  BY <2>1, <3>1, <3>4
  <2>. QED  BY <2>1, <2>3, <2>4, Rests DEF Turn
<1>7. CASE UNCHANGED vars
  <2>1. UNCHANGED <<data, q, ptick, pc, l, s>>  BY <1>7 DEF vars
  <2>. QED  BY <2>1, Rests DEF Turn
<1>. QED  BY <1>1, <1>2, <1>3, <1>4, <1>5, <1>6, <1>7 DEF Next

Told == Answered /\ Past /\ Turn

LEMMA ToldAlways == Spec => []Told
<1>1. Init => Told
  <2>1. Init => IInv /\ ~Started /\ pc = "init"
    BY InitFresh, FreshGood, FreshTaken DEF Fresh, Untouched
  <2>. QED  BY <2>1 DEF Told, Answered, Past, Turn
<1>2. IInv /\ Told /\ [Next]_vars => Told'
  BY AnsweredStep, PastStep, TurnStep DEF Told
<1>. QED  BY <1>1, <1>2, Invariance, PTL DEF Spec

\* The caller decodes the tick that was popped.
THEOREM Decoded == Spec => []DecodedRight
<1>1. Told => DecodedRight
  <2>. SUFFICES ASSUME Told, pc = "idle", Started
                PROVE  /\ DecodeCol(ret) = ptick.col
                       /\ DecodeRow(ret) = ptick.row % RowMod
    BY DEF DecodedRight
  <2>. DEFINE r == ptick.row % RowMod
  <2>1. /\ ptick.col \in Channels /\ ptick.row \in Nat
        /\ ret = r * MaxChannelCnt + ptick.col
    BY DEF Told, Answered, Encode
  <2>2. r \in Nat  BY <2>1, ConstantsAssumption
  <2>3. ptick.col \in Nat /\ ptick.col < MaxChannelCnt
    BY <2>1, ConstantsAssumption DEF Channels
  <2>4. MaxChannelCnt \in Nat \ {0}  BY ConstantsAssumption
  <2>. DEFINE c == ptick.col
  <2>5. c \in Nat /\ c < MaxChannelCnt  BY <2>3
  <2>. HIDE DEF r, c
  <2>6. /\ (r * MaxChannelCnt + c) \div MaxChannelCnt = r
        /\ (r * MaxChannelCnt + c) % MaxChannelCnt = c
    BY <2>2, <2>4, <2>5
  <2>. QED  BY <2>1, <2>6 DEF DecodeCol, DecodeRow, r, c
<1>. QED  BY <1>1, ToldAlways, PTL

LEMMA BelowSuccessor ==
  ASSUME NEW a \in Nat, NEW b \in Nat, NEW t, t = b + 1, a < t
  PROVE  a <= b
OBVIOUS

\* Ticks of ordered channels come out in order of time.
THEOREM OutputSorted == Spec => SortedOutput
<1>1. IInv /\ Told /\ [Next]_vars =>
        (Pop /\ Started /\ (\A c \in Channels : Ordered(data[c]))
           => LastTime <= LastTime')
  <2>. SUFFICES ASSUME IInv, Told, Pop, Started,
                       \A c \in Channels : Ordered(data[c])
                PROVE  LastTime <= LastTime'
    OBVIOUS
  <2>1. pc = "idle"  BY DEF Pop
  <2>2. LastTime \in Nat /\ LastTime < q[s].time
    BY <2>1, PopTimes DEF Told, Past
  <2>3. ptick.col \in Channels /\ ptick.row \in Nat
    BY <2>1 DEF Told, Answered
  <2>4. q[s].time = LastTime' + 1 /\ LastTime' \in Nat  BY PopTimes
  <2>. QED  BY <2>2, <2>4, BelowSuccessor
<1>. QED  BY <1>1, Invariance, ToldAlways, PTL DEF Spec, SortedOutput

\* A run of ticks of one time in a channel is not torn apart.
THEOREM TurnKept == Spec => KeepsTurn
<1>1. IInv /\ Told /\ [Next]_vars =>
        (Pop /\ Started /\ q[ptick.col].column # None
           /\ data[ptick.col][q[ptick.col].row + 1] = LastTime
         => ptick'.col = ptick.col)
  <2>. SUFFICES ASSUME IInv, Told, Pop, Started, Same
                PROVE  ptick'.col = ptick.col
    BY DEF Same
  <2>1. pc = "idle"  BY DEF Pop
  <2>2. s = ptick.col  BY <2>1 DEF Told, Turn
  <2>. QED  BY <2>2, PopTimes
<1>. QED  BY <1>1, Invariance, ToldAlways, PTL DEF Spec, KeepsTurn
=============================================================================
