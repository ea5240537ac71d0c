---------------------------- MODULE WebApiProofs ----------------------------
(***************************************************************************)
(* Proofs about WebApi, for any number of clients, messages within         *)
(* MAX_MSG_SIZE and any cut of them.                                       *)
(*                                                                         *)
(* Books says who has a descriptor, a context and an event.  Taken says    *)
(* what is in msg, and Stream, for each connection, that the receive       *)
(* buffer goes on where the server has stopped reading: in closed form     *)
(* (Run, Turn) so that no induction over the buffer is needed.  Rising, that *)
(* messages do not overtake each other in a buffer, is what the refinement *)
(* of RequestService needs besides: what is handled has arrived whole.     *)
(***************************************************************************)
EXTENDS WebApi, FiniteSetTheorems, SequenceTheorems, TLAPS

USE DEF clientVars, serverVars

\* TypeOK but for the length of msg, which follows from Taken.
Types ==
  /\ script \in Scripts /\ limit \in Descriptors
  /\ peer \in [Clients -> {"none", "up", "closed", "reset"}]
  /\ stalled \subseteq Clients /\ torn \subseteq Clients
  /\ at \in [Clients -> Unit]
  /\ inbuf \in [Clients -> Seq(Unit)]
  /\ fd \in [Clients -> {"none", "queued", "open", "closed"}]
  /\ ctx \subseteq Clients
  /\ round \subseteq [of : Clients \cup {Listen}, err : BOOLEAN]
  /\ cur \in Clients \cup {Listen}
  /\ pc \in {"loop", "head", "body", "handle", "reply", "exited"}
  /\ got \in Seq(Unit)
  /\ errno \in {"again", "other"}
  /\ handled \in [Clients -> Nat]

Busy   == pc \in {"head", "body", "handle", "reply"}
Taking == pc \in {"head", "body", "handle"}

\* There is something to read: data, an end or an error.
Ripe(c) == inbuf[c] # <<>> \/ peer[c] \in {"closed", "reset"}

Books ==
  /\ IsFiniteSet(Open)
  /\ \A c \in Clients : peer[c] = "none" => fd[c] = "none"
  /\ ctx \subseteq Open
  /\ \A e \in round : e.of \in Open \cup {Listen}
  /\ \A e, f \in round : e.of = f.of => e = f
  /\ \A e \in round : e.of \in Clients => Ripe(e.of)
  /\ Busy => cur \in ctx /\ \A e \in round : e.of # cur
  /\ Reading /\ got = <<>> => Ripe(cur)

\* The lengths of the messages of c.
Lengths(c) == [n \in 1 .. Len(script[c]) |-> Length(c, n)]

\* The last unit of message n, and the unit after u, of a client whose
\* messages have lengths L.
End(L, n) == [msg |-> n, off |-> IF n = 0 THEN 0 ELSE L[n]]
After(L, u) == IF u = End(L, u.msg) THEN [msg |-> u.msg + 1, off |-> 1]
                                    ELSE [msg |-> u.msg, off |-> u.off + 1]

\* Within a message the units of s follow each other; a message follows the
\* one before it.
Run(L, s) ==
  \A i \in 1 .. Len(s) : \A j \in i .. Len(s) :
    s[i].off + (j - i) <= L[s[i].msg] =>
      s[j] = [msg |-> s[i].msg, off |-> s[i].off + (j - i)]
Turn(L, s) ==
  \A i \in 1 .. Len(s) - 1 :
    s[i].off = L[s[i].msg] => s[i + 1] = [msg |-> s[i].msg + 1, off |-> 1]
Valid(L, s) ==
  \A i \in 1 .. Len(s) : /\ s[i].msg \in DOMAIN L
                         /\ s[i].off \in 1 .. L[s[i].msg]
Good(L, s) == Run(L, s) /\ Turn(L, s) /\ Valid(L, s)

\* The last unit the server has read from c.
Consumed(c) ==
  IF Taking /\ cur = c /\ got # <<>>
  THEN [msg |-> handled[c] + 1, off |-> Len(got)]
  ELSE End(Lengths(c), handled[c])

Stream(c) ==
  /\ Good(Lengths(c), inbuf[c])
  /\ IF inbuf[c] = <<>>
     THEN at[c] = Consumed(c)
     ELSE /\ inbuf[c][1] = After(Lengths(c), Consumed(c))
          /\ inbuf[c][Len(inbuf[c])] = at[c]

Sent(c) ==
  /\ handled[c] \in 0 .. Len(script[c])
  /\ \/ at[c] = [msg |-> 0, off |-> 0]
     \/ /\ at[c].msg \in 1 .. Len(script[c])
        /\ at[c].off \in 1 .. Lengths(c)[at[c].msg]
  /\ c \notin torn => at[c] = End(Lengths(c), at[c].msg)

\* What is in msg.
Taken ==
  Taking =>
    /\ \A j \in 1 .. Len(got) : got[j] = [msg |-> handled[cur] + 1, off |-> j]
    /\ pc = "head" => Len(got) < HeadLen
    /\ got # <<>> \/ pc # "head" =>
         handled[cur] + 1 \in 1 .. Len(script[cur])
    /\ pc = "body" => /\ Len(got) >= HeadLen
                      /\ Len(got) < Lengths(cur)[handled[cur] + 1]
    /\ pc = "handle" => Len(got) = Lengths(cur)[handled[cur] + 1]

IInv ==
  /\ Types /\ Books /\ Taken
  /\ \A c \in Clients : Sent(c) /\ (fd[c] # "closed" => Stream(c))

-----------------------------------------------------------------------------
(* Lengths and sequences *)

Functions(N) == {L \in [1 .. N -> Nat] : \A n \in 1 .. N : L[n] >= HeadLen}

LEMMA LengthsIs ==
  ASSUME script \in Scripts, NEW c \in Clients
  PROVE  /\ Len(script[c]) \in Nat /\ script[c] \in Seq(Messages)
         /\ Lengths(c) \in Functions(Len(script[c]))
         /\ \A n \in 1 .. Len(script[c]) :
              Length(c, n) = Lengths(c)[n] /\ script[c][n].size \in Nat
<1>1. script[c] \in Seq(Messages)
  BY ConstantsAssumption
<1>2. \A n \in 1 .. Len(script[c]) : script[c][n].size \in Nat
  <2>1. \A n \in 1 .. Len(script[c]) : script[c][n] \in Messages
    BY <1>1
  <2>. QED BY <2>1 DEF Messages
<1>3. \A n \in 1 .. Len(script[c]) :
        Length(c, n) \in Nat /\ Length(c, n) >= HeadLen
  BY <1>2, ConstantsAssumption DEF Length
<1>. QED BY <1>1, <1>2, <1>3 DEF Lengths, Functions

LEMMA ConcatIs ==
  ASSUME NEW S, NEW s \in Seq(S), NEW t \in Seq(S)
  PROVE  /\ s \o t \in Seq(S) /\ Len(s \o t) = Len(s) + Len(t)
         /\ \A i \in 1 .. Len(s) : (s \o t)[i] = s[i]
         /\ \A i \in 1 .. Len(t) : (s \o t)[Len(s) + i] = t[i]
<1>1. /\ s \o t \in Seq(S) /\ Len(s \o t) = Len(s) + Len(t)
      /\ \A i \in 1 .. Len(s) + Len(t) :
           (s \o t)[i] = IF i <= Len(s) THEN s[i] ELSE t[i - Len(s)]
  BY ConcatProperties
<1>2. Len(s) \in Nat /\ Len(t) \in Nat
  OBVIOUS
<1>3. \A i \in 1 .. Len(s) : (s \o t)[i] = s[i]
  BY <1>1, <1>2
<1>4. ASSUME NEW i \in 1 .. Len(t) PROVE (s \o t)[Len(s) + i] = t[i]
  <2>1. Len(s) + i \in 1 .. Len(s) + Len(t) /\ ~(Len(s) + i <= Len(s))
        /\ (Len(s) + i) - Len(s) = i
    BY <1>2
  <2>. QED BY <1>1, <2>1
<1>. QED BY <1>1, <1>3, <1>4

LEMMA NonEmpty ==
  ASSUME NEW S, NEW s \in Seq(S)
  PROVE  Len(s) # 0 <=> s # <<>>
OBVIOUS

LEMMA PieceIs ==
  ASSUME NEW S, NEW s \in Seq(S), NEW a \in Nat, NEW b \in Nat,
         a >= 1, a <= b + 1, b <= Len(s)
  PROVE  /\ SubSeq(s, a, b) \in Seq(S) /\ Len(SubSeq(s, a, b)) = b - a + 1
         /\ \A i \in 1 .. b - a + 1 : SubSeq(s, a, b)[i] = s[a + i - 1]
  BY SubSeqProperties

-----------------------------------------------------------------------------
(* Streams *)

\* What is left of a stream is a stream.
LEMMA Rest ==
  ASSUME NEW N \in Nat, NEW L \in Functions(N), NEW s \in Seq(Unit),
         Good(L, s), NEW k \in 0 .. Len(s)
  PROVE  LET t == SubSeq(s, k + 1, Len(s)) IN
         /\ t \in Seq(Unit) /\ Good(L, t) /\ Len(t) = Len(s) - k
         /\ \A i \in 1 .. Len(t) : t[i] = s[k + i]
<1> DEFINE t == SubSeq(s, k + 1, Len(s))
<1>1. Len(s) \in Nat /\ k \in Nat /\ k <= Len(s)
  OBVIOUS
<1>2. /\ t \in Seq(Unit) /\ Len(t) = Len(s) - k
      /\ \A i \in 1 .. Len(t) : t[i] = s[k + i]
  <2>1. /\ t \in Seq(Unit)
        /\ Len(t) = Len(s) - (k + 1) + 1
        /\ \A i \in 1 .. Len(s) - (k + 1) + 1 : t[i] = s[(k + 1) + i - 1]
    <3>1. /\ k + 1 \in Nat /\ Len(s) \in Nat /\ k + 1 >= 1
          /\ k + 1 <= Len(s) + 1 /\ Len(s) <= Len(s)
      BY <1>1
    <3>. QED BY <3>1, PieceIs
  <2>2. Len(s) - (k + 1) + 1 = Len(s) - k
    BY <1>1
  <2>3. \A i \in 1 .. Len(s) - k : (k + 1) + i - 1 = k + i
    BY <1>1
  <2>. QED BY <2>1, <2>2, <2>3
<1>. HIDE DEF t
<1>0. /\ Len(s) \in Nat /\ k \in Nat /\ k <= Len(s)
      /\ Len(t) \in Nat /\ Len(t) = Len(s) - k
  BY <1>1, <1>2
<1>3. \A i \in 1 .. Len(t) : k + i \in 1 .. Len(s)
  BY <1>0
<1>4. Valid(L, t)
  BY <1>2, <1>3 DEF Good, Valid
<1>5. Turn(L, t)
  <2> SUFFICES ASSUME NEW i \in 1 .. Len(t) - 1, t[i].off = L[t[i].msg]
               PROVE  t[i + 1] = [msg |-> t[i].msg + 1, off |-> 1]
    BY DEF Turn
  <2>1. k + i \in 1 .. Len(s) - 1 /\ i \in 1 .. Len(t) /\ i + 1 \in 1 .. Len(t)
        /\ k + (i + 1) = (k + i) + 1
    <3>1. i \in Nat /\ i >= 1 /\ i <= Len(t) - 1
      BY <1>0
    <3>. QED BY <1>0, <3>1
  <2>. QED BY <2>1, <1>2 DEF Good, Turn
<1>6. Run(L, t)
  <2> SUFFICES ASSUME NEW i \in 1 .. Len(t), NEW j \in i .. Len(t),
                      t[i].off + (j - i) <= L[t[i].msg]
               PROVE  t[j] = [msg |-> t[i].msg, off |-> t[i].off + (j - i)]
    BY DEF Run
  <2>1. /\ k + i \in 1 .. Len(s) /\ k + j \in k + i .. Len(s)
        /\ j \in 1 .. Len(t) /\ (k + j) - (k + i) = j - i
    <3>1. /\ i \in Nat /\ i >= 1 /\ i <= Len(t)
          /\ j \in Nat /\ j >= i /\ j <= Len(t)
      BY <1>0
    <3>. QED BY <1>0, <3>1
  <2>2. t[i] = s[k + i] /\ t[j] = s[k + j]
    BY <2>1, <1>2
  <2>3. s[k + i].off + ((k + j) - (k + i)) <= L[s[k + i].msg]
    BY <2>1, <2>2
  <2>4. s[k + j] = [msg |-> s[k + i].msg,
                    off |-> s[k + i].off + ((k + j) - (k + i))]
    BY <2>1, <2>3 DEF Good, Run
  <2>. QED BY <2>1, <2>2, <2>4
<1>. QED BY <1>2, <1>4, <1>5, <1>6 DEF Good, t

\* The first k units of a stream, when they are of one message, and the one
\* after them.
LEMMA Front ==
  ASSUME NEW N \in Nat, NEW L \in Functions(N), NEW s \in Seq(Unit),
         Good(L, s), NEW k \in 1 .. Len(s),
         s[1].off - 1 + k <= L[s[1].msg]
  PROVE  /\ \A j \in 1 .. k :
              s[j] = [msg |-> s[1].msg, off |-> s[1].off - 1 + j]
         /\ k < Len(s) => s[k + 1] = After(L, s[k])
<1> DEFINE n == s[1].msg
           off == s[1].off - 1
<1>1. /\ Len(s) \in Nat /\ k \in Nat /\ k >= 1 /\ k <= Len(s)
      /\ 1 \in 1 .. Len(s)
  OBVIOUS
<1>2. /\ n \in 1 .. N /\ off \in Nat /\ L[n] \in Nat /\ off + k <= L[n]
      /\ s[1].off \in Nat
  BY <1>1 DEF Good, Valid, Functions
<1>3. \A j \in 1 .. Len(s) : s[1].off + (j - 1) = off + j
  BY SMTT(30), <1>2
<1>4. \A j \in 1 .. Len(s) : off + j <= L[n] =>
        s[j] = [msg |-> n, off |-> off + j]
  BY <1>1, <1>3 DEF Good, Run
<1>. HIDE DEF n, off
<1>5. \A j \in 1 .. k : s[j] = [msg |-> n, off |-> off + j]
  BY SMTT(30), <1>1, <1>2, <1>4
<1>6. ASSUME k < Len(s) PROVE s[k + 1] = After(L, s[k])
  <2>1. k \in 1 .. Len(s) - 1 /\ k + 1 \in 1 .. Len(s) /\ k \in 1 .. k
    BY <1>1, <1>6
  <2>2. s[k] = [msg |-> n, off |-> off + k] /\ n # 0
    BY <1>2, <1>5, <2>1
  <2>3. CASE off + k = L[n]
    BY <2>1, <2>2, <2>3 DEF Good, Turn, After, End
  <2>4. CASE off + k # L[n]
    <3>1. off + (k + 1) <= L[n] /\ off + (k + 1) = (off + k) + 1
      BY SMTT(30), <1>1, <1>2, <2>4
    <3>2. s[k + 1] = [msg |-> n, off |-> off + (k + 1)]
      BY <1>4, <2>1, <3>1
    <3>. QED BY <2>2, <2>4, <3>1, <3>2 DEF After, End
  <2>. QED BY <2>3, <2>4
<1>. QED BY <1>5, <1>6 DEF n, off

\* Units off + 1 .. k of message n, and what ends with the unit before them.
Piece(t, n, off, k) ==
  /\ Len(t) = k - off
  /\ \A i \in 1 .. Len(t) : t[i] = [msg |-> n, off |-> off + i]
Fits(L, s, n, off) ==
  s # <<>> => s[Len(s)] = IF off = 0 THEN End(L, n - 1)
                                     ELSE [msg |-> n, off |-> off]

\* A stream with a piece at its end.
LEMMA Joined ==
  ASSUME NEW N \in Nat, NEW L \in Functions(N), NEW s \in Seq(Unit),
         Good(L, s), NEW n \in 1 .. N, NEW off \in Nat,
         NEW k \in Nat, off < k, k <= L[n], NEW t \in Seq(Unit),
         Piece(t, n, off, k), Fits(L, s, n, off)
  PROVE  /\ s \o t \in Seq(Unit) /\ Good(L, s \o t) /\ s \o t # <<>>
         /\ (s \o t)[Len(s \o t)] = [msg |-> n, off |-> k]
         /\ s = <<>> => (s \o t)[1] = [msg |-> n, off |-> off + 1]
         /\ s # <<>> => (s \o t)[1] = s[1]
<1> DEFINE m == Len(s)
           u == s \o t
<1>1. /\ m \in Nat /\ L[n] \in Nat /\ k \in Nat /\ k >= off + 1 /\ k <= L[n]
      /\ Len(t) \in Nat /\ Len(t) = k - off /\ Len(t) >= 1
  <2>1. m \in Nat /\ Len(t) \in Nat /\ Len(t) = k - off
    BY DEF Piece
  <2>2. L[n] \in Nat
    BY DEF Functions
  <2>. QED BY <2>1, <2>2
<1>2. /\ u \in Seq(Unit) /\ Len(u) = m + Len(t)
      /\ \A i \in 1 .. m : u[i] = s[i]
      /\ \A i \in 1 .. Len(t) : u[m + i] = t[i]
  BY ConcatIs
<1>3. s = <<>> <=> m = 0
  OBVIOUS
<1>. HIDE DEF m, u
\* The units of the piece.
<1>4. ASSUME NEW i \in m + 1 .. Len(u)
      PROVE  u[i] = [msg |-> n, off |-> off + (i - m)] /\ off + (i - m) \in Nat
  <2>1. i - m \in 1 .. Len(t) /\ m + (i - m) = i
    BY <1>1, <1>2
  <2>2. off + (i - m) \in Nat
    BY <2>1, <1>1
  <2>. QED BY <2>1, <2>2, <1>2 DEF Piece
\* The last unit before them.
<1>5. ASSUME m >= 1
      PROVE  /\ m \in 1 .. m
             /\ off = 0 => /\ n - 1 \in 1 .. N
                           /\ s[m] = [msg |-> n - 1, off |-> L[n - 1]]
             /\ off # 0 => s[m] = [msg |-> n, off |-> off]
  <2>1. m \in 1 .. m /\ s # <<>>
    BY <1>1, <1>3, <1>5
  <2>2. s[m].msg \in 1 .. N
    BY <2>1 DEF Good, Valid, m, Functions
  <2>3. ASSUME off = 0 PROVE n - 1 \in 1 .. N /\ s[m] = End(L, n - 1)
    <3>1. s[m] = End(L, n - 1)
      BY <2>1, <2>3 DEF m, Fits
    <3>2. n - 1 # 0
      BY <3>1, <2>2 DEF End
    <3>. QED BY <3>1, <3>2
  <2>. QED BY <2>1, <2>3 DEF End, m, Fits
<1>6. Valid(L, u)
  <2> SUFFICES ASSUME NEW i \in 1 .. Len(u)
               PROVE  u[i].msg \in 1 .. N /\ u[i].off \in 1 .. L[u[i].msg]
    BY DEF Valid, Functions
  <2>1. CASE i \in 1 .. m
    BY <2>1, <1>2 DEF Good, Valid, m, Functions
  <2>2. CASE i \in m + 1 .. Len(u)
    <3>1. off + (i - m) \in 1 .. L[n]
      <4>1. i \in Nat /\ i >= m + 1 /\ i <= m + Len(t)
        BY <2>2, <1>1, <1>2
      <4>. QED BY <4>1, <1>1
    <3>2. u[i] = [msg |-> n, off |-> off + (i - m)]
      BY <2>2, <1>4
    <3>. QED BY <3>1, <3>2
  <2>. QED BY <2>1, <2>2, <1>1, <1>2
<1>7. Turn(L, u)
  <2> SUFFICES ASSUME NEW i \in 1 .. Len(u) - 1, u[i].off = L[u[i].msg]
               PROVE  u[i + 1] = [msg |-> u[i].msg + 1, off |-> 1]
    BY DEF Turn
  <2>0. i \in Nat /\ i >= 1 /\ i + 1 <= m + Len(t)
    BY <1>1, <1>2
  <2>1. CASE i < m
    <3>1. i \in 1 .. m /\ i + 1 \in 1 .. m /\ i \in 1 .. m - 1
      BY SMTT(20), <2>0, <2>1, <1>1
    <3>2. u[i] = s[i] /\ u[i + 1] = s[i + 1]
      BY <3>1, <1>2
    <3>. QED BY <3>1, <3>2 DEF Good, Turn, m
  <2>2. CASE i = m
    <3>1. m >= 1 /\ m + 1 \in m + 1 .. Len(u) /\ off + ((m + 1) - m) = off + 1
      BY <2>0, <2>2, <1>1, <1>2
    <3>2. u[m + 1] = [msg |-> n, off |-> off + 1] /\ u[i] = s[m]
      BY <3>1, <2>2, <1>2, <1>4, <1>5
    <3>3. off = 0
      <4>1. off # 0 => u[i] = [msg |-> n, off |-> off]
        BY <3>1, <3>2, <1>5
      <4>2. off # 0 => off = L[n]
        BY <4>1
      <4>. QED BY <4>2, <1>1
    <3>. QED BY <3>1, <3>2, <3>3, <2>2, <1>5
  <2>3. CASE i > m
    <3>1. i \in m + 1 .. Len(u)
      BY <2>0, <2>3, <1>1, <1>2
    <3>2. off + (i - m) = L[n]
      <4>1. u[i] = [msg |-> n, off |-> off + (i - m)]
        BY <3>1, <1>4
      <4>. QED BY <4>1
    <3>. QED BY <3>2, <2>0, <1>1
  <2>. QED BY <2>0, <2>1, <2>2, <2>3, <1>1
<1>8. Run(L, u)
  <2> SUFFICES ASSUME NEW i \in 1 .. Len(u), NEW j \in i .. Len(u),
                      u[i].off + (j - i) <= L[u[i].msg]
               PROVE  u[j] = [msg |-> u[i].msg, off |-> u[i].off + (j - i)]
    BY DEF Run
  <2>0. i \in Nat /\ j \in Nat /\ 1 <= i /\ i <= j /\ j <= m + Len(t)
    <3>1. Len(u) \in Nat /\ Len(u) = m + Len(t)
      BY <1>1, <1>2
    <3>. QED BY <3>1
  <2>1. CASE j <= m
    <3>1. i \in 1 .. m /\ j \in i .. m /\ j \in 1 .. m
      BY SMTT(30), <2>0, <2>1, <1>1
    <3>2. u[i] = s[i] /\ u[j] = s[j]
      BY <3>1, <1>2
    <3>. QED BY <3>1, <3>2 DEF Good, Run, m
  <2>2. CASE i > m
    <3>1. i \in m + 1 .. Len(u) /\ j \in m + 1 .. Len(u)
      BY SMTT(30), <2>0, <2>2, <1>1, <1>2
    <3>2. (off + (i - m)) + (j - i) = off + (j - m)
      BY <2>0, <1>1
    <3>3. /\ u[i] = [msg |-> n, off |-> off + (i - m)]
          /\ u[j] = [msg |-> n, off |-> off + (j - m)]
      BY <3>1, <1>4
    <3>. QED BY <3>2, <3>3
  <2>3. CASE i <= m /\ m < j
    <3>1. /\ i \in 1 .. m /\ m \in i .. m /\ m >= 1 /\ j \in m + 1 .. Len(u)
          /\ u[i] = s[i]
      BY SMTT(20), <2>0, <2>3, <1>1, <1>2
    <3>2. /\ s[i].msg \in 1 .. N /\ s[i].off \in Nat
          /\ L[s[i].msg] \in Nat
      BY SMTT(30), <3>1 DEF Good, Valid, m, Functions
    <3> DEFINE o == s[i].off
               l == L[s[i].msg]
    <3>0. o \in Nat /\ l \in Nat /\ o + (j - i) <= l
      BY <3>1, <3>2
    <3>. HIDE DEF o, l
    <3>3. o + (m - i) < l /\ o + (m - i) <= l
      BY <3>0, <2>0, <2>3, <1>1
    <3>4. s[m] = [msg |-> s[i].msg, off |-> o + (m - i)]
      BY <3>1, <3>3 DEF Good, Run, m, o, l
    <3>5. off # 0
      <4>1. off = 0 => o + (m - i) = l
        BY SMTT(30), <3>1, <3>4, <1>5 DEF l
      <4>. QED BY <4>1, <3>0, <3>3, <2>0, <1>1
    <3>6. s[i].msg = n /\ o + (m - i) = off
      BY SMTT(30), <3>1, <3>4, <3>5, <1>5
    <3>7. off + (j - m) = o + (j - i)
      <4>1. /\ o \in Int /\ i \in Int /\ j \in Int /\ m \in Int
            /\ o + (m - i) = off
        BY <3>0, <3>6, <2>0, <1>1
      <4>. HIDE DEF o, m
      <4>. QED BY <4>1
    <3>8. u[j] = [msg |-> n, off |-> off + (j - m)]
      BY <3>1, <1>4
    <3>. QED BY <3>1, <3>6, <3>7, <3>8 DEF o
  <2>. QED BY <2>0, <2>1, <2>2, <2>3, <1>1
<1>9. u # <<>> /\ u[Len(u)] = [msg |-> n, off |-> k]
  <2>1. Len(u) \in m + 1 .. Len(u) /\ off + (Len(u) - m) = k
    BY <1>1, <1>2
  <2>. QED BY <2>1, <1>1, <1>2, <1>4
<1>10. s = <<>> => u[1] = [msg |-> n, off |-> off + 1]
  <2>1. s = <<>> => 1 \in m + 1 .. Len(u) /\ off + (1 - m) = off + 1
    BY <1>1, <1>2, <1>3
  <2>. QED BY <2>1, <1>4
<1>11. s # <<>> => u[1] = s[1]
  <2>1. s # <<>> => 1 \in 1 .. m
    BY <1>1, <1>3
  <2>. QED BY <2>1, <1>2
<1>. QED BY <1>2, <1>6, <1>7, <1>8, <1>9, <1>10, <1>11 DEF Good, u

-----------------------------------------------------------------------------
(* One step of recv() *)

LEMMA Reader ==
  ASSUME IInv, Taking
  PROVE  /\ cur \in Clients /\ cur \in Open /\ fd[cur] = "open"
         /\ Sent(cur) /\ Stream(cur)
<1>1. cur \in ctx
  BY DEF IInv, Books, Busy, Taking
<1>2. cur \in Open
  BY <1>1 DEF IInv, Books
<1>. QED BY <1>2 DEF IInv, Open

LEMMA NeedIs ==
  ASSUME IInv, Reading
  PROVE  /\ pc = "head" => Need = HeadLen
         /\ pc = "body" =>
              /\ handled[cur] + 1 \in 1 .. Len(script[cur])
              /\ Need = Lengths(cur)[handled[cur] + 1]
         /\ Need \in Nat /\ Len(got) < Need /\ Len(got) \in Nat
<1>0. Taking /\ cur \in Clients /\ script \in Scripts /\ Len(got) \in Nat
  BY Reader DEF Taking, Reading, IInv, Types
<1>1. CASE pc = "head"
  BY <1>0, <1>1, ConstantsAssumption DEF Need, IInv, Taken
<1>2. CASE pc = "body"
  <2>1. /\ handled[cur] + 1 \in 1 .. Len(script[cur])
        /\ Len(got) >= HeadLen
        /\ Len(got) < Lengths(cur)[handled[cur] + 1]
        /\ \A j \in 1 .. Len(got) :
             got[j] = [msg |-> handled[cur] + 1, off |-> j]
    BY <1>0, <1>2 DEF IInv, Taken
  <2>2. 1 \in 1 .. Len(got)
    BY <1>0, <2>1, ConstantsAssumption
  <2>3. Need = Lengths(cur)[handled[cur] + 1]
    <3>1. got[1].msg = handled[cur] + 1
      <4>1. got[1] = [msg |-> handled[cur] + 1, off |-> 1]
        BY <2>1, <2>2
      <4>. QED BY <4>1
    <3>2. Need = Length(cur, handled[cur] + 1)
      BY <1>2, <3>1 DEF Need, BodySize, Length
    <3>. QED BY <1>0, <2>1, <3>2, LengthsIs
  <2>4. Lengths(cur)[handled[cur] + 1] \in Nat
    BY <1>0, <2>1, LengthsIs DEF Functions
  <2>. QED BY <1>0, <1>2, <2>1, <2>3, <2>4
<1>. QED BY <1>1, <1>2 DEF Reading

LEMMA Received ==
  ASSUME IInv, RecvSome, NEW n, n = handled[cur] + 1,
         NEW g, NEW k, k = Smaller(Left, Len(inbuf[cur])),
         g = got \o SubSeq(inbuf[cur], 1, k)
  PROVE  /\ n \in 1 .. Len(script[cur]) /\ g \in Seq(Unit) /\ g # <<>>
         /\ \A j \in 1 .. Len(g) : g[j] = [msg |-> n, off |-> j]
         /\ Len(g) <= Need /\ Len(g) <= Lengths(cur)[n]
         /\ Len(g) < Need => inbuf'[cur] = <<>>
         /\ inbuf'[cur] \in Seq(Unit) /\ Good(Lengths(cur), inbuf'[cur])
         /\ IF inbuf'[cur] = <<>>
            THEN at[cur] = [msg |-> n, off |-> Len(g)]
            ELSE /\ inbuf'[cur][1] =
                      After(Lengths(cur), [msg |-> n, off |-> Len(g)])
                 /\ inbuf'[cur][Len(inbuf'[cur])] = at[cur]
<1> DEFINE L == Lengths(cur)
           N == Len(script[cur])
           s == inbuf[cur]
           t == SubSeq(s, k + 1, Len(s))
<1>0. Taking /\ Reading
  BY DEF RecvSome, Reading, Taking
<1>1. /\ cur \in Clients /\ script \in Scripts /\ got \in Seq(Unit)
      /\ s \in Seq(Unit) /\ s # <<>> /\ handled[cur] \in Nat
      /\ Good(L, s) /\ s[1] = After(L, Consumed(cur)) /\ s[Len(s)] = at[cur]
  BY <1>0, Reader DEF IInv, Types, RecvSome, Stream
<1>2. N \in Nat /\ L \in Functions(N)
  BY <1>1, LengthsIs
<1>3. Need \in Nat /\ Len(got) < Need /\ Len(got) \in Nat
  BY <1>0, NeedIs
<1>4. Len(s) \in Nat /\ Len(s) >= 1
  BY SMTT(30), <1>1
<1>5. /\ k \in 1 .. Len(s) /\ k \in Nat /\ k >= 1 /\ k <= Len(s)
      /\ Len(got) + k <= Need
      /\ Len(got) + k < Need => k = Len(s)
  BY <1>3, <1>4 DEF Smaller, Left
<1>6. inbuf'[cur] = t
  BY <1>1 DEF RecvSome, IInv, Types
<1>. HIDE DEF L, N, s, t
<1>7. s[1].msg \in 1 .. N
  BY <1>1, <1>2, <1>4 DEF Good, Valid, Functions
<1>8. /\ n \in 1 .. N /\ Need <= L[n]
      /\ s[1] = [msg |-> n, off |-> Len(got) + 1]
  <2>1. CASE got = <<>>
    <3>1. Consumed(cur) = End(L, handled[cur])
      BY <2>1 DEF Consumed, L
    <3>2. s[1] = [msg |-> n, off |-> 1] /\ Len(got) = 0
      BY <1>1, <2>1, <3>1 DEF After, End
    <3>3. n \in 1 .. N
      BY <1>7, <3>2
    <3>4. pc = "head"
      BY <1>0, <3>2, ConstantsAssumption DEF IInv, Taken, Reading
    <3>. QED
      BY <1>0, <1>2, <3>2, <3>3, <3>4, NeedIs DEF Functions
  <2>2. CASE got # <<>>
    <3>1. Consumed(cur) = [msg |-> n, off |-> Len(got)]
      BY <1>0, <2>2 DEF Consumed
    <3>2. n \in 1 .. N
      BY <1>0, <2>2 DEF IInv, Taken, N
    <3>3. Need <= L[n]
      <4>1. pc = "head" => Need = HeadLen
        BY <1>0, NeedIs
      <4>2. pc = "body" => Need = L[n]
        BY <1>0, NeedIs DEF L
      <4>3. L[n] \in Nat /\ L[n] >= HeadLen
        BY <1>2, <3>2 DEF Functions
      <4>. QED BY <1>0, <4>1, <4>2, <4>3 DEF Reading
    <3>4. L[n] \in Nat /\ n # 0
      BY <1>2, <3>2 DEF Functions
    <3>5. s[1] = [msg |-> n, off |-> Len(got) + 1]
      BY <1>1, <1>3, <3>1, <3>3, <3>4 DEF After, End
    <3>. QED BY <3>2, <3>3, <3>5
  <2>. QED BY <2>1, <2>2
<1>9. Len(got) + k <= L[n]
  <2>1. L[n] \in Nat
    BY <1>2, <1>8 DEF Functions
  <2>. QED BY SMTT(60), <2>1, <1>3, <1>5, <1>8
<1>10. /\ \A j \in 1 .. k : s[j] = [msg |-> n, off |-> Len(got) + j]
       /\ k < Len(s) => s[k + 1] = After(L, [msg |-> n, off |-> Len(got) + k])
  <2>1. s[1].msg = n /\ s[1].off - 1 = Len(got)
    BY <1>3, <1>8
  <2>2. s[1].off - 1 + k <= L[s[1].msg]
    BY <1>9, <2>1
  <2>3. /\ \A j \in 1 .. k :
             s[j] = [msg |-> s[1].msg, off |-> s[1].off - 1 + j]
        /\ k < Len(s) => s[k + 1] = After(L, s[k])
    BY <1>1, <1>2, <1>5, <2>2, Front
  <2>4. \A j \in 1 .. k : s[j] = [msg |-> n, off |-> Len(got) + j]
    BY <2>1, <2>3
  <2>5. k \in 1 .. k
    BY <1>5
  <2>. QED BY <2>3, <2>4, <2>5
<1>11. /\ g \in Seq(Unit) /\ Len(g) = Len(got) + k
       /\ \A j \in 1 .. Len(g) : g[j] = [msg |-> n, off |-> j]
  <2> DEFINE p == SubSeq(s, 1, k)
  <2>1. p \in Seq(Unit) /\ Len(p) = k /\ \A i \in 1 .. k : p[i] = s[i]
    <3>1. /\ p \in Seq(Unit) /\ Len(p) = k - 1 + 1
          /\ \A i \in 1 .. k - 1 + 1 : p[i] = s[1 + i - 1]
      <4>1. 1 \in Nat /\ 1 >= 1 /\ 1 <= k + 1 /\ k \in Nat /\ k <= Len(s)
        BY <1>5
      <4>. QED BY <1>1, <4>1, PieceIs
    <3>2. k - 1 + 1 = k /\ \A i \in 1 .. k : 1 + i - 1 = i
      BY <1>5
    <3>. QED BY <3>1, <3>2
  <2>2. g = got \o p
    BY DEF s
  <2>. HIDE DEF p
  <2>3. /\ g \in Seq(Unit) /\ Len(g) = Len(got) + k
        /\ \A i \in 1 .. Len(got) : g[i] = got[i]
        /\ \A i \in 1 .. k : g[Len(got) + i] = p[i]
    <3>1. /\ got \o p \in Seq(Unit) /\ Len(got \o p) = Len(got) + Len(p)
          /\ \A i \in 1 .. Len(got) : (got \o p)[i] = got[i]
          /\ \A i \in 1 .. Len(p) : (got \o p)[Len(got) + i] = p[i]
      <4>1. got \in Seq(Unit) /\ p \in Seq(Unit)
        BY <1>1, <2>1
      <4>. QED BY <4>1, ConcatIs
    <3>. QED BY <3>1, <2>1, <2>2
  <2>4. \A i \in 1 .. Len(got) : got[i] = [msg |-> n, off |-> i]
    BY <1>0 DEF IInv, Taken
  <2>5. ASSUME NEW j \in 1 .. Len(g) PROVE g[j] = [msg |-> n, off |-> j]
    <3>1. CASE j <= Len(got)
      <4>1. j \in 1 .. Len(got)
        BY <3>1, <1>3, <1>5, <2>3
      <4>. QED BY <4>1, <2>3, <2>4
    <3>2. CASE j > Len(got)
      <4>1. j - Len(got) \in 1 .. k /\ Len(got) + (j - Len(got)) = j
        BY <3>2, <1>3, <1>5, <2>3
      <4>2. g[j] = s[j - Len(got)]
        BY <4>1, <2>1, <2>3
      <4>. QED BY <4>1, <4>2, <1>10
    <3>. QED BY <3>1, <3>2, <1>3, <1>5, <2>3
  <2>. QED BY <2>3, <2>5
<1>12. /\ t \in Seq(Unit) /\ Len(t) = Len(s) - k /\ Good(L, t)
       /\ \A i \in 1 .. Len(t) : t[i] = s[k + i]
  <2>1. k \in 0 .. Len(s)
    BY <1>4, <1>5
  <2>. QED BY <1>1, <1>2, <2>1, Rest DEF t
<1>13. IF t = <<>>
       THEN at[cur] = [msg |-> n, off |-> Len(g)]
       ELSE /\ t[1] = After(L, [msg |-> n, off |-> Len(g)])
            /\ t[Len(t)] = at[cur]
  <2>1. CASE t = <<>>
    <3>1. k = Len(s) /\ k \in 1 .. k
      BY <2>1, <1>4, <1>5, <1>12
    <3>. QED BY <2>1, <3>1, <1>1, <1>10, <1>11
  <2>2. CASE t # <<>>
    <3>1. /\ 1 \in 1 .. Len(t) /\ Len(t) \in 1 .. Len(t) /\ k < Len(s)
          /\ k + Len(t) = Len(s)
      BY <2>2, <1>4, <1>5, <1>12
    <3>. QED BY SMTT(30), <2>2, <3>1, <1>1, <1>10, <1>11, <1>12
  <2>. QED BY <2>1, <2>2
<1>14. Len(g) < Need => t = <<>>
  BY <1>3, <1>4, <1>5, <1>11, <1>12
<1>15. g # <<>>
  <2>1. Len(g) \in Nat /\ Len(g) >= 1
    BY <1>3, <1>5, <1>11
  <2>2. g \in Seq(Unit) /\ Len(g) # 0
    BY <2>1, <1>11
  <2>. QED BY <2>2, NonEmpty
<1>. QED
  BY <1>5, <1>6, <1>8, <1>9, <1>11, <1>12, <1>13, <1>14, <1>15 DEF L, N

-----------------------------------------------------------------------------
(* Types and books *)

\* Units off + 1 .. k of message n arrive, which go on where at[c] is.
Comes(c, n, off, k) ==
  /\ off < k /\ k <= Lengths(c)[n]
  /\ at' = [at EXCEPT ![c] = [msg |-> n, off |-> k]]
  /\ \E t \in Seq(Unit) :
       Piece(t, n, off, k) /\ inbuf' = [inbuf EXCEPT ![c] = @ \o t]
  /\ torn' = IF k < Lengths(c)[n] THEN torn \cup {c} ELSE torn
  /\ at[c] = IF off = 0 THEN End(Lengths(c), n - 1)
                        ELSE [msg |-> n, off |-> off]

LEMMA Delivered ==
  ASSUME IInv, NEW c \in Clients, Deliver(c)
  PROVE  \E n \in 1 .. Len(script[c]) : \E off, k \in Nat :
           Comes(c, n, off, k)
<1> DEFINE L == Lengths(c)
           N == Len(script[c])
<1>1. /\ N \in Nat /\ L \in Functions(N) /\ at[c] \in Unit
      /\ \A n \in 1 .. N : Length(c, n) = L[n] /\ L[n] \in Nat
  BY LengthsIs DEF IInv, Types, Functions
<1>2. Sent(c)
  BY DEF IInv
<1>3. ASSUME NEW n \in 1 .. N, NEW off \in Nat, off <= L[n],
             Arrive(c, n, off)
      PROVE  \E k \in Nat :
               /\ off < k /\ k <= L[n]
               /\ at' = [at EXCEPT ![c] = [msg |-> n, off |-> k]]
               /\ \E t \in Seq(Unit) : Piece(t, n, off, k)
                                    /\ inbuf' = [inbuf EXCEPT ![c] = @ \o t]
               /\ torn' = IF k < L[n] THEN torn \cup {c} ELSE torn
  <2>1. Length(c, n) = L[n] /\ L[n] \in Nat
    BY <1>1
  <2>. HIDE DEF L, N
  <2>2. PICK k \in off + 1 .. Length(c, n) :
          /\ at' = [at EXCEPT ![c] = [msg |-> n, off |-> k]]
          /\ inbuf' = [inbuf EXCEPT ![c] =
                         @ \o SubSeq(Units(c, n), off + 1, k)]
          /\ torn' = IF k < Length(c, n) THEN torn \cup {c} ELSE torn
    BY <1>3 DEF Arrive
  <2>3. k \in Nat /\ off + 1 <= k /\ off < k /\ k <= L[n]
    BY <2>1
  <2> DEFINE t == SubSeq(Units(c, n), off + 1, k)
  <2>4. /\ Units(c, n) \in Seq(Unit) /\ Len(Units(c, n)) = L[n]
        /\ \A i \in 1 .. L[n] : Units(c, n)[i] = [msg |-> n, off |-> i]
    <3> DEFINE l == L[n]
    <3>1. n \in Nat /\ l \in Nat /\ Length(c, n) = l
      BY <1>1, <2>1
    <3>. HIDE DEF l
    <3>2. Units(c, n) = [i \in 1 .. l |-> [msg |-> n, off |-> i]]
      BY <3>1 DEF Units
    <3>3. \A i \in 1 .. l : [msg |-> n, off |-> i] \in Unit
      BY <3>1 DEF Unit
    <3>. QED BY <3>1, <3>2, <3>3 DEF l
  <2>5. /\ t \in Seq(Unit) /\ Len(t) = k - (off + 1) + 1
        /\ \A i \in 1 .. k - (off + 1) + 1 :
             t[i] = Units(c, n)[(off + 1) + i - 1]
    <3>1. /\ off + 1 \in Nat /\ k \in Nat /\ off + 1 >= 1
          /\ off + 1 <= k + 1 /\ k <= Len(Units(c, n))
      BY <2>3, <2>4
    <3>. QED BY <2>4, <3>1, PieceIs
  <2>. HIDE DEF t
  <2>6. Piece(t, n, off, k)
    <3>1. k - (off + 1) + 1 = k - off
      BY <2>3
    <3>2. \A i \in 1 .. k - off :
            (off + 1) + i - 1 = off + i /\ off + i \in 1 .. L[n]
      BY <2>1, <2>3
    <3>. QED BY <2>4, <2>5, <3>1, <3>2 DEF Piece
  <2>. QED BY <2>1, <2>2, <2>3, <2>5, <2>6 DEF t
<1>4. CASE AtEnd(c)
  <2>1. at[c].msg + 1 \in 1 .. N /\ Arrive(c, at[c].msg + 1, 0)
    BY <1>1, <1>4 DEF Deliver, Unit
  <2>2. at[c] = End(L, (at[c].msg + 1) - 1)
    <3>1. CASE at[c] = [msg |-> 0, off |-> 0]
      <4>1. (at[c].msg + 1) - 1 = 0
        BY <3>1
      <4>. QED BY <3>1, <4>1 DEF End
    <3>2. CASE at[c].msg \in 1 .. N
      <4>1. /\ (at[c].msg + 1) - 1 = at[c].msg /\ at[c].msg # 0
            /\ at[c].off = L[at[c].msg]
            /\ at[c] = [msg |-> at[c].msg, off |-> at[c].off]
        BY <1>1, <1>4, <3>2 DEF AtEnd, Unit
      <4>. QED BY <4>1 DEF End
    <3>. QED BY <1>2, <3>1, <3>2 DEF Sent
  <2>3. 0 \in Nat /\ 0 <= L[at[c].msg + 1]
    BY <1>1, <2>1
  <2>4. PICK k \in Nat :
          /\ 0 < k /\ k <= L[at[c].msg + 1]
          /\ at' = [at EXCEPT ![c] = [msg |-> at[c].msg + 1, off |-> k]]
          /\ \E t \in Seq(Unit) : /\ Piece(t, at[c].msg + 1, 0, k)
                               /\ inbuf' = [inbuf EXCEPT ![c] = @ \o t]
          /\ torn' = IF k < L[at[c].msg + 1] THEN torn \cup {c} ELSE torn
    BY <1>3, <2>1, <2>3
  <2>. QED BY <2>1, <2>2, <2>3, <2>4 DEF Comes
<1>5. CASE ~AtEnd(c)
  <2>1. /\ at[c].msg \in 1 .. N /\ at[c].off \in Nat
        /\ at[c].off # 0 /\ at[c].off <= L[at[c].msg]
        /\ at[c] = [msg |-> at[c].msg, off |-> at[c].off]
    BY <1>1, <1>2, <1>5 DEF AtEnd, Sent, Unit
  <2>2. Arrive(c, at[c].msg, at[c].off)
    BY <1>5 DEF Deliver
  <2>3. PICK k \in Nat :
          /\ at[c].off < k /\ k <= L[at[c].msg]
          /\ at' = [at EXCEPT ![c] = [msg |-> at[c].msg, off |-> k]]
          /\ \E t \in Seq(Unit) : /\ Piece(t, at[c].msg, at[c].off, k)
                               /\ inbuf' = [inbuf EXCEPT ![c] = @ \o t]
          /\ torn' = IF k < L[at[c].msg] THEN torn \cup {c} ELSE torn
    BY <1>3, <2>1, <2>2
  <2>. QED BY <2>1, <2>3 DEF Comes
<1>. QED BY <1>4, <1>5

LEMMA TypesNext == IInv /\ [Next]_vars => Types'
<1> SUFFICES ASSUME IInv, [Next]_vars PROVE Types'
  OBVIOUS
<1> USE DEF Types
<1>0. Types
  BY DEF IInv
<1>1. ASSUME NEW c \in Clients, Connect(c) \/ Close(c) \/ Reset(c) \/ Stall(c)
      PROVE  Types'
  BY <1>0, <1>1 DEF Connect, Close, Reset, Stall
<1>2. ASSUME NEW c \in Clients, Deliver(c) PROVE Types'
  <2>1. PICK n \in 1 .. Len(script[c]), k \in Nat :
          /\ at' = [at EXCEPT ![c] = [msg |-> n, off |-> k]]
          /\ \E t \in Seq(Unit) : inbuf' = [inbuf EXCEPT ![c] = @ \o t]
          /\ torn' = torn \cup {c} \/ torn' = torn
    <3>1. PICK n \in 1 .. Len(script[c]), off \in Nat, k \in Nat :
            Comes(c, n, off, k)
      BY <1>2, Delivered
    <3>. QED BY <3>1 DEF Comes
  <2>2. PICK t \in Seq(Unit) : inbuf' = [inbuf EXCEPT ![c] = @ \o t]
    BY <2>1
  <2>3. inbuf[c] \o t \in Seq(Unit)
    BY <1>0, ConcatIs
  <2>4. at' \in [Clients -> Unit] /\ inbuf' \in [Clients -> Seq(Unit)]
    BY <1>0, <2>1, <2>2, <2>3 DEF Unit
  <2>5. UNCHANGED <<limit, script, peer, stalled, fd, serverVars>>
    BY <1>2 DEF Deliver, Arrive
  <2>6. torn' \subseteq Clients
    BY <1>0, <2>1
  <2>. QED BY <1>0, <2>4, <2>5, <2>6
<1>3. CASE Wait
  <2>1. Events \subseteq [of : Clients \cup {Listen}, err : BOOLEAN]
    <3>1. ASSUME NEW c \in Clients
          PROVE  [of |-> c, err |-> Errored(c)]
                   \in [of : Clients \cup {Listen}, err : BOOLEAN]
      BY DEF Errored
    <3>2. [of |-> Listen, err |-> FALSE]
            \in [of : Clients \cup {Listen}, err : BOOLEAN]
      OBVIOUS
    <3>3. {[of |-> c, err |-> Errored(c)] : c \in {d \in Open : Readable(d)}}
             \subseteq [of : Clients \cup {Listen}, err : BOOLEAN]
      BY <3>1, Zenon DEF Open
    <3>. QED BY <3>2, <3>3 DEF Events
  <2>. QED BY <1>0, <1>3, <2>1 DEF Wait
<1>9. CASE Accept \/ AcceptFails \/ Break
  BY <1>0, <1>9 DEF Accept, AcceptFails, Break, Take, Queued
<1>4. ASSUME NEW c \in Clients, Ready(c) PROVE Types'
  BY <1>0, <1>4 DEF Ready, Take
<1>5. CASE RecvSome
  <2>1. Taking /\ cur \in Clients
    BY <1>5, Reader DEF RecvSome, Reading, Taking
  <2>2. inbuf'[cur] \in Seq(Unit) /\ got' \in Seq(Unit)
    BY <1>5, Received DEF RecvSome
  <2>3. inbuf' \in [Clients -> Seq(Unit)]
    BY <1>0, <1>5, <2>1, <2>2 DEF RecvSome
  <2>4. /\ pc' \in {"loop", "head", "body", "handle", "reply", "exited"}
        /\ fd' \in [Clients -> {"none", "queued", "open", "closed"}]
        /\ ctx' \subseteq Clients
    BY <1>0, <1>5 DEF RecvSome, NextPart, Drop, Erased
  <2>. QED BY <1>0, <1>5, <2>2, <2>3, <2>4 DEF RecvSome
<1>6. CASE RecvError \/ RecvEOF \/ SendTimeout \/ SendFails
  BY <1>0, <1>6
  DEF RecvError, RecvEOF, SendTimeout, SendFails, Drop, Erased
<1>7. CASE Handle \/ Send
  BY <1>0, <1>7 DEF Handle, Send
<1>8. CASE RecvSpin \/ UNCHANGED vars
  BY <1>0, <1>8 DEF RecvSpin, vars
<1>. QED BY <1>1, <1>2, <1>3, <1>4, <1>5, <1>6, <1>7, <1>8, <1>9
  DEF Next, Client, Server

\* The connection in hand is dropped.
LEMMA BooksDropped ==
  ASSUME IInv, cur \in Clients, cur \in Open, Drop(cur),
         UNCHANGED <<peer, round, cur>>,
         \A c \in Clients : c # cur => inbuf'[c] = inbuf[c],
         \A e \in round : e.of # cur, ~Busy'
  PROVE  Books'
<1>0. Books /\ Types
  BY DEF IInv
<1>1. Open' = Open \ {cur}
  BY <1>0 DEF Open, Drop, Types
<1>2. IsFiniteSet(Open')
  BY <1>0, <1>1, FS_RemoveElement DEF Books
<1>3. ctx' \subseteq Open'
  BY <1>0, <1>1 DEF Books, Drop, Erased
<1>4. \A e \in round' : e.of \in Open' \cup {Listen}
  BY <1>0, <1>1 DEF Books
<1>5. \A e \in round' : e.of \in Clients => Ripe(e.of)'
  BY <1>0 DEF Books, Ripe
<1>6. \A c \in Clients : peer'[c] = "none" => fd'[c] = "none"
  <2>1. peer[cur] # "none"
    BY <1>0 DEF Books, Open
  <2>. QED BY <1>0, <2>1 DEF Books, Drop, Types
<1>7. ~Reading'
  BY DEF Busy, Reading
<1>. QED BY <1>0, <1>2, <1>3, <1>4, <1>5, <1>6, <1>7 DEF Books

LEMMA BooksNext == IInv /\ [Next]_vars => Books'
<1> SUFFICES ASSUME IInv, [Next]_vars PROVE Books'
  OBVIOUS
<1>0. Books /\ Types
  BY DEF IInv
<1>1. \A e \in round : e.of \in Clients => Ripe(e.of)
  BY <1>0 DEF Books
<1>2. ASSUME NEW c \in Clients, Connect(c) PROVE Books'
  <2>1. fd[c] = "none"
    BY <1>0, <1>2 DEF Books, Connect
  <2>2. Open' = Open
    BY <1>0, <1>2, <2>1 DEF Connect, Open, Types
  <2>3. \A d \in Clients : Ripe(d) => Ripe(d)'
    BY <1>0, <1>2 DEF Connect, Ripe, Types
  <2>4. \A d \in Clients : peer'[d] = "none" => fd'[d] = "none"
    BY <1>0, <1>2 DEF Books, Connect, Types
  <2>5. Busy' = Busy /\ Reading' = Reading
    BY <1>2 DEF Connect, Busy, Reading
  <2>6. Reading => cur \in Clients
    BY <1>0 DEF Books, Reading, Busy, Types
  <2>. QED BY <1>0, <1>2, <2>2, <2>3, <2>4, <2>5, <2>6 DEF Books, Connect
<1>3. ASSUME NEW c \in Clients, Deliver(c) PROVE Books'
  <2>1. PICK n \in 1 .. Len(script[c]), off \in Nat, k \in Nat :
          Comes(c, n, off, k)
    BY <1>3, Delivered
  <2>2. UNCHANGED <<peer, fd, ctx, round, cur, pc, got>>
    BY <1>3 DEF Deliver, Arrive
  <2>3. \A d \in Clients : inbuf[d] # <<>> => inbuf'[d] # <<>>
    <3>1. PICK t \in Seq(Unit) : inbuf' = [inbuf EXCEPT ![c] = @ \o t]
      BY <2>1 DEF Comes
    <3>2. inbuf[c] \in Seq(Unit) /\ inbuf'[c] = inbuf[c] \o t
      BY <1>0, <3>1 DEF Types
    <3>3. inbuf[c] # <<>> => inbuf'[c] # <<>>
      BY <3>2
    <3>. QED BY <1>0, <3>1, <3>3 DEF Types
  <2>4. \A d \in Clients : Ripe(d) => Ripe(d)'
    BY <2>2, <2>3 DEF Ripe
  <2>5. Busy' = Busy /\ Reading' = Reading /\ Open' = Open
    BY <2>2 DEF Busy, Reading, Open
  <2>6. Reading => cur \in Clients
    BY <1>0 DEF Books, Reading, Busy, Types
  <2>. QED BY <1>0, <2>2, <2>4, <2>5, <2>6 DEF Books
<1>4. ASSUME NEW c \in Clients, Close(c) \/ Reset(c) \/ Stall(c) PROVE Books'
  <2>1. UNCHANGED <<inbuf, fd, ctx, round, cur, pc, got>>
    BY <1>4 DEF Close, Reset, Stall
  <2>2. \A d \in Clients : Ripe(d) => Ripe(d)'
    BY <1>0, <1>4 DEF Close, Reset, Stall, Ripe, Types
  <2>3. \A d \in Clients : peer'[d] = "none" => peer[d] = "none"
    BY <1>0, <1>4 DEF Close, Reset, Stall, Types
  <2>4. Busy' = Busy /\ Reading' = Reading /\ Open' = Open
    BY <2>1 DEF Busy, Reading, Open
  <2>5. Reading => cur \in Clients
    BY <1>0 DEF Books, Reading, Busy, Types
  <2>. QED BY <1>0, <2>1, <2>2, <2>3, <2>4, <2>5 DEF Books
<1>5. CASE Wait
  <2>1. /\ UNCHANGED <<peer, inbuf, fd, ctx, cur, pc, got>>
        /\ round' = Events /\ pc = "loop"
    BY <1>5 DEF Wait
  <2>2. ASSUME NEW e \in Events
        PROVE  \/ e.of = Listen /\ e = [of |-> Listen, err |-> FALSE]
               \/ /\ e.of \in Open /\ Readable(e.of)
                  /\ e = [of |-> e.of, err |-> Errored(e.of)]
    BY DEF Events
  <2>3. Listen \notin Clients /\ Open \subseteq Clients
    BY ConstantsAssumption DEF Open
  <2>4. ASSUME NEW e \in Events, e.of \in Clients PROVE Ripe(e.of)
    <3>1. e.of \in Open /\ Readable(e.of)
      BY <2>2, <2>3, <2>4
    <3>2. peer[e.of] # "none"
      BY <1>0, <2>4, <3>1 DEF Books, Open
    <3>. QED BY <1>0, <2>4, <3>1, <3>2 DEF Types, Readable, Ripe
  <2>5. \A e, f \in Events : e.of = f.of => e = f
    BY <2>2, <2>3
  <2>6. Open' = Open /\ ~Busy' /\ ~Reading'
    BY <2>1 DEF Open, Busy, Reading
  <2>7. \A e \in round' : e.of \in Clients => Ripe(e.of)'
    BY <2>1, <2>4 DEF Ripe
  <2>8. \A e \in round' : e.of \in Open \cup {Listen}
    BY <2>1, <2>2
  <2>. QED BY <1>0, <2>1, <2>5, <2>6, <2>7, <2>8 DEF Books
<1>6. CASE Break \/ AcceptFails \/ Send \/ RecvSpin \/ UNCHANGED vars
  <2>1. /\ UNCHANGED <<peer, inbuf, fd, ctx, cur, got>>
        /\ round' \subseteq round
        /\ pc' \in {"loop", "exited"} \/ pc' = pc
    BY <1>6 DEF Break, AcceptFails, Send, RecvSpin, vars, Take
  <2>2. \A e \in round' : e.of \in Clients => Ripe(e.of)'
    BY <1>1, <2>1 DEF Ripe
  <2>3. /\ pc' \in {"loop", "exited"} \/ ~Busy' \/ Busy
        /\ Reading' => Reading
    BY <2>1 DEF Busy, Reading
  <2>4. Open' = Open
    BY <2>1 DEF Open
  <2>5. Busy' => Busy
    BY <2>1 DEF Busy
  <2>6. Reading' /\ got' = <<>> => Ripe(cur)'
    BY <1>0, <2>1, <2>3 DEF Books, Ripe
  <2>. QED BY <1>0, <2>1, <2>2, <2>4, <2>5, <2>6 DEF Books
<1>7. CASE Accept
  <2>1. PICK c \in Queued : fd' = [fd EXCEPT ![c] = "open"]
    BY <1>7 DEF Accept
  <2>2. Open' = Open \cup {c} /\ c \in Clients /\ fd[c] = "queued"
    BY <1>0, <2>1 DEF Open, Queued, Types
  <2>3. IsFiniteSet(Open')
    BY <1>0, <2>2, FS_AddElement DEF Books
  <2>4. /\ UNCHANGED <<peer, inbuf, ctx, cur, pc, got>> /\ pc = "loop"
        /\ round' \subseteq round
    BY <1>7 DEF Accept, Take
  <2>5. \A e \in round' : e.of \in Clients => Ripe(e.of)'
    BY <1>1, <2>4 DEF Ripe
  <2>6. ~Busy' /\ ~Reading'
    BY <2>4 DEF Busy, Reading
  <2>7. \A d \in Clients : peer'[d] = "none" => fd'[d] = "none"
    BY <1>0, <2>1, <2>2, <2>4 DEF Books, Types
  <2>. QED BY <1>0, <2>2, <2>3, <2>4, <2>5, <2>6, <2>7 DEF Books
<1>8. ASSUME NEW c \in Clients, Ready(c) PROVE Books'
  <2>1. PICK e \in round : e.of = c /\ round' = round \ {e}
    BY <1>8 DEF Ready, Take
  <2>2. /\ UNCHANGED <<peer, inbuf, fd>> /\ cur' = c /\ ctx' = ctx \cup {c}
    BY <1>8 DEF Ready
  <2>3. c \in Open /\ Ripe(c) /\ \A f \in round' : f.of # c
    BY <1>0, <2>1, ConstantsAssumption DEF Books
  <2>4. Open' = Open
    BY <2>2 DEF Open
  <2>5. \A f \in round' : f.of \in Clients => Ripe(f.of)'
    BY <1>1, <2>1, <2>2 DEF Ripe
  <2>6. Ripe(cur)'
    BY <2>2, <2>3 DEF Ripe
  <2>. QED BY <1>0, <2>1, <2>2, <2>3, <2>4, <2>5, <2>6 DEF Books
<1>9. ASSUME Busy PROVE /\ cur \in Clients /\ cur \in ctx /\ cur \in Open
                        /\ \A e \in round : e.of # cur
  BY <1>0, <1>9 DEF Books, Types
<1>10. CASE RecvError \/ RecvEOF \/ SendTimeout \/ SendFails
  <2>1. /\ Busy /\ Drop(cur) /\ UNCHANGED <<peer, inbuf, round, cur>>
        /\ pc' \in {"loop", "exited"}
    BY <1>10 DEF RecvError, RecvEOF, AtEOF, SendTimeout, SendFails, Busy,
                 Reading
  <2>2. ~Busy'
    BY <2>1 DEF Busy
  <2>. QED BY <1>9, <2>1, <2>2, BooksDropped
<1>11. CASE RecvSome
  <2>1. /\ Busy /\ UNCHANGED <<peer, round, cur>>
        /\ \A c \in Clients : c # cur => inbuf'[c] = inbuf[c]
        /\ got' # <<>>
    <3>1. got' # <<>>
      BY <1>11, Received DEF RecvSome
    <3>. QED BY <1>0, <1>11, <3>1 DEF RecvSome, Busy, Reading, Types
  <2>2. CASE Drop(cur) /\ pc' = "loop"
    <3>1. ~Busy'
      BY <2>2 DEF Busy
    <3>. QED BY <1>9, <2>1, <2>2, <3>1, BooksDropped
  <2>3. CASE UNCHANGED <<fd, ctx>>
    <3>1. Open' = Open
      BY <2>3 DEF Open
    <3>2. \A e \in round' : e.of \in Clients => Ripe(e.of)'
      BY <1>1, <1>9, <2>1 DEF Ripe
    <3>. QED BY <1>0, <1>9, <2>1, <2>3, <3>1, <3>2 DEF Books
  <2>. QED BY <1>11, <2>2, <2>3 DEF RecvSome
<1>12. CASE Handle
  <2>1. UNCHANGED <<peer, inbuf, fd, ctx, round, cur>> /\ Busy /\ ~Reading'
    BY <1>12 DEF Handle, Busy, Reading
  <2>2. Open' = Open
    BY <2>1 DEF Open
  <2>3. \A e \in round' : e.of \in Clients => Ripe(e.of)'
    BY <1>1, <2>1 DEF Ripe
  <2>. QED BY <1>0, <2>1, <2>2, <2>3 DEF Books
<1>. QED BY <1>2, <1>3, <1>4, <1>5, <1>6, <1>7, <1>8, <1>10, <1>11, <1>12
  DEF Next, Client, Server

-----------------------------------------------------------------------------
(* The message in hand *)

LEMMA TakenNext == IInv /\ [Next]_vars => Taken'
<1> SUFFICES ASSUME IInv, [Next]_vars PROVE Taken'
  OBVIOUS
<1>0. Types /\ Taken /\ script' = script
  <2>1. script' = script
    BY DEF Next, Client, Server, Connect, Deliver, Arrive, Close, Reset, Stall,
           Wait, Break, Accept, AcceptFails, Ready, RecvSome, RecvError,
           RecvEOF, RecvSpin, Handle, Send, SendTimeout, SendFails, vars
  <2>. QED BY <2>1 DEF IInv
<1>1. \A c \in Clients : Lengths(c)' = Lengths(c)
  BY <1>0 DEF Lengths, Length
<1>2. ASSUME UNCHANGED <<pc, cur, got, handled>> PROVE Taken'
  <2>1. Taking' <=> Taking
    BY <1>2 DEF Taking
  <2>2. Taking => Lengths(cur)' = Lengths(cur)
    BY <1>0, <1>2 DEF Lengths, Length
  <2>. QED BY <1>0, <1>2, <2>1, <2>2 DEF Taken
<1>3. ASSUME pc' \in {"loop", "reply", "exited"} PROVE Taken'
  BY <1>3 DEF Taken, Taking
<1>4. ASSUME NEW c \in Clients, Ready(c) PROVE Taken'
  BY <1>4, ConstantsAssumption DEF Ready, Taken
<1>5. CASE RecvSome
  <2> DEFINE n == handled[cur] + 1
             k == Smaller(Left, Len(inbuf[cur]))
             g == got \o SubSeq(inbuf[cur], 1, k)
             L == Lengths(cur)
  <2>1. /\ n \in 1 .. Len(script[cur]) /\ g \in Seq(Unit) /\ g # <<>>
        /\ \A j \in 1 .. Len(g) : g[j] = [msg |-> n, off |-> j]
        /\ Len(g) <= Need /\ Len(g) <= L[n]
    BY <1>5, Received
  <2>2. /\ got' = g /\ UNCHANGED <<cur, handled>> /\ Reading
        /\ \/ Len(g) = Need /\ pc' = NextPart(g)
           \/ Len(g) # Need /\ pc' = pc
           \/ pc' = "loop"
    BY <1>5 DEF RecvSome, Finished
  <2>3. /\ pc = "head" => Need = HeadLen
        /\ pc = "body" => Need = L[n]
        /\ Need \in Nat /\ cur \in Clients
    BY <2>2, <1>5, NeedIs, Reader DEF RecvSome, Reading, Taking
  <2>. HIDE DEF n, g, L, k
  <2>4. BodySize(g) = script[cur][n].size /\ script[cur][n].size \in Nat
        /\ L[n] = HeadLen + script[cur][n].size /\ L[n] \in Nat
    <3>1. 1 \in 1 .. Len(g)
      BY <2>1
    <3>2. g[1].msg = n
      <4>1. g[1] = [msg |-> n, off |-> 1]
        BY <2>1, <3>1
      <4>. QED BY <4>1
    <3>3. L[n] = Length(cur, n) /\ script[cur][n].size \in Nat
      BY <1>0, <2>1, <2>3, LengthsIs DEF Types, L
    <3>4. BodySize(g) = script[cur][n].size
      BY <3>2 DEF BodySize
    <3>5. L[n] = HeadLen + script[cur][n].size
      BY <3>3 DEF Length
    <3>. QED BY <3>3, <3>4, <3>5, ConstantsAssumption
  <2>5. Lengths(cur)' = L
    BY <1>1, <2>2, <2>3 DEF L
  <2>6. Len(g) \in Nat
    BY <2>1
  <2>7. script'[cur] = script[cur] /\ cur' = cur
    BY <1>0, <2>2
  <2>8. /\ pc' = "head" => Len(g) < HeadLen
        /\ pc' = "body" => Len(g) >= HeadLen /\ Len(g) < L[n]
        /\ pc' = "handle" => Len(g) = L[n]
    <3> DEFINE size == script[cur][n].size
               len == Len(g)
    <3>1. /\ HeadLen \in Nat /\ size \in Nat /\ len \in Nat /\ len <= L[n]
          /\ L[n] = HeadLen + size /\ BodySize(g) = size
      BY <2>1, <2>4, <2>6, ConstantsAssumption
    <3>2. pc = "body" => len >= HeadLen
      <4>1. pc = "body" => Len(got) >= HeadLen /\ Len(got) \in Nat
        BY <1>0 DEF Taken, Taking, Types
      <4>2. len >= Len(got)
        <5>1. got \in Seq(Unit) /\ SubSeq(inbuf[cur], 1, k) \in Seq(Unit)
          <6>1. inbuf[cur] \in Seq(Unit)
            BY <1>0, <2>3 DEF Types
          <6>2. k \in 1 .. Len(inbuf[cur])
            BY <1>5, <2>2, <2>3, <6>1, NeedIs, NonEmpty
            DEF k, Smaller, Left, RecvSome
          <6>. QED BY <1>0, <6>1, <6>2 DEF Types
        <5>2. Len(g) = Len(got) + Len(SubSeq(inbuf[cur], 1, k))
          BY <5>1, ConcatIs DEF g
        <5>. QED BY <5>1, <5>2
      <4>. QED BY <4>1, <4>2, <3>1
    <3>. HIDE DEF size, len
    <3>3. CASE pc = "head"
      <4>1. Need = HeadLen /\ len <= Need
        BY <2>1, <2>3, <3>3 DEF len
      <4>2. \/ len = Need /\ pc' = IF size > 0 THEN "body" ELSE "handle"
            \/ len # Need /\ pc' = "head"
            \/ pc' = "loop"
        BY <2>2, <3>1, <3>3 DEF NextPart, len
      <4>. QED BY <3>1, <4>1, <4>2 DEF len
    <3>4. CASE pc = "body"
      <4>1. Need = L[n] /\ len <= Need
        BY <2>1, <2>3, <3>4 DEF len
      <4>2. \/ len = Need /\ pc' = "handle"
            \/ len # Need /\ pc' = "body"
            \/ pc' = "loop"
        BY <2>2, <3>4 DEF NextPart, len
      <4>. QED BY <3>1, <3>2, <3>4, <4>1, <4>2 DEF len
    <3>. QED BY <2>2, <3>3, <3>4 DEF Reading
  <2>9. handled'[cur'] + 1 = n
    BY <2>2 DEF n
  <2>. QED BY <2>1, <2>2, <2>5, <2>7, <2>8, <2>9 DEF Taken
<1>6. CASE Handle
  BY <1>3, <1>6 DEF Handle
<1>7. CASE \/ Break \/ Accept \/ AcceptFails \/ RecvError \/ RecvEOF
           \/ Send \/ SendTimeout \/ SendFails \/ Wait
  BY <1>3, <1>7 DEF Wait, Break, Accept, AcceptFails, Take, RecvError, RecvEOF,
                    Send, SendTimeout, SendFails
<1>8. ASSUME NEW c \in Clients, Client(c) PROVE Taken'
  BY <1>2, <1>8
  DEF Client, Connect, Deliver, Arrive, Close, Reset, Stall
<1>9. CASE RecvSpin \/ UNCHANGED vars
  BY <1>2, <1>9 DEF RecvSpin, vars
<1>. QED BY <1>4, <1>5, <1>6, <1>7, <1>8, <1>9 DEF Next, Server

-----------------------------------------------------------------------------
(* What is sent and what is read *)

LEMMA Fixed == [Next]_vars => UNCHANGED <<script, limit>>
  BY DEF Next, Client, Server, Connect, Deliver, Arrive, Close, Reset, Stall,
         Wait, Break, Accept, AcceptFails, Ready, RecvSome, RecvError,
         RecvEOF, RecvSpin, Handle, Send, SendTimeout, SendFails, vars

LEMMA SentNext ==
  ASSUME IInv, [Next]_vars, NEW d \in Clients
  PROVE  Sent(d)'
<1>0. Types /\ Sent(d) /\ script' = script /\ Lengths(d)' = Lengths(d)
  <2>1. script' = script
    BY Fixed
  <2>. QED BY <2>1 DEF IInv, Lengths, Length
<1>1. ASSUME UNCHANGED <<at, torn, handled>> PROVE Sent(d)'
  BY <1>0, <1>1 DEF Sent
<1>2. ASSUME NEW c \in Clients, Deliver(c) PROVE Sent(d)'
  <2>1. PICK n \in 1 .. Len(script[c]), off \in Nat, k \in Nat :
          Comes(c, n, off, k)
    BY <1>2, Delivered
  <2>2. UNCHANGED handled
    BY <1>2 DEF Deliver, Arrive
  <2>3. CASE d = c
    <3>1. at'[d] = [msg |-> n, off |-> k] /\ off < k /\ k <= Lengths(d)[n]
          /\ torn' = IF k < Lengths(d)[n] THEN torn \cup {d} ELSE torn
      BY <1>0, <2>1, <2>3 DEF Comes, Types
    <3>2. Lengths(d)[n] \in Nat /\ n # 0 /\ n \in 1 .. Len(script[d])
      BY <1>0, <2>3, LengthsIs DEF Types, Functions
    <3>3. k \in 1 .. Lengths(d)[n]
      BY <3>1, <3>2
    <3>4. d \notin torn' => k = Lengths(d)[n]
      BY <3>1, <3>2
    <3>5. d \notin torn' => at'[d] = End(Lengths(d), n)
      BY <3>1, <3>2, <3>4 DEF End
    <3>6. at'[d].msg = n /\ at'[d].off = k
      BY <3>1
    <3>. QED BY <1>0, <2>2, <3>2, <3>3, <3>5, <3>6 DEF Sent
  <2>4. CASE d # c
    <3>1. at'[d] = at[d] /\ (d \notin torn' => d \notin torn)
      BY <1>0, <2>1, <2>4 DEF Comes, Types
    <3>. QED BY <1>0, <2>2, <3>1 DEF Sent
  <2>. QED BY <2>3, <2>4
<1>3. CASE Handle
  <2>1. CASE d = cur
    <3>1. handled'[d] = handled[d] + 1 /\ UNCHANGED <<at, torn>>
      BY <1>0, <1>3, <2>1 DEF Handle, Types
    <3>2. handled[d] + 1 \in 1 .. Len(script[d])
      <4>1. Taking /\ pc # "head"
        BY <1>3 DEF Handle, Taking
      <4>. QED BY <2>1, <4>1 DEF IInv, Taken
    <3>3. handled'[d] \in 0 .. Len(script[d])
      BY <3>1, <3>2
    <3>. QED BY <1>0, <3>1, <3>3 DEF Sent
  <2>2. CASE d # cur
    <3>1. handled'[d] = handled[d] /\ UNCHANGED <<at, torn>>
      BY <1>0, <1>3, <2>2 DEF Handle, Types
    <3>. QED BY <1>0, <3>1 DEF Sent
  <2>. QED BY <2>1, <2>2
<1>4. ASSUME NEW c \in Clients,
             Connect(c) \/ Close(c) \/ Reset(c) \/ Stall(c) \/ Ready(c)
      PROVE  Sent(d)'
  BY <1>1, <1>4 DEF Connect, Close, Reset, Stall, Ready
<1>5. CASE \/ Wait \/ Break \/ Accept \/ AcceptFails \/ RecvSome \/ RecvError
           \/ RecvEOF \/ RecvSpin \/ Send \/ SendTimeout \/ SendFails
           \/ UNCHANGED vars
  BY <1>1, <1>5
  DEF Wait, Break, Accept, AcceptFails, RecvSome, RecvError, RecvEOF, RecvSpin,
      Send, SendTimeout, SendFails, vars
<1>. QED BY <1>2, <1>3, <1>4, <1>5 DEF Next, Client, Server

LEMMA StreamSame ==
  ASSUME NEW d \in Clients, Stream(d), script' = script,
         inbuf'[d] = inbuf[d], at'[d] = at[d], Consumed(d)' = Consumed(d)
  PROVE  Stream(d)'
<1>1. Lengths(d)' = Lengths(d)
  BY DEF Lengths, Length
<1>. QED BY <1>1 DEF Stream

LEMMA StreamNext ==
  ASSUME IInv, [Next]_vars, NEW d \in Clients, fd'[d] # "closed"
  PROVE  Stream(d)'
<1>0. /\ Types /\ Books /\ script' = script /\ Lengths(d)' = Lengths(d)
      /\ End(Lengths(d), handled[d])' = End(Lengths(d), handled'[d])
  <2>1. script' = script
    BY Fixed
  <2>. QED BY <2>1 DEF IInv, Lengths, Length, End
<1>1. ASSUME fd[d] # "closed" PROVE Stream(d)
  BY <1>1 DEF IInv
<1>2. ASSUME UNCHANGED <<pc, cur, got, handled>>
      PROVE  Consumed(d)' = Consumed(d)
  BY <1>0, <1>2 DEF Consumed, Taking, End
<1>3. ASSUME NEW c \in Clients,
             Connect(c) \/ Close(c) \/ Reset(c) \/ Stall(c)
      PROVE  Stream(d)'
  <2>1. UNCHANGED <<pc, cur, got, handled, inbuf, at>>
    BY <1>3 DEF Connect, Close, Reset, Stall
  <2>2. fd[d] # "closed"
    <3>1. Connect(c) => fd[c] = "none"
      BY <1>0 DEF Connect, Books
    <3>. QED BY <1>0, <1>3, <3>1 DEF Connect, Close, Reset, Stall, Types
  <2>. QED BY <1>0, <1>1, <1>2, <2>1, <2>2, StreamSame
<1>4. ASSUME NEW c \in Clients, Deliver(c) PROVE Stream(d)'
  <2>1. PICK n \in 1 .. Len(script[c]), off \in Nat, k \in Nat :
          Comes(c, n, off, k)
    BY <1>4, Delivered
  <2>2. UNCHANGED <<pc, cur, got, handled, fd>>
    BY <1>4 DEF Deliver, Arrive
  <2>3. Stream(d) /\ Consumed(d)' = Consumed(d)
    BY <1>1, <1>2, <2>2
  <2>4. CASE d # c
    <3>1. inbuf'[d] = inbuf[d] /\ at'[d] = at[d]
      BY <1>0, <2>1, <2>4 DEF Comes, Types
    <3>. QED BY <1>0, <2>3, <3>1, StreamSame
  <2>5. CASE d = c
    <3> DEFINE L == Lengths(d)
               N == Len(script[d])
               s == inbuf[d]
    <3>1. PICK t \in Seq(Unit) : /\ Piece(t, n, off, k)
                                 /\ inbuf' = [inbuf EXCEPT ![c] = @ \o t]
      BY <2>1 DEF Comes
    <3>2. /\ inbuf'[d] = s \o t /\ at'[d] = [msg |-> n, off |-> k]
          /\ n \in 1 .. N /\ s \in Seq(Unit) /\ off < k /\ k <= L[n]
          /\ at[d] = IF off = 0 THEN End(L, n - 1)
                               ELSE [msg |-> n, off |-> off]
      BY <1>0, <2>1, <2>5, <3>1 DEF Comes, Types
    <3>3. N \in Nat /\ L \in Functions(N)
      BY <1>0, LengthsIs DEF Types
    <3>4. Good(L, s) /\ (s # <<>> => s[Len(s)] = at[d])
      BY <2>3 DEF Stream
    <3>5. Fits(L, s, n, off)
      BY <3>2, <3>4 DEF Fits
    <3>. HIDE DEF L, N, s
    <3>6. /\ Good(L, s \o t) /\ s \o t # <<>>
          /\ (s \o t)[Len(s \o t)] = [msg |-> n, off |-> k]
          /\ s = <<>> => (s \o t)[1] = [msg |-> n, off |-> off + 1]
          /\ s # <<>> => (s \o t)[1] = s[1]
      BY <3>1, <3>2, <3>3, <3>4, <3>5, Joined
    <3>7. s = <<>> => [msg |-> n, off |-> off + 1] = After(L, Consumed(d))
      <4>1. s = <<>> => Consumed(d) = at[d]
        BY <2>3 DEF Stream, s
      <4>2. [msg |-> n, off |-> off + 1] = After(L, at[d])
        <5>1. n \in Nat /\ n # 0 /\ (n - 1) + 1 = n /\ L[n] \in Nat
          BY <3>2, <3>3 DEF Functions
        <5>2. CASE off = 0
          <6>1. at[d] = End(L, n - 1) /\ at[d].msg = n - 1
            BY <3>2, <5>2 DEF End
          <6>. QED BY <5>1, <5>2, <6>1 DEF After
        <5>3. CASE off # 0
          <6>1. at[d] = [msg |-> n, off |-> off] /\ off # L[n]
            BY <3>2, <5>1, <5>3
          <6>. QED BY <5>1, <6>1 DEF After, End
        <5>. QED BY <5>2, <5>3
      <4>. QED BY <4>1, <4>2
    <3>8. s # <<>> => s[1] = After(L, Consumed(d))
      BY <2>3 DEF Stream, L, s
    <3>. QED BY <1>0, <2>3, <3>2, <3>6, <3>7, <3>8 DEF Stream, L
  <2>. QED BY <2>4, <2>5
<1>5. ASSUME UNCHANGED <<inbuf, at, handled>>, ~Taking, ~Taking',
             fd[d] # "closed"
      PROVE  Stream(d)'
  <2>1. Consumed(d)' = Consumed(d)
    BY <1>0, <1>5 DEF Consumed, End
  <2>. QED BY <1>0, <1>1, <1>5, <2>1, StreamSame
<1>6. CASE Wait \/ Break \/ Accept \/ AcceptFails
  BY <1>0, <1>5, <1>6
  DEF Wait, Break, Accept, AcceptFails, Take, Taking, Queued, Types
<1>7. ASSUME NEW c \in Clients, Ready(c) PROVE Stream(d)'
  <2>1. /\ UNCHANGED <<inbuf, at, handled, fd>> /\ ~Taking /\ got' = <<>>
    BY <1>7 DEF Ready, Take, Taking
  <2>2. Consumed(d)' = Consumed(d)
    BY <1>0, <2>1 DEF Consumed, End
  <2>. QED BY <1>0, <1>1, <2>1, <2>2, StreamSame
<1>8. ASSUME d # cur, UNCHANGED <<cur, at>>, inbuf'[d] = inbuf[d],
             handled'[d] = handled[d], fd'[d] = fd[d]
      PROVE  Stream(d)'
  <2>1. Consumed(d)' = Consumed(d)
    BY <1>0, <1>8 DEF Consumed, End
  <2>. QED BY <1>0, <1>1, <1>8, <2>1, StreamSame
<1>9. CASE RecvSome
  <2>1. UNCHANGED <<cur, at, handled>>
    BY <1>9 DEF RecvSome
  <2>2. CASE d # cur
    BY <1>0, <1>8, <1>9, <2>1, <2>2 DEF RecvSome, Drop, Types
  <2>3. CASE d = cur
    <3> DEFINE n == handled[cur] + 1
               k == Smaller(Left, Len(inbuf[cur]))
               g == got \o SubSeq(inbuf[cur], 1, k)
               L == Lengths(cur)
    <3>1. /\ g # <<>> /\ Good(L, inbuf'[cur])
          /\ IF inbuf'[cur] = <<>>
             THEN at[cur] = [msg |-> n, off |-> Len(g)]
             ELSE /\ inbuf'[cur][1] = After(L, [msg |-> n, off |-> Len(g)])
                  /\ inbuf'[cur][Len(inbuf'[cur])] = at[cur]
      BY <1>9, Received
    <3>2. got' = g
      BY <1>9 DEF RecvSome
    <3>3. Taking'
      BY <1>0, <1>9, <2>3 DEF RecvSome, Drop, NextPart, Taking, Reading, Types
    <3>. HIDE DEF g
    <3>4. Consumed(d)' = [msg |-> n, off |-> Len(g)]
      BY <2>1, <2>3, <3>1, <3>2, <3>3 DEF Consumed
    <3>. QED BY <1>0, <2>1, <2>3, <3>1, <3>4 DEF Stream
  <2>. QED BY <2>2, <2>3
<1>10. CASE RecvError \/ RecvEOF \/ SendTimeout \/ SendFails
  <2>1. /\ UNCHANGED <<cur, at, handled, inbuf>> /\ Drop(cur)
        /\ cur \in Clients
    BY <1>0, <1>10
    DEF RecvError, RecvEOF, AtEOF, SendTimeout, SendFails, Reading, Books,
        Busy, Types
  <2>. QED BY <1>0, <1>8, <2>1 DEF Drop, Types
<1>11. CASE Handle
  <2>1. /\ UNCHANGED <<cur, at, inbuf, got, fd>> /\ Taking /\ ~Taking'
        /\ handled' = [handled EXCEPT ![cur] = @ + 1]
    BY <1>11 DEF Handle, Taking
  <2>2. CASE d # cur
    BY <1>0, <1>8, <2>1, <2>2 DEF Types
  <2>3. CASE d = cur
    <3>1. Len(got) = Lengths(d)[handled[d] + 1] /\ handled[d] \in Nat
          /\ handled[d] + 1 \in 1 .. Len(script[d])
      BY <1>0, <1>11, <2>1, <2>3 DEF IInv, Taken, Handle, Types
    <3>2. got # <<>>
      <4>1. Len(got) >= HeadLen /\ Len(got) \in Nat
        BY <1>0, <3>1, LengthsIs DEF Functions, Types
      <4>2. Len(got) # 0 /\ got \in Seq(Unit)
        BY <1>0, <4>1, ConstantsAssumption DEF Types
      <4>. QED BY <4>2, NonEmpty
    <3>3. Consumed(d) = [msg |-> handled[d] + 1, off |-> Len(got)]
      BY <2>1, <2>3, <3>2 DEF Consumed
    <3>4. Consumed(d)' = End(Lengths(d), handled[d] + 1)
      BY <1>0, <2>1, <2>3 DEF Consumed, Types
    <3>5. handled[d] + 1 # 0
      BY <3>1
    <3>6. Consumed(d)' = Consumed(d)
      BY <3>1, <3>3, <3>4, <3>5 DEF End
    <3>. QED BY <1>0, <1>1, <2>1, <3>6, StreamSame
  <2>. QED BY <2>2, <2>3
<1>12. CASE Send
  BY <1>5, <1>12 DEF Send, Taking
<1>13. CASE RecvSpin \/ UNCHANGED vars
  <2>1. UNCHANGED <<pc, cur, got, handled, inbuf, at, fd>>
    BY <1>13 DEF RecvSpin, vars
  <2>. QED BY <1>0, <1>1, <1>2, <2>1, StreamSame
<1>. QED BY <1>3, <1>4, <1>6, <1>7, <1>9, <1>10, <1>11, <1>12, <1>13
  DEF Next, Client, Server

-----------------------------------------------------------------------------
(* The theorems *)

LEMMA InitIInv == Init => IInv
<1> SUFFICES ASSUME Init PROVE IInv
  OBVIOUS
<1>1. Types
  BY ConstantsAssumption DEF Init, Types, Unit
<1>2. Open = {}
  BY DEF Init, Open
<1>3. Books
  BY <1>2, FS_EmptySet DEF Init, Books, Busy, Reading
<1>4. Taken
  BY DEF Init, Taken, Taking
<1>5. ASSUME NEW c \in Clients PROVE Sent(c) /\ Stream(c)
  <2>1. Len(script[c]) \in Nat
    BY <1>1, LengthsIs DEF Types
  <2>2. /\ at[c] = [msg |-> 0, off |-> 0] /\ handled[c] = 0 /\ inbuf[c] = <<>>
        /\ ~Taking
    BY <1>5 DEF Init, Taking
  <2>3. End(Lengths(c), 0) = [msg |-> 0, off |-> 0]
    BY DEF End
  <2>4. Sent(c)
    BY <2>1, <2>2, <2>3 DEF Sent
  <2>5. Good(Lengths(c), inbuf[c])
    BY <2>2 DEF Good, Run, Turn, Valid
  <2>. QED BY <2>2, <2>3, <2>4, <2>5 DEF Stream, Consumed
<1>. QED BY <1>1, <1>3, <1>4, <1>5 DEF IInv

LEMMA NextIInv == IInv /\ [Next]_vars => IInv'
<1> SUFFICES ASSUME IInv, [Next]_vars PROVE IInv'
  OBVIOUS
<1>1. Types' /\ Books' /\ Taken'
  BY TypesNext, BooksNext, TakenNext
<1>2. \A c \in Clients : Sent(c)' /\ (fd'[c] # "closed" => Stream(c)')
  BY SentNext, StreamNext
<1>. QED BY <1>1, <1>2 DEF IInv

LEMMA Inductive == Spec => []IInv
BY InitIInv, NextIInv, PTL DEF Spec

\* The variables keep their types, and msg never takes more than the header
\* and the body it announces: recv_or_timeout() asks for what is missing.  So
\* it takes no more than it holds, for bodies within MAX_MSG_SIZE.
THEOREM TypeCorrect == Spec => []TypeOK
<1>1. IInv => TypeOK
  <2> SUFFICES ASSUME IInv PROVE TypeOK
    OBVIOUS
  <2>1. ASSUME Reading PROVE Len(got) <= Need /\ Need <= HeadLen + MaxMsg
    <3> DEFINE n == handled[cur] + 1
    <3>1. cur \in Clients /\ script \in Scripts
      BY <2>1, Reader DEF Reading, Taking, IInv, Types
    <3>2. /\ pc = "head" => Need = HeadLen
          /\ pc = "body" =>
               n \in 1 .. Len(script[cur]) /\ Need = Lengths(cur)[n]
          /\ Len(got) <= Need
      BY <2>1, NeedIs DEF IInv, Taken, Taking
    <3>3. CASE pc = "head"
      BY <3>2, <3>3, ConstantsAssumption
    <3>4. CASE pc = "body"
      <4>1. /\ Lengths(cur)[n] = HeadLen + script[cur][n].size
            /\ script[cur][n].size \in Nat
        BY <3>1, <3>2, <3>4, LengthsIs DEF Length
      <4>2. script[cur][n].size <= MaxMsg
        BY <3>1, <3>2, <3>4, SizeAssumption
      <4>. HIDE DEF n
      <4>. QED BY <3>2, <3>4, <4>1, <4>2, ConstantsAssumption
    <3>. QED BY <2>1, <3>3, <3>4 DEF Reading
  <2>. QED BY <2>1 DEF IInv, Types, TypeOK
<1>. QED BY <1>1, Inductive, PTL

\* proc_msg() gets the messages of a client whole, in order, none skipped
\* and none twice, for messages within MAX_MSG_SIZE cut in any way.
THEOREM Whole == Spec => []HandledWhole
<1>1. IInv => HandledWhole
  <2> SUFFICES ASSUME IInv, pc = "handle"
               PROVE  got = Units(cur, handled[cur] + 1)
    BY DEF HandledWhole
  <2> DEFINE n == handled[cur] + 1
             l == Lengths(cur)[n]
  <2>1. Taking
    BY DEF Taking
  <2>2. /\ cur \in Clients /\ script \in Scripts /\ n \in 1 .. Len(script[cur])
        /\ got \in Seq(Unit) /\ Len(got) = l
        /\ \A j \in 1 .. Len(got) : got[j] = [msg |-> n, off |-> j]
    BY <2>1, Reader DEF IInv, Types, Taken
  <2>3. Length(cur, n) = l
    BY <2>2, LengthsIs
  <2>. HIDE DEF n, l
  <2>4. Units(cur, n) = [j \in 1 .. l |-> [msg |-> n, off |-> j]]
    BY <2>3 DEF Units
  <2>5. got = [j \in 1 .. l |-> got[j]]
    BY <2>2
  <2>6. got = Units(cur, n)
    BY <2>2, <2>4, <2>5
  <2>. QED BY <2>6 DEF n
<1>. QED BY <1>1, Inductive, PTL

\* A context and an event of a round are of an open connection, and the
\* context in use is there: drop_connection() takes away the descriptor, the
\* context and no event that is still to come.
THEOREM Live == Spec => []ContextsLive
<1>1. IInv => ContextsLive
  BY DEF IInv, Books, Busy, ContextsLive
<1>. QED BY <1>1, Inductive, PTL

\* Stopped short of Need, with nothing more to read, the server has met a
\* message that came in pieces.
LEMMA Short ==
  ASSUME IInv, Reading, NEW m \in Nat, m < Need,
         handled[cur] + 1 \in 1 .. Len(script[cur]),
         at[cur] = [msg |-> handled[cur] + 1, off |-> m]
  PROVE  cur \in torn
<1> DEFINE n == handled[cur] + 1
           L == Lengths(cur)
<1>1. cur \in Clients /\ Sent(cur) /\ script \in Scripts
  BY Reader DEF Reading, Taking, IInv, Types
<1>2. L[n] \in Nat /\ L[n] >= HeadLen /\ n # 0
  BY <1>1, LengthsIs DEF Functions
<1>3. Need <= L[n]
  <2>1. pc = "head" => Need = HeadLen
    BY NeedIs
  <2>2. pc = "body" => Need = L[n]
    BY NeedIs
  <2>. QED BY <1>2, <2>1, <2>2, ConstantsAssumption DEF Reading
<1>4. m # L[n]
  <2>1. Need \in Nat
    BY NeedIs
  <2>. HIDE DEF L, n
  <2>. QED BY <1>2, <1>3, <2>1
<1>5. at[cur].msg = n /\ at[cur].off = m
  OBVIOUS
<1>6. at[cur] # End(L, n)
  <2>1. End(L, n).off = L[n]
    BY <1>2 DEF End
  <2>. QED BY <1>4, <1>5, <2>1
<1>. QED BY <1>1, <1>5, <1>6 DEF Sent

\* A client that stays, reads, and whose messages each arrive at once is
\* never dropped: the -1 and the timeout of recv_or_timeout() are met only in
\* the middle of a message.
THEOREM Kept == Spec => WholeMessagesKept
<1>1. ASSUME IInv, [Next]_vars, NEW c \in Clients,
             fd[c] = "open", fd'[c] = "closed", peer[c] = "up"
      PROVE  c \in torn \cup stalled
  <2>0. Types /\ Books
    BY <1>1 DEF IInv
  <2>1. \/ RecvSome \/ RecvError \/ RecvEOF \/ SendTimeout \/ SendFails
    <3>1. \A d \in Clients : ~Client(d)
      BY <1>1, <2>0
      DEF Client, Connect, Deliver, Arrive, Close, Reset, Stall, Types
    <3>2. ~ \/ Wait \/ Break \/ Accept \/ AcceptFails \/ RecvSpin \/ Handle
            \/ Send \/ UNCHANGED vars \/ \E d \in Clients : Ready(d)
      BY <1>1, <2>0
      DEF Wait, Break, Accept, AcceptFails, RecvSpin, Handle, Send, Ready,
          vars, Types
    <3>. QED BY <1>1, <3>1, <3>2 DEF Next, Server
  <2>2. c = cur /\ fd' # fd
    BY <1>1, <2>0, <2>1
    DEF RecvSome, RecvError, RecvEOF, SendTimeout, SendFails, Drop, Types
  <2>3. CASE RecvSome
    <3> DEFINE n == handled[cur] + 1
               k == Smaller(Left, Len(inbuf[cur]))
               g == got \o SubSeq(inbuf[cur], 1, k)
    <3>1. /\ n \in 1 .. Len(script[cur]) /\ g \in Seq(Unit) /\ Len(g) <= Need
          /\ Len(g) < Need => inbuf'[cur] = <<>>
          /\ inbuf'[cur] = <<>> => at[cur] = [msg |-> n, off |-> Len(g)]
      BY <1>1, <2>3, Received
    <3>2. Reading /\ Len(g) # Need
      BY <2>2, <2>3 DEF RecvSome, Finished
    <3>3. Need \in Nat
      BY <1>1, <3>2, NeedIs
    <3>. HIDE DEF g, k
    <3>4. Len(g) \in Nat /\ Len(g) < Need
      BY <3>1, <3>2, <3>3
    <3>. QED BY <1>1, <2>2, <3>1, <3>2, <3>4, Short
  <2>4. CASE RecvError
    <3>1. Reading /\ Taking /\ inbuf[cur] = <<>>
      BY <2>4 DEF RecvError, Reading, Taking
    <3>2. got # <<>>
      BY <1>1, <2>0, <2>2, <3>1 DEF Books, Ripe
    <3>3. at[cur] = Consumed(cur)
      BY <1>1, <3>1, Reader DEF Stream
    <3>4. at[cur] = [msg |-> handled[cur] + 1, off |-> Len(got)]
      BY <3>1, <3>2, <3>3 DEF Consumed
    <3>5. handled[cur] + 1 \in 1 .. Len(script[cur])
      BY <1>1, <3>1, <3>2 DEF IInv, Taken
    <3>6. Len(got) \in Nat /\ Len(got) < Need
      BY <1>1, <3>1, NeedIs
    <3>. QED BY <1>1, <2>2, <3>1, <3>4, <3>5, <3>6, Short
  <2>5. CASE RecvEOF
    BY <1>1, <2>2, <2>5 DEF RecvEOF, AtEOF
  <2>6. CASE SendTimeout \/ SendFails
    BY <1>1, <2>2, <2>6 DEF SendTimeout, SendFails, Refused
  <2>. QED BY <2>1, <2>3, <2>4, <2>5, <2>6
<1>2. IInv /\ [Next]_vars =>
        [\A c \in Clients :
           fd[c] = "open" /\ fd'[c] = "closed" /\ peer[c] = "up"
           => c \in torn \cup stalled]_vars
  BY <1>1
<1>. QED BY <1>2, Inductive, PTL DEF Spec, WholeMessagesKept

-----------------------------------------------------------------------------
(* The refinement *)

\* Messages come in order: the last unit in the buffer is of no earlier one
\* than any other.
Rising(c) ==
  \A i, j \in 1 .. Len(inbuf[c]) :
    i <= j => inbuf[c][i].msg <= inbuf[c][j].msg

LEMMA RisingSame ==
  ASSUME NEW d \in Clients, Rising(d), inbuf'[d] = inbuf[d]
  PROVE  Rising(d)'
BY DEF Rising

LEMMA RisingNext ==
  ASSUME IInv, [Next]_vars, NEW d \in Clients, Rising(d)
  PROVE  Rising(d)'
<1>0. Types /\ inbuf[d] \in Seq(Unit)
  BY DEF IInv, Types
<1>1. ASSUME NEW c \in Clients, Deliver(c) PROVE Rising(d)'
  <2>1. PICK n \in 1 .. Len(script[c]), off \in Nat, k \in Nat :
          Comes(c, n, off, k)
    BY <1>1, Delivered
  <2>2. PICK t \in Seq(Unit) : /\ Piece(t, n, off, k)
                               /\ inbuf' = [inbuf EXCEPT ![c] = @ \o t]
    BY <2>1 DEF Comes
  <2>3. CASE d # c
    BY <1>0, <2>2, <2>3, RisingSame DEF Types
  <2>4. CASE d = c
    <3> DEFINE s == inbuf[d]
               u == s \o t
    <3>1. inbuf'[d] = u /\ Len(s) \in Nat /\ Len(t) \in Nat
      BY <1>0, <2>2, <2>4 DEF Types
    <3>2. /\ Len(u) = Len(s) + Len(t)
          /\ \A i \in 1 .. Len(s) : u[i] = s[i]
          /\ \A i \in 1 .. Len(t) : u[Len(s) + i] = t[i]
      BY <1>0, ConcatIs
    <3>3. ASSUME NEW i \in 1 .. Len(t) PROVE t[i].msg = n
      <4>1. t[i] = [msg |-> n, off |-> off + i]
        BY <2>2, <3>3 DEF Piece
      <4>. QED BY <4>1
    <3>4. n \in Nat /\ n - 1 \in Int
      BY <1>0, LengthsIs DEF Types
    <3>5. ASSUME NEW i \in 1 .. Len(s) PROVE s[i].msg \in Nat /\ s[i].msg <= n
      <4>1. s # <<>> /\ Len(s) \in 1 .. Len(s) /\ i <= Len(s)
        BY <3>1, <3>5
      <4>2. Stream(d)
        BY <1>1, <2>4 DEF Deliver, IInv
      <4>3. s[Len(s)] = at[d]
        BY <4>1, <4>2 DEF Stream
      <4>4. at[d].msg \in {n - 1, n}
        <5>1. CASE off = 0
          BY <2>1, <2>4, <5>1 DEF Comes, End
        <5>2. CASE off # 0
          BY <2>1, <2>4, <5>2 DEF Comes
        <5>. QED BY <5>1, <5>2
      <4>5. s[i] \in Unit
        BY <1>0, <3>5
      <4>6. s[i].msg <= s[Len(s)].msg
        BY <3>5, <4>1 DEF Rising
      <4>. HIDE DEF s
      <4>. QED BY <3>4, <4>3, <4>4, <4>5, <4>6 DEF Unit
    <3>. HIDE DEF s, u
    <3>6. ASSUME NEW i \in 1 .. Len(u), NEW j \in 1 .. Len(u), i <= j
          PROVE  u[i].msg <= u[j].msg
      <4>1. CASE j <= Len(s)
        <5>1. i \in 1 .. Len(s) /\ j \in 1 .. Len(s)
          BY <3>1, <3>2, <3>6, <4>1
        <5>2. s[i].msg <= s[j].msg
          BY <3>6, <5>1 DEF Rising, s
        <5>. QED BY <3>2, <5>1, <5>2
      <4>2. CASE ~(j <= Len(s))
        <5>1. j - Len(s) \in 1 .. Len(t) /\ Len(s) + (j - Len(s)) = j
          BY <3>1, <3>2, <3>6, <4>2
        <5>2. u[j].msg = n
          BY <3>2, <3>3, <5>1
        <5>3. CASE i <= Len(s)
          <6>1. i \in 1 .. Len(s)
            BY <3>1, <3>2, <3>6, <5>3
          <6>. QED BY <3>2, <3>5, <5>2, <6>1
        <5>4. CASE ~(i <= Len(s))
          <6>1. i - Len(s) \in 1 .. Len(t) /\ Len(s) + (i - Len(s)) = i
            BY <3>1, <3>2, <3>6, <5>4
          <6>2. u[i].msg = n
            BY <3>2, <3>3, <6>1
          <6>. QED BY <3>4, <5>2, <6>2
        <5>. QED BY <5>3, <5>4
      <4>. QED BY <4>1, <4>2
    <3>. QED BY <3>1, <3>6 DEF Rising
  <2>. QED BY <2>3, <2>4
<1>2. CASE RecvSome
  <2> DEFINE s == inbuf[d]
             k == Smaller(Left, Len(s))
             t == SubSeq(s, k + 1, Len(s))
  <2>1. CASE d # cur
    BY <1>0, <1>2, <2>1, RisingSame DEF RecvSome, Types
  <2>2. CASE d = cur
    <3>1. inbuf'[d] = t
      BY <1>0, <1>2, <2>2 DEF RecvSome, Types
    <3>2. k \in 0 .. Len(s)
      <4>1. Reading
        BY <1>2 DEF RecvSome
      <4>2. Need \in Nat /\ Len(got) \in Nat /\ Len(got) < Need
        BY <4>1, NeedIs
      <4>. QED BY <1>0, <4>2 DEF Smaller, Left
    <3>. HIDE DEF k
    <3>3. Len(t) = Len(s) - k /\ \A i \in 1 .. Len(t) : t[i] = s[k + i]
      <4>1. /\ k + 1 \in Nat /\ k + 1 >= 1 /\ k + 1 <= Len(s) + 1
            /\ Len(s) \in Nat /\ Len(s) - (k + 1) + 1 = Len(s) - k
            /\ \A i \in 1 .. Len(s) - k : (k + 1) + i - 1 = k + i
        BY <1>0, <3>2
      <4>2. /\ Len(t) = Len(s) - (k + 1) + 1
            /\ \A i \in 1 .. Len(s) - (k + 1) + 1 : t[i] = s[(k + 1) + i - 1]
        BY <1>0, <4>1, PieceIs
      <4>. QED BY <4>1, <4>2
    <3>. HIDE DEF t
    <3>4. ASSUME NEW i \in 1 .. Len(t), NEW j \in 1 .. Len(t), i <= j
          PROVE  t[i].msg <= t[j].msg
      <4>1. k + i \in 1 .. Len(s) /\ k + j \in 1 .. Len(s) /\ k + i <= k + j
        BY <1>0, <3>2, <3>3, <3>4
      <4>. QED BY <3>3, <3>4, <4>1 DEF Rising
    <3>. QED BY <3>1, <3>4 DEF Rising
  <2>. QED BY <2>1, <2>2
<1>3. ASSUME NEW c \in Clients,
             Connect(c) \/ Close(c) \/ Reset(c) \/ Stall(c) \/ Ready(c)
      PROVE  Rising(d)'
  BY <1>3, RisingSame DEF Connect, Close, Reset, Stall, Ready
<1>4. CASE \/ Wait \/ Break \/ Accept \/ AcceptFails \/ RecvError \/ RecvEOF
           \/ RecvSpin \/ Handle \/ Send \/ SendTimeout \/ SendFails
           \/ UNCHANGED vars
  BY <1>4, RisingSame
  DEF Wait, Break, Accept, AcceptFails, RecvError, RecvEOF, RecvSpin, Handle,
      Send, SendTimeout, SendFails, vars
<1>. QED BY <1>1, <1>2, <1>3, <1>4 DEF Next, Client, Server

AllRising == \A c \in Clients : Rising(c)

LEMMA RisingInductive == Spec => []AllRising
<1>1. Init => AllRising
  BY DEF Init, AllRising, Rising
<1>2. IInv /\ AllRising /\ [Next]_vars => AllRising'
  BY RisingNext DEF AllRising
<1>. QED BY <1>1, <1>2, Inductive, PTL DEF Spec

\* Steps between what the service sees.
LEMMA Unseen ==
  ASSUME UNCHANGED <<script, at, handled>>, Over' = Over, Owed' = Owed,
         pc' = "exited" <=> pc = "exited"
  PROVE  UNCHANGED Service!vars
<1>1. Wants' = Wants
  BY DEF Wants
<1>2. Arrived' = Arrived
  BY DEF Arrived, AtEnd, Length
<1>. QED BY <1>1, <1>2 DEF Service!vars

\* A piece of a message arrives: before it all but this message had arrived.
LEMMA PieceArrives ==
  ASSUME IInv, NEW c \in Clients, Deliver(c)
  PROVE  Service!Send(c) \/ UNCHANGED Service!vars
<1>0. Types
  BY DEF IInv
<1>1. PICK n \in 1 .. Len(script[c]), off \in Nat, k \in Nat :
        Comes(c, n, off, k)
  BY Delivered
<1>2. /\ Len(script[c]) \in Nat /\ n \in Nat /\ n # 0 /\ n - 1 \in Nat
      /\ \A m \in 1 .. Len(script[c]) :
           Length(c, m) = Lengths(c)[m] /\ Lengths(c)[m] \in Nat
  <2>1. script \in Scripts
    BY <1>0 DEF Types
  <2>2. /\ Len(script[c]) \in Nat /\ Lengths(c) \in Functions(Len(script[c]))
        /\ \A m \in 1 .. Len(script[c]) : Length(c, m) = Lengths(c)[m]
    BY <2>1, LengthsIs
  <2>3. \A m \in 1 .. Len(script[c]) : Lengths(c)[m] \in Nat
    BY <2>2 DEF Functions
  <2>. QED BY <2>2, <2>3
<1>3. UNCHANGED <<script, handled, pc, cur, fd>>
  BY DEF Deliver, Arrive
<1>4. Wants' = Wants /\ Over' = Over /\ Owed' = Owed /\ c \notin Over
  <2>1. Wants' = Wants
    BY <1>3 DEF Wants
  <2>. QED BY <1>3, <2>1 DEF Over, Owed, Deliver
<1>5. /\ at' = [at EXCEPT ![c] = [msg |-> n, off |-> k]]
      /\ off < k /\ k <= Lengths(c)[n]
      /\ at[c] = IF off = 0 THEN End(Lengths(c), n - 1)
                            ELSE [msg |-> n, off |-> off]
  BY <1>1 DEF Comes
<1>6. Arrived[c] = n - 1
  <2>1. CASE off = 0
    <3>1. at[c].msg = n - 1 /\ at[c] = End(Lengths(c), n - 1)
      BY <1>5, <2>1 DEF End
    <3>2. n - 1 # 0 => n - 1 \in 1 .. Len(script[c])
      BY <1>2
    <3>3. AtEnd(c)
      BY <1>2, <3>1, <3>2 DEF AtEnd, End
    <3>. QED BY <3>1, <3>3 DEF Arrived
  <2>2. CASE off # 0
    <3>1. at[c].msg = n /\ at[c].off = off /\ off # Length(c, n)
      BY <1>2, <1>5, <2>2
    <3>2. ~AtEnd(c)
      BY <1>2, <3>1 DEF AtEnd
    <3>. QED BY <3>1, <3>2 DEF Arrived
  <2>. QED BY <2>1, <2>2
<1>7. at'[c].msg = n /\ at'[c].off = k
  BY <1>0, <1>5 DEF Types
<1>8. Arrived'[c] = IF k = Length(c, n) THEN n ELSE n - 1
  <2>1. AtEnd(c)' <=> k = Length(c, n)
    BY <1>2, <1>3, <1>7 DEF AtEnd, Length
  <2>. QED BY <1>7, <2>1 DEF Arrived
<1>9. ASSUME NEW d \in Clients, d # c PROVE Arrived'[d] = Arrived[d]
  <2>1. at'[d] = at[d]
    BY <1>0, <1>5, <1>9 DEF Types
  <2>. QED BY <1>3, <2>1 DEF Arrived, AtEnd, Length
<1>10. CASE k = Length(c, n)
  <2>1. Arrived' = [Arrived EXCEPT ![c] = @ + 1]
    <3>1. (n - 1) + 1 = n
      BY <1>2
    <3>2. \A d \in Clients :
            Arrived'[d] = IF d = c THEN Arrived[c] + 1 ELSE Arrived[d]
      BY <1>6, <1>8, <1>9, <1>10, <3>1
    <3>. QED BY <3>2 DEF Arrived
  <2>2. Len(Wants[c]) = Len(script[c])
    BY <1>2 DEF Wants
  <2>. QED BY <1>2, <1>3, <1>4, <1>6, <2>1, <2>2 DEF Service!Send
<1>11. CASE k # Length(c, n)
  <2>1. \A d \in Clients : Arrived'[d] = Arrived[d]
    BY <1>6, <1>8, <1>9, <1>11
  <2>2. Arrived' = Arrived
    BY <2>1 DEF Arrived
  <2>. QED BY <1>3, <1>4, <2>2 DEF Service!vars
<1>. QED BY <1>10, <1>11

\* What proc_msg() is given has arrived whole.
LEMMA HandledArrived ==
  ASSUME IInv, AllRising, pc = "handle"
  PROVE  handled[cur] < Arrived[cur] /\ got[1].msg = handled[cur] + 1
<1> DEFINE n == handled[cur] + 1
           L == Lengths(cur)
           s == inbuf[cur]
<1>0. Types /\ Taking /\ ~Reading
  BY DEF IInv, Taking, Reading
<1>1. cur \in Clients /\ Stream(cur) /\ script \in Scripts
  BY <1>0, Reader DEF Types
<1>2. /\ n \in 1 .. Len(script[cur]) /\ Len(got) = L[n]
      /\ \A j \in 1 .. Len(got) : got[j] = [msg |-> n, off |-> j]
  BY <1>0 DEF IInv, Taken
<1>3. /\ n \in Nat /\ n # 0 /\ handled[cur] \in Nat /\ L[n] \in Nat
      /\ L[n] >= HeadLen /\ Length(cur, n) = L[n]
  BY <1>0, <1>1, <1>2, LengthsIs DEF Types, Functions
<1>4. 1 \in 1 .. Len(got) /\ got # <<>>
  <2>1. Len(got) \in Nat /\ Len(got) # 0 /\ got \in Seq(Unit)
    BY <1>0, <1>2, <1>3, ConstantsAssumption DEF Types
  <2>2. got # <<>>
    BY <2>1, NonEmpty
  <2>. QED BY <2>1, <2>2
<1>5. got[1].msg = n
  <2>1. got[1] = [msg |-> n, off |-> 1]
    BY <1>2, <1>4
  <2>. HIDE DEF n
  <2>. QED BY <2>1
<1>6. Consumed(cur) = [msg |-> n, off |-> L[n]]
  BY <1>0, <1>2, <1>4 DEF Consumed
<1>. HIDE DEF n, L
<1>7. CASE s = <<>>
  <2>1. at[cur].msg = n /\ at[cur].off = L[n]
    BY <1>1, <1>6, <1>7 DEF Stream
  <2>2. AtEnd(cur)
    BY <1>3, <2>1 DEF AtEnd
  <2>3. Arrived[cur] = n
    BY <1>1, <2>1, <2>2 DEF Arrived
  <2>. QED BY <1>3, <1>5, <2>3 DEF n
<1>8. CASE s # <<>>
  <2>1. s \in Seq(Unit) /\ Len(s) \in Nat /\ Len(s) >= 1
    BY <1>0, <1>1, <1>8, NonEmpty DEF Types
  <2>2. s[1] = After(L, Consumed(cur)) /\ s[Len(s)] = at[cur]
    BY <1>1, <1>8 DEF Stream, L
  <2>3. s[1].msg = n + 1
    BY <1>3, <1>6, <2>2 DEF After, End
  <2>4. s[1].msg <= s[Len(s)].msg
    BY <1>1, <2>1 DEF AllRising, Rising
  <2>5. at[cur].msg \in Nat /\ at[cur].msg >= n + 1
    BY <1>0, <1>1, <2>2, <2>3, <2>4 DEF Types, Unit
  <2>6. Arrived[cur] >= n
    BY <1>1, <1>3, <2>5 DEF Arrived
  <2>7. Arrived[cur] \in Int
    BY <1>1, <2>5 DEF Arrived
  <2>. QED BY <1>3, <1>5, <2>6, <2>7 DEF n
<1>. QED BY <1>7, <1>8

\* Each step is one of the abstract service.
LEMMA ServiceStep ==
  ASSUME IInv, AllRising, [Next]_vars
  PROVE  Service!Next \/ UNCHANGED Service!vars
<1>0. Types /\ Books
  BY DEF IInv
<1>1. ASSUME NEW c \in Clients, Deliver(c)
      PROVE  Service!Next \/ UNCHANGED Service!vars
  BY <1>1, PieceArrives DEF Service!Next
<1>2. ASSUME NEW c \in Clients,
             Connect(c) \/ Close(c) \/ Reset(c) \/ Stall(c)
      PROVE  UNCHANGED Service!vars
  <2>1. UNCHANGED <<script, at, handled, pc, cur>>
    BY <1>2 DEF Connect, Close, Reset, Stall
  <2>2. Over' = Over
    <3>1. Connect(c) => fd[c] = "none"
      BY <1>0 DEF Connect, Books
    <3>2. \A d \in Clients : fd'[d] = "closed" <=> fd[d] = "closed"
      BY <1>0, <1>2, <3>1 DEF Connect, Close, Reset, Stall, Types
    <3>. QED BY <3>2 DEF Over
  <2>. QED BY <2>1, <2>2, Unseen DEF Owed
<1>3. ASSUME Wait \/ Break \/ Accept \/ RecvSpin \/ UNCHANGED vars
             \/ \E c \in Clients : Ready(c)
      PROVE  UNCHANGED Service!vars
  <2>1. UNCHANGED <<script, at, handled>>
    BY <1>3 DEF Wait, Break, Accept, RecvSpin, Ready, vars
  <2>2. \/ UNCHANGED <<pc, cur>>
        \/ pc # "reply" /\ pc' \notin {"reply", "exited"} /\ pc # "exited"
    BY <1>3 DEF Wait, Break, Accept, RecvSpin, Ready, Take, vars
  <2>3. \A d \in Clients : fd'[d] = "closed" <=> fd[d] = "closed"
    BY <1>0, <1>3 DEF Wait, Break, Accept, RecvSpin, Ready, Queued, vars, Types
  <2>4. Over' = Over
    BY <2>3 DEF Over
  <2>. QED BY <2>1, <2>2, <2>4, Unseen DEF Owed
<1>4. CASE AcceptFails
  <2>1. /\ UNCHANGED <<script, at, handled, fd>>
        /\ pc = "loop" /\ pc' = "exited"
    BY <1>4 DEF AcceptFails, Take
  <2>2. Wants' = Wants /\ Arrived' = Arrived /\ Over' = Over
    BY <2>1 DEF Wants, Arrived, AtEnd, Length, Over
  <2>3. Service!Stop
    BY <2>1, <2>2 DEF Service!Stop, Owed
  <2>. QED BY <2>3 DEF Service!Next
<1>5. ASSUME Drop(cur), Busy, UNCHANGED <<script, at, handled>>,
             pc \in {"head", "body", "reply"},
             \/ pc' = "loop"
             \/ pc' = "exited" /\ pc = "reply"
      PROVE  Service!Next
  <2>1. cur \in Clients /\ cur \notin Over
    BY <1>0, <1>5 DEF Books, Open, Over
  <2>2. Over' = Over \cup {cur}
    BY <1>0, <1>5, <2>1 DEF Drop, Over, Types
  <2>3. Wants' = Wants /\ Arrived' = Arrived
    BY <1>5 DEF Wants, Arrived, AtEnd, Length
  <2>4. Owed \subseteq {cur} /\ Owed' = {} /\ (pc = "reply" => Owed = {cur})
    BY <1>5 DEF Owed
  <2>5. Service!Drop(cur)
    BY <1>5, <2>1, <2>2, <2>3, <2>4 DEF Service!Drop
  <2>. QED BY <2>1, <2>5 DEF Service!Next
<1>6. CASE RecvSome
  <2>1. /\ UNCHANGED <<script, at, handled, cur>> /\ Reading /\ Busy
        /\ pc \in {"head", "body"}
    BY <1>6 DEF RecvSome, Reading, Busy
  <2>2. CASE Drop(cur) /\ pc' = "loop"
    BY <1>5, <2>1, <2>2
  <2>3. CASE UNCHANGED fd /\ pc' \in {"head", "body", "handle"}
    <3>1. Over' = Over /\ Owed' = Owed
      BY <2>1, <2>3 DEF Over, Owed
    <3>. QED BY <2>1, <2>3, <3>1, Unseen
  <2>4. \/ Drop(cur) /\ pc' = "loop"
        \/ UNCHANGED fd /\ pc' \in {"head", "body", "handle"}
    BY <1>6, <2>1 DEF RecvSome, NextPart
  <2>. QED BY <2>2, <2>3, <2>4
<1>7. CASE RecvError \/ RecvEOF \/ SendTimeout \/ SendFails
  <2>1. /\ Drop(cur) /\ Busy /\ UNCHANGED <<script, at, handled>>
        /\ pc \in {"head", "body", "reply"}
        /\ pc' = "loop" \/ (pc' = "exited" /\ pc = "reply")
    BY <1>7 DEF RecvError, RecvEOF, AtEOF, SendTimeout, SendFails, Reading,
                Busy
  <2>. QED BY <1>5, <2>1
<1>8. CASE Handle
  <2> DEFINE n == handled[cur] + 1
  <2>1. /\ pc = "handle" /\ UNCHANGED <<script, at, fd, cur>>
        /\ handled' = [handled EXCEPT ![cur] = @ + 1]
    BY <1>8 DEF Handle
  <2>2. cur \in Clients /\ cur \notin Over
    BY <1>0, <2>1 DEF Books, Busy, Open, Over
  <2>3. handled[cur] < Arrived[cur] /\ got[1].msg = n
    BY <2>1, HandledArrived
  <2>4. n \in 1 .. Len(script[cur])
    BY <2>1 DEF IInv, Taken, Taking
  <2>5. Wants' = Wants /\ Arrived' = Arrived /\ Over' = Over
    BY <2>1 DEF Wants, Arrived, AtEnd, Length, Over
  <2>6. Wants[cur][n] = Answered(script[cur][n])
    BY <2>2, <2>4 DEF Wants
  <2>7. Owed = {} /\ pc' # "exited"
        /\ Owed' = IF Wants[cur][n] THEN {cur} ELSE {}
    <3>1. pc' = IF Answered(script[cur][n])
                THEN "reply" ELSE "loop"
      BY <1>8, <2>3 DEF Handle
    <3>. QED BY <2>1, <2>6, <3>1 DEF Owed
  <2>8. Service!Handle(cur)
    BY <2>1, <2>2, <2>3, <2>5, <2>7 DEF Service!Handle
  <2>. QED BY <2>2, <2>8 DEF Service!Next
<1>9. CASE Send
  <2>1. /\ UNCHANGED <<script, at, handled, fd>>
        /\ pc = "reply" /\ pc' = "loop"
    BY <1>9 DEF Send
  <2>2. Wants' = Wants /\ Arrived' = Arrived /\ Over' = Over
    BY <2>1 DEF Wants, Arrived, AtEnd, Length, Over
  <2>3. Service!Reply
    BY <2>1, <2>2 DEF Service!Reply, Owed
  <2>. QED BY <2>3 DEF Service!Next
<1>. QED BY <1>1, <1>2, <1>3, <1>4, <1>6, <1>7, <1>8, <1>9
  DEF Next, Client, Server

\* For any number of clients, messages within MAX_MSG_SIZE cut in any way, and
\* whoever closes, vanishes or does not read: web_api_run() with
\* on_peer_ready_recv() and proc_msg() is an implementation of the abstract
\* service.
THEOREM Implements == Spec => ImplementsRequests
<1>1. Init => Service!Init
  <2> SUFFICES ASSUME Init PROVE Service!Init
    OBVIOUS
  <2>1. \A c \in Clients : script[c] \in Seq(Messages)
    BY ConstantsAssumption DEF Init
  <2>2. ASSUME NEW c \in Clients PROVE Wants[c] \in Seq(BOOLEAN)
    <3>1. Len(script[c]) \in Nat
      BY <2>1
    <3>2. Wants[c] \in [1 .. Len(script[c]) -> BOOLEAN]
      BY DEF Wants, Answered
    <3>. QED BY <3>1, <3>2
  <2>3. Wants \in [Clients -> Seq(BOOLEAN)]
    BY <2>2 DEF Wants
  <2>4. \A c \in Clients : AtEnd(c) /\ at[c].msg = 0
    BY DEF Init, AtEnd
  <2>5. Arrived = [c \in Clients |-> 0]
    BY <2>4 DEF Arrived
  <2>6. Owed = {} /\ Over = {} /\ pc # "exited"
    BY DEF Init, Owed, Over
  <2>. QED BY <2>3, <2>5, <2>6 DEF Init, Service!Init
<1>2. IInv /\ AllRising /\ [Next]_vars => [Service!Next]_Service!vars
  BY ServiceStep
<1>. QED BY <1>1, <1>2, Inductive, RisingInductive, PTL
  DEF Spec, Service!Spec, ImplementsRequests
=============================================================================
