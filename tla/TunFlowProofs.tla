--------------------------- MODULE TunFlowProofs ---------------------------
(***************************************************************************)
(* Proofs about the client's tunnel, for any number of destinations and    *)
(* flows and any limits: the path manager under any callers; the flows of  *)
(* TunFlow as such callers; and the safety of what DialTunFlow promises.   *)
(***************************************************************************)
EXTENDS TunFlow, SequenceTheorems, FiniteSetTheorems, TLAPS

Distinct(s) == \A i, j \in 1 .. Len(s) : s[i] = s[j] => i = j
Elems(s) == {s[i] : i \in 1 .. Len(s)}

\* The sweep leaves a suffix of the order of touching.
LEMMA KeptProperties ==
  ASSUME NEW n \in Sweeps, touched \in Seq(Dest), Distinct(touched)
  PROVE /\ Kept(n) \in Seq(Dest) /\ Len(Kept(n)) <= MaxPaths
        /\ Distinct(Kept(n)) /\ Keys \ Gone(n) \subseteq Elems(Kept(n))
<1>1. Len(touched) \in Nat /\ n \in 0 .. Len(touched) /\ Len(touched) - n <= MaxPaths
  BY LenProperties DEF Sweeps
<1>2. \A i \in n + 1 .. Len(touched) : touched[i] \in Dest
  BY <1>1, ElementOfSeq
<1>3. /\ Kept(n) \in Seq(Dest)
      /\ Len(Kept(n)) = (IF n + 1 <= Len(touched) THEN Len(touched) - (n + 1) + 1 ELSE 0)
      /\ \A i \in 1 .. Len(touched) - (n + 1) + 1 : Kept(n)[i] = touched[(n + 1) + i - 1]
  BY <1>1, <1>2, SubSeqProperties DEF Kept
<1>4. Len(Kept(n)) = Len(touched) - n /\ \A i \in 1 .. Len(touched) - n : Kept(n)[i] = touched[n + i]
  BY <1>1, <1>3
<1>5. Distinct(Kept(n))
  BY <1>1, <1>4 DEF Distinct
<1>6. ASSUME NEW d \in Keys, d \notin Gone(n) PROVE d \in Elems(Kept(n))
  <2>1. PICK i \in 1 .. Len(touched) : touched[i] = d
    BY DEF Keys
  <2>2. i > n
    BY <2>1, <1>1, <1>6 DEF Gone
  <2>3. i - n \in 1 .. Len(touched) - n /\ Kept(n)[i - n] = d
    BY <2>1, <2>2, <1>1, <1>4
  <2> QED BY <2>3, <1>4 DEF Elems
<1> QED BY <1>1, <1>3, <1>4, <1>5, <1>6

\* A destination is taken out of the order, and nothing else is.
LEMMA WithoutProperties ==
  ASSUME NEW S, NEW s \in Seq(S), NEW d, Distinct(s)
  PROVE /\ Without(s, d) \in Seq(S) /\ Len(Without(s, d)) <= Len(s)
        /\ Distinct(Without(s, d)) /\ d \notin Elems(Without(s, d))
        /\ Elems(s) \ {d} \subseteq Elems(Without(s, d))
<1> DEFINE At == {i \in 1 .. Len(s) : s[i] = d}
           k == CHOOSE i \in At : TRUE
           t == SubSeq(s, 1, k - 1)
           u == SubSeq(s, k + 1, Len(s))
<1>0. Len(s) \in Nat /\ \A i \in 1 .. Len(s) : s[i] \in S
  BY LenProperties, ElementOfSeq
<1>1. CASE At = {}
  BY <1>0, <1>1 DEF Without, Elems
<1>2. CASE At # {}
  <2>1. k \in 1 .. Len(s) /\ s[k] = d /\ Without(s, d) = t \o u
    BY <1>2 DEF Without
  <2> HIDE DEF k
  <2>2. t \in Seq(S) /\ Len(t) = k - 1 /\ \A i \in 1 .. k - 1 : t[i] = s[i]
    <3>1. /\ t \in Seq(S) /\ Len(t) = (IF 1 <= k - 1 THEN (k - 1) - 1 + 1 ELSE 0)
          /\ \A i \in 1 .. (k - 1) - 1 + 1 : t[i] = s[1 + i - 1]
      BY <2>1, <1>0, SubSeqProperties
    <3> QED BY <3>1, <2>1, <1>0
  <2>3. u \in Seq(S) /\ Len(u) = Len(s) - k /\ \A i \in 1 .. Len(s) - k : u[i] = s[k + i]
    <3>1. /\ u \in Seq(S) /\ Len(u) = (IF k + 1 <= Len(s) THEN Len(s) - (k + 1) + 1 ELSE 0)
          /\ \A i \in 1 .. Len(s) - (k + 1) + 1 : u[i] = s[(k + 1) + i - 1]
      BY <2>1, <1>0, SubSeqProperties
    <3> QED BY <3>1, <2>1, <1>0
  <2> HIDE DEF t, u
  <2> DEFINE w == t \o u
  <2>4. /\ w \in Seq(S) /\ Len(w) = Len(s) - 1
        /\ \A i \in 1 .. k - 1 : w[i] = s[i]
        /\ \A i \in k .. Len(s) - 1 : w[i] = s[i + 1]
    <3>1. /\ w \in Seq(S) /\ Len(w) = Len(t) + Len(u)
          /\ \A i \in 1 .. Len(t) + Len(u) : w[i] = IF i <= Len(t) THEN t[i] ELSE u[i - Len(t)]
      BY <2>2, <2>3, ConcatProperties
    <3> HIDE DEF w
    <3>2. Len(w) = Len(s) - 1
      BY <3>1, <2>1, <2>2, <2>3, <1>0
    <3>3. ASSUME NEW i \in 1 .. k - 1 PROVE w[i] = s[i]
      <4>1. i \in 1 .. Len(t) + Len(u) /\ i <= Len(t)
        BY <2>1, <2>2, <2>3, <1>0
      <4> QED BY <4>1, <3>1, <2>2
    <3>4. ASSUME NEW i \in k .. Len(s) - 1 PROVE w[i] = s[i + 1]
      <4>1. i \in 1 .. Len(t) + Len(u) /\ ~(i <= Len(t)) /\ i - Len(t) = i - k + 1 /\ i - k + 1 \in 1 .. Len(s) - k
        BY <2>1, <2>2, <2>3, <1>0
      <4>2. w[i] = u[i - k + 1] /\ u[i - k + 1] = s[k + (i - k + 1)]
        BY <3>1, <2>3, <4>1
      <4>3. k + (i - k + 1) = i + 1
        BY <2>1
      <4> QED BY <4>2, <4>3
    <3> QED BY <3>1, <3>2, <3>3, <3>4
  <2> HIDE DEF w
  <2>5. Distinct(w) /\ d \notin Elems(w)
    <3>1. ASSUME NEW i \in 1 .. Len(w)
          PROVE \E j \in 1 .. Len(s) : w[i] = s[j] /\ j # k /\ j = IF i < k THEN i ELSE i + 1
      <4>1. CASE i < k
        BY <4>1, <2>1, <2>4, <1>0
      <4>2. CASE ~(i < k)
        BY <4>2, <2>1, <2>4, <1>0
      <4> QED BY <4>1, <4>2
    <3>2. ASSUME NEW i \in 1 .. Len(w), NEW j \in 1 .. Len(w), w[i] = w[j] PROVE i = j
      <4>1. PICK p \in 1 .. Len(s) : w[i] = s[p] /\ p = IF i < k THEN i ELSE i + 1
        BY <3>1
      <4>2. PICK q \in 1 .. Len(s) : w[j] = s[q] /\ q = IF j < k THEN j ELSE j + 1
        BY <3>1
      <4>3. p = q
        BY <4>1, <4>2, <3>2 DEF Distinct
      <4> QED BY <4>1, <4>2, <4>3, <2>1, <2>4, <1>0
    <3>3. d \notin Elems(w)
      BY <3>1, <2>1 DEF Distinct, Elems
    <3> QED BY <3>2, <3>3 DEF Distinct
  <2>6. ASSUME NEW e \in Elems(s), e # d PROVE e \in Elems(w)
    <3>1. PICK i \in 1 .. Len(s) : s[i] = e
      BY DEF Elems
    <3>2. i # k
      BY <3>1, <2>6, <2>1
    <3>3. CASE i < k
      BY <3>1, <3>3, <2>1, <2>4, <1>0 DEF Elems
    <3>4. CASE i > k
      <4>1. i - 1 \in k .. Len(s) - 1 /\ i - 1 \in 1 .. Len(w) /\ (i - 1) + 1 = i
        BY <3>4, <2>1, <2>4, <1>0
      <4>2. w[i - 1] = e
        BY <3>1, <4>1, <2>4
      <4> QED BY <4>1, <4>2 DEF Elems
    <3> QED BY <3>2, <3>3, <3>4, <2>1, <1>0
  <2>7. Without(s, d) = w
    BY <2>1 DEF w
  <2> QED BY <2>4, <2>5, <2>6, <2>7, <1>0
<1> QED BY <1>1, <1>2

\* Decide and Record sweep first and touch their destination afterwards.
LEMMA TouchProperties ==
  ASSUME NEW n \in Sweeps, NEW d \in Dest, touched \in Seq(Dest), Distinct(touched),
         touched' = Touch(Kept(n), d)
  PROVE /\ touched' \in Seq(Dest) /\ Len(touched') <= MaxPaths + 1 /\ Distinct(touched')
        /\ d \in Keys' /\ Keys \ Gone(n) \subseteq Keys'
<1> DEFINE w == Without(Kept(n), d)
<1>1. /\ w \in Seq(Dest) /\ Len(w) <= MaxPaths /\ Distinct(w) /\ d \notin Elems(w)
      /\ (Keys \ Gone(n)) \ {d} \subseteq Elems(w)
  <2>1. Len(w) \in Nat /\ Len(Kept(n)) \in Nat
    BY KeptProperties, WithoutProperties, LenProperties
  <2> QED BY <2>1, KeptProperties, WithoutProperties, PathAssumption
<1> HIDE DEF w
<1>2. /\ touched' \in Seq(Dest) /\ Len(touched') = Len(w) + 1
      /\ \A i \in 1 .. Len(w) : touched'[i] = w[i]
      /\ touched'[Len(w) + 1] = d
  BY <1>1, AppendProperties DEF Touch, w
<1>3. Len(w) \in Nat
  BY <1>1, LenProperties
<1>4. Distinct(touched')
  BY <1>1, <1>2, <1>3 DEF Distinct, Elems
<1>5. d \in Keys' /\ Elems(w) \subseteq Keys'
  BY <1>2, <1>3 DEF Keys, Elems
<1> QED BY <1>1, <1>2, <1>3, <1>4, <1>5, PathAssumption

----------------------------------------------------------------------------
\* What the manager knows is well formed, whatever the decisions say.
ManagerTypeOK ==
  /\ touched \in Seq(Dest) /\ Distinct(touched) /\ Len(touched) <= MaxPaths + 1
  /\ stat \in [Dest -> [fails : 0 .. 3, slips : 0 .. 2]]
  /\ stick \subseteq Dest
  /\ ask \in [Caller -> {NoAsk} \cup [dst : Dest, why : {"tcp", "weak", "fine"},
                                      limit : 1 .. 3, same : BOOLEAN]]

\* The statistic of a destination is there and bad.
Bad(d) == d \in Keys /\ (stat[d].fails >= FailThresh \/ stat[d].slips = 2)

\* A search for peers that was not overtaken still has its reason.
AskInv == \A c \in Caller : ask[c] # NoAsk /\ ask[c].same /\ ask[c].why = "weak" => Bad(ask[c].dst)

ManagerInv == ManagerTypeOK /\ AskInv /\ StickHasReason

\* A new manager.
LEMMA ManagerInit == PathInit => ManagerInv
<1> SUFFICES ASSUME PathInit PROVE ManagerInv
  OBVIOUS
<1>1. touched \in Seq(Dest) /\ Distinct(touched) /\ Len(touched) <= MaxPaths + 1
  BY PathAssumption, EmptySeq DEF PathInit, Distinct
<1>2. stat \in [Dest -> [fails : 0 .. 3, slips : 0 .. 2]] /\ stick \subseteq Dest
  BY DEF PathInit, Fresh
<1>3. ask \in [Caller -> {NoAsk}] /\ \A c \in Caller : ask[c] = NoAsk
  BY DEF PathInit
<1> QED BY <1>1, <1>2, <1>3 DEF ManagerInv, ManagerTypeOK, AskInv, StickHasReason, PathInit

\* A statistic that is swept starts afresh, the others stay.
LEMMA SweptStat ==
  ASSUME ManagerTypeOK, NEW n \in Sweeps
  PROVE /\ StatSwept(n) \in [Dest -> [fails : 0 .. 3, slips : 0 .. 2]]
        /\ \A d \in Dest : d \notin Gone(n) => StatSwept(n)[d] = stat[d]
BY DEF ManagerTypeOK, StatSwept, Fresh

\* A search is only ever marked as overtaken.
LEMMA OvertakenSearch ==
  ASSUME ManagerTypeOK, NEW D
  PROVE /\ Overtaken(D) \in [Caller -> {NoAsk} \cup [dst : Dest, why : {"tcp", "weak", "fine"},
                                                     limit : 1 .. 3, same : BOOLEAN]]
        /\ \A c \in Caller : Overtaken(D)[c] # NoAsk => ask[c] # NoAsk
        /\ \A c \in Caller : Overtaken(D)[c] # NoAsk /\ Overtaken(D)[c].same =>
             Overtaken(D)[c] = ask[c] /\ ask[c].dst \in Dest \ D
<1> DEFINE Q == [dst : Dest, why : {"tcp", "weak", "fine"}, limit : 1 .. 3, same : BOOLEAN]
<1> SUFFICES ASSUME NEW c \in Caller
             PROVE /\ Overtaken(D)[c] \in {NoAsk} \cup Q
                   /\ Overtaken(D)[c] # NoAsk => ask[c] # NoAsk
                   /\ Overtaken(D)[c] # NoAsk /\ Overtaken(D)[c].same =>
                        Overtaken(D)[c] = ask[c] /\ ask[c].dst \in Dest \ D
  BY DEF Overtaken
<1>1. ask[c] \in {NoAsk} \cup Q
  BY DEF ManagerTypeOK
<1>2. CASE ask[c] # NoAsk /\ ask[c].dst \in D
  <2>1. Overtaken(D)[c] = [ask[c] EXCEPT !.same = FALSE] /\ ask[c] \in Q
    BY <1>1, <1>2 DEF Overtaken
  <2>2. Overtaken(D)[c] \in Q /\ Overtaken(D)[c].same = FALSE
    BY <2>1
  <2> QED BY <2>2, <1>2
<1>3. CASE ask[c] = NoAsk
  BY <1>3 DEF Overtaken
<1>4. CASE ask[c] # NoAsk /\ ask[c].dst \notin D
  <2>1. Overtaken(D)[c] = ask[c] /\ ask[c] \in Q
    BY <1>1, <1>4 DEF Overtaken
  <2> QED BY <2>1, <1>4
<1> QED BY <1>2, <1>3, <1>4

\* How many candidates are asked for.
LEMMA LimitRange == \A x \in 0 .. 3 : PeerLimit(x) \in 1 .. 3
BY PathAssumption DEF PeerLimit, Min2

\* Decide: the sweep forgets a destination in every table at once, and the
\* cooldown is set only on a statistic that was just read.
LEMMA DecideKeeps ==
  ASSUME ManagerInv, NEW c \in Caller, NEW d \in Dest, NEW q, NEW a, NEW b, Decide(c, d, q, a, b)
  PROVE ManagerInv'
<1> USE DEF ManagerInv
<1>1. PICK n \in Sweeps, sticky \in BOOLEAN, low \in BOOLEAN, weak \in BOOLEAN :
         DecideAfter(n, sticky, low, weak, c, d, q, a, b)
  BY DEF Decide
<1> DEFINE st == StatSwept(n)[d]
           why == Reason(st, q, sticky, weak)
           new == [dst |-> d, why |-> why, limit |-> PeerLimit(st.fails), same |-> TRUE]
<1>0. /\ (low \/ weak) => st.slips = 2
      /\ touched' = Touch(Kept(n), d) /\ stat' = StatSwept(n) /\ late' = late \ Gone(n)
      /\ \/ ask' = [Overtaken(Gone(n)) EXCEPT ![c] = new] /\ stick' = stick \ Gone(n)
         \/ ask' = Overtaken(Gone(n)) /\ stick' = Settle(why, d, stick \ Gone(n))
  BY <1>1, Zenon DEF DecideAfter
<1>2. /\ touched' \in Seq(Dest) /\ Len(touched') <= MaxPaths + 1 /\ Distinct(touched')
      /\ d \in Keys' /\ Keys \ Gone(n) \subseteq Keys'
  BY <1>0, TouchProperties DEF ManagerTypeOK
<1>3. /\ stat' \in [Dest -> [fails : 0 .. 3, slips : 0 .. 2]]
      /\ \A e \in Dest : e \notin Gone(n) => stat'[e] = stat[e]
      /\ st = stat'[d] /\ st \in [fails : 0 .. 3, slips : 0 .. 2]
  BY <1>0, SweptStat
<1>4. \A e \in Dest \ Gone(n) : Bad(e) => Bad(e)'
  BY <1>2, <1>3 DEF Bad
<1>5. why = "weak" => Bad(d)'
  BY <1>0, <1>2, <1>3 DEF Bad, Reason
<1>6. why \in {"tcp", "weak", "fine"} /\ PeerLimit(st.fails) \in 1 .. 3
  BY <1>3, LimitRange DEF Reason
<1> HIDE DEF why, st
<1>7. ManagerTypeOK' /\ AskInv'
  <2>1. stick' \subseteq Dest
    BY <1>0 DEF Settle, ManagerTypeOK
  <2>2. new \in [dst : Dest, why : {"tcp", "weak", "fine"}, limit : 1 .. 3, same : BOOLEAN]
    BY <1>6
  <2> DEFINE Q == {NoAsk} \cup [dst : Dest, why : {"tcp", "weak", "fine"}, limit : 1 .. 3, same : BOOLEAN]
  <2>0. Overtaken(Gone(n)) \in [Caller -> Q] /\ new \in Q
    BY <2>2, OvertakenSearch
  <2> HIDE DEF new, Q
  <2>3. \A e \in Caller : ask'[e] = Overtaken(Gone(n))[e] \/ (e = c /\ ask'[e] = new)
    BY <1>0, <2>0
  <2>4. ask' \in [Caller -> Q]
    BY <1>0, <2>0
  <2> USE DEF new, Q
  <2>5. ASSUME NEW e \in Caller, ask'[e] # NoAsk, ask'[e].same, ask'[e].why = "weak"
        PROVE Bad(ask[e].dst)'
    <3>1. CASE ask'[e] = new
      BY <3>1, <2>5, <1>5
    <3>2. CASE ask'[e] = Overtaken(Gone(n))[e]
      <4>1. ask'[e] = ask[e] /\ ask[e].dst \in Dest \ Gone(n)
        BY <3>2, <2>5, OvertakenSearch
      <4> QED BY <4>1, <2>5, <1>4 DEF AskInv
    <3> QED BY <3>1, <3>2, <2>3
  <2> QED BY <1>2, <1>3, <2>1, <2>4, <2>5 DEF ManagerTypeOK, AskInv
<1>8. StickHasReason'
  <2> SUFFICES ASSUME NEW e \in stick' PROVE e \in late' \/ Bad(e)'
    BY DEF StickHasReason, Bad
  <2>1. e \in stick \ Gone(n) \/ (e = d /\ why = "weak")
    BY <1>0 DEF Settle
  <2>2. CASE e \in stick \ Gone(n)
    <3>1. e \in late \/ Bad(e)
      BY <2>2 DEF StickHasReason, Bad
    <3> QED BY <3>1, <2>2, <1>0, <1>4 DEF ManagerTypeOK
  <2> QED BY <2>1, <2>2, <1>5
<1> QED BY <1>7, <1>8

\* tryPeer after its unlock: a cooldown set on old knowledge is marked.
LEMMA TryPeerKeeps ==
  ASSUME ManagerInv, NEW c \in Caller, TryPeer(c)
  PROVE ManagerInv'
<1> USE DEF ManagerInv
<1> DEFINE q == ask[c]
<1>1. /\ q # NoAsk /\ UNCHANGED <<touched, stat>> /\ ask' = [ask EXCEPT ![c] = NoAsk]
      /\ \/ UNCHANGED <<stick, late>>
         \/ /\ stick' = Settle(q.why, q.dst, stick)
            /\ late' = IF stick' # stick /\ ~q.same THEN late \cup {q.dst} ELSE late
  BY DEF TryPeer
<1>2. q \in [dst : Dest, why : {"tcp", "weak", "fine"}, limit : 1 .. 3, same : BOOLEAN]
  BY <1>1 DEF ManagerTypeOK
<1>3. \A e : Bad(e)' <=> Bad(e)
  BY <1>1 DEF Bad, Keys
<1>4. ManagerTypeOK'
  BY <1>1, <1>2 DEF ManagerTypeOK, Settle, Distinct
<1>5. \A e \in Caller : ask'[e] # NoAsk => ask'[e] = ask[e]
  BY <1>1 DEF ManagerTypeOK
<1>6. AskInv'
  BY <1>3, <1>5 DEF AskInv
<1>7. StickHasReason'
  <2> SUFFICES ASSUME NEW e \in stick' PROVE e \in late' \/ Bad(e)
    BY <1>3 DEF StickHasReason, Bad
  <2>1. CASE e \in stick
    BY <2>1, <1>1 DEF StickHasReason, Bad
  <2>2. CASE e \notin stick
    <3>1. e = q.dst /\ q.why = "weak" /\ late' = (IF ~q.same THEN late \cup {q.dst} ELSE late)
      BY <2>2, <1>1 DEF Settle
    <3> QED BY <3>1, <1>1 DEF AskInv
  <2> QED BY <2>1, <2>2
<1> QED BY <1>4, <1>6, <1>7

\* Record: a success ends the cooldown and overtakes every search, a failure
\* makes a bad statistic no better.
LEMMA RecordKeeps ==
  ASSUME ManagerInv, NEW d \in Dest, NEW ok \in BOOLEAN, Record(d, ok)
  PROVE ManagerInv'
<1> USE DEF ManagerInv
<1>1. PICK n \in Sweeps :
        LET st == StatSwept(n)[d]
            freed == IF ok THEN Gone(n) \cup {d} ELSE Gone(n)
        IN  /\ touched' = Touch(Kept(n), d)
            /\ stat' = [StatSwept(n) EXCEPT ![d] =
                      [fails |-> IF ok THEN 0 ELSE Min2(3, st.fails + 1),
                       slips |-> IF ok THEN st.slips ELSE Min2(2, st.slips + 1)]]
            /\ stick' = stick \ freed
            /\ late' = late \ freed
            /\ ask' = Overtaken(freed)
  BY DEF Record
<1> DEFINE st == StatSwept(n)[d]
           freed == IF ok THEN Gone(n) \cup {d} ELSE Gone(n)
           new == [fails |-> IF ok THEN 0 ELSE Min2(3, st.fails + 1),
                   slips |-> IF ok THEN st.slips ELSE Min2(2, st.slips + 1)]
<1>2. /\ touched' \in Seq(Dest) /\ Len(touched') <= MaxPaths + 1 /\ Distinct(touched')
      /\ d \in Keys' /\ Keys \ Gone(n) \subseteq Keys'
  BY <1>1, TouchProperties DEF ManagerTypeOK
<1>3. /\ StatSwept(n) \in [Dest -> [fails : 0 .. 3, slips : 0 .. 2]]
      /\ \A e \in Dest : e \notin Gone(n) => StatSwept(n)[e] = stat[e]
      /\ st \in [fails : 0 .. 3, slips : 0 .. 2]
  BY SweptStat
<1>4. new \in [fails : 0 .. 3, slips : 0 .. 2]
  BY <1>3 DEF Min2
<1>5. ~ok => /\ st.fails >= FailThresh => new.fails >= FailThresh
             /\ st.slips = 2 => new.slips = 2
  BY <1>3, PathAssumption DEF Min2
<1>6. /\ stat' \in [Dest -> [fails : 0 .. 3, slips : 0 .. 2]]
      /\ stat'[d] = new /\ \A e \in Dest : e # d => stat'[e] = StatSwept(n)[e]
  <2> HIDE DEF new
  <2>1. stat' = [StatSwept(n) EXCEPT ![d] = new]
    BY <1>1 DEF new
  <2> QED BY <2>1, <1>3, <1>4
<1> HIDE DEF new
<1>7. \A e \in Dest \ freed : Bad(e) => Bad(e)'
  BY <1>2, <1>3, <1>5, <1>6 DEF Bad
<1>8. ManagerTypeOK'
  BY <1>1, <1>2, <1>6, OvertakenSearch DEF ManagerTypeOK
<1>9. AskInv'
  <2> SUFFICES ASSUME NEW e \in Caller, ask'[e] # NoAsk, ask'[e].same, ask'[e].why = "weak"
               PROVE Bad(ask[e].dst)'
    BY DEF AskInv
  <2>1. ask'[e] = ask[e] /\ ask[e].dst \in Dest \ freed
    BY <1>1, OvertakenSearch
  <2> QED BY <2>1, <1>7 DEF AskInv
<1>10. StickHasReason'
  <2> SUFFICES ASSUME NEW e \in stick' PROVE e \in late' \/ Bad(e)'
    BY DEF StickHasReason, Bad
  <2>1. e \in stick \ freed /\ (e \in late \/ Bad(e))
    BY <1>1 DEF StickHasReason, Bad
  <2> QED BY <2>1, <1>1, <1>7 DEF ManagerTypeOK
<1> QED BY <1>8, <1>9, <1>10

\* The manager under any callers.
LEMMA ManagerStep == ManagerInv /\ [PathNext]_pathVars => ManagerInv'
<1> SUFFICES ASSUME ManagerInv, [PathNext]_pathVars PROVE ManagerInv'
  OBVIOUS
<1>1. CASE UNCHANGED <<touched, stat, stick, ask, late>>
  BY <1>1 DEF ManagerInv, ManagerTypeOK, Distinct, AskInv, StickHasReason, Bad, Keys
<1>2. CASE UNCHANGED pathVars
  BY <1>1, <1>2 DEF pathVars
<1>3. CASE PathNext
  BY <1>1, <1>3, DecideKeeps, TryPeerKeeps, RecordKeeps DEF PathNext, Probe
<1> QED BY <1>2, <1>3

\* A sequence without repetition has as many elements as places.
LEMMA DistinctCount ==
  ASSUME NEW S, NEW s \in Seq(S), Distinct(s)
  PROVE Cardinality(Elems(s)) = Len(s)
<1>1. Len(s) \in Nat /\ s \in [1 .. Len(s) -> S]
  BY LenProperties
<1>2. [i \in 1 .. Len(s) |-> s[i]] \in Bijection(1 .. Len(s), Elems(s))
  BY <1>1 DEF Bijection, Injection, Surjection, IsInjective, Distinct, Elems
<1>3. ExistsBijection(1 .. Len(s), Elems(s))
  BY <1>2 DEF ExistsBijection
<1> QED BY <1>1, <1>3, FS_CountingElements

\* What the invariant says of the two properties of the manager.
LEMMA ManagerImplies == ManagerInv => PathsBounded /\ StickHasReason
<1>1. Keys = Elems(touched)
  BY DEF Keys, Elems
<1> QED BY <1>1, DistinctCount DEF ManagerInv, ManagerTypeOK, PathsBounded

\* Whatever its callers do, the table of statistics holds each destination
\* once and at most one entry beyond its limit (path_manager.go:441, 461).
THEOREM ManagerBounded == PathSpec => []PathsBounded
BY ManagerInit, ManagerStep, ManagerImplies, PTL DEF PathSpec

\* Whatever its callers do, also between the unlock and the lock of tryPeer,
\* a cooldown has a failing path behind it (path_manager.go:390-396, 424).
THEOREM CooldownHasReason == PathSpec => []StickHasReason
BY ManagerInit, ManagerStep, ManagerImplies, PTL DEF PathSpec

----------------------------------------------------------------------------
\* Where a flow may be: before its race, dialling, and at all.
Early == {"decide", "hop", "pquic", "pudp", "ptcp", "race"}
Active == Early \cup {"direct", "racing", "tcp", "quic", "fallback"}
Result == [who : Racer, ok : BOOLEAN]
Fields == {"pc", "dst", "mode", "exit", "shared", "allow", "pref", "dec", "i", "conn"}

TunTypeOK ==
  /\ DOMAIN flow = Flow
  /\ dial \in [Wire -> {"off", "wait", "try", "open", "ack", "send"}]
  /\ wires \subseteq Wire
  /\ ch \in [Flow -> Seq(Result)]

\* A flow asks for peers only while it decides, has a destination while it is
\* active and a connection only when it is up.
FlowOK(f) ==
  /\ DOMAIN flow[f] = Fields /\ flow[f].pc \in Active \cup {"idle", "up", "err"}
  /\ flow[f].conn \in {"none", "main"} \cup Racer
  /\ flow[f].conn # "none" <=> flow[f].pc = "up"
  /\ flow[f].pc \in Active => flow[f].dst \in Dest
  /\ ask[f] # NoAsk => flow[f].pc = "decide"

\* The flow's own wire is the one it dials or the one it was given.
MainOK(f) ==
  /\ dial[Main(f)] \in {"off", "try", "open", "ack"}
  /\ dial[Main(f)] # "off" => Dials(flow[f].pc)
  /\ dial[Main(f)] \in {"open", "ack"} => Main(f) \in wires
  /\ Main(f) \in wires => dial[Main(f)] \in {"open", "ack"} \/ flow[f].conn = "main"
  /\ flow[f].conn = "main" => Main(f) \in wires

\* A racer's wire is the racer's, the flow's or the channel's; before the race
\* there is none.
RacerOK(f, k) ==
  /\ dial[<<f, k>>] \in {"off", "wait", "try", "open", "send"}
  /\ <<f, k>> \in wires => \/ dial[<<f, k>>] \in {"open", "send"}
                           \/ flow[f].conn = k
                           \/ InChannel(<<f, k>>)
  /\ flow[f].conn = k => <<f, k>> \in wires /\ dial[<<f, k>>] = "off"
  /\ flow[f].pc \in Early => dial[<<f, k>>] = "off" /\ <<f, k>> \notin wires

\* A result in the channel comes from a racer that is done, whose wire is open
\* if it says so and is not the flow's.
ChanOK(f) ==
  /\ flow[f].pc \in Early => ch[f] = <<>>
  /\ \A i \in 1 .. Len(ch[f]) :
       /\ dial[<<f, ch[f][i].who>>] = "off" /\ flow[f].conn # ch[f][i].who
       /\ ch[f][i].ok => <<f, ch[f][i].who>> \in wires
       /\ \A j \in 1 .. Len(ch[f]) : ch[f][j].who = ch[f][i].who => i = j

SlotOK(f) == FlowOK(f) /\ MainOK(f) /\ ChanOK(f) /\ \A k \in Racer : RacerOK(f, k)

TunInv == ManagerInv /\ TunTypeOK /\ \A f \in Flow : SlotOK(f)

\* Wires are named by a flow and one of three goroutines.
LEMMA WireFacts ==
  /\ \A f \in Flow : Main(f) \in Wire /\ Main(f) = <<f, "main">> /\ Main(f)[1] = f /\ Main(f)[2] = "main"
  /\ \A f \in Flow, k \in Racer : <<f, k>> \in Wire /\ k # "main" /\ k # "none"
  /\ \A w \in Wire : w[1] \in Flow /\ w = <<w[1], w[2]>> /\ (w[2] = "main" \/ w[2] \in Racer)
BY DEF Wire, Main, Racer

\* The next stage of DialTunFlow exists, and after the race only the server is left.
LEMMA EnterStage ==
  ASSUME NEW r, DOMAIN r = Fields, NEW k \in 1 .. 6
  PROVE /\ DOMAIN Enter(r, k) = Fields
        /\ Enter(r, k).conn = r.conn /\ Enter(r, k).dst = r.dst
        /\ Enter(r, k).pc \in {"hop", "pquic", "pudp", "ptcp", "race", "tcp", "quic"}
        /\ k = 6 => Enter(r, k).pc \in {"tcp", "quic"}
<1> DEFINE E(j) == Enters(r, Stages[j])
           First(n, j) == E(j) /\ \A m \in n .. j - 1 : ~E(m)
           j == CHOOSE j \in k .. 6 : First(k, j)
           pc == IF Stages[j] # "last" THEN Stages[j] ELSE IF r.pref THEN "tcp" ELSE "quic"
<1>1. E(6)
  BY DEF Enters, Stages
<1> HIDE DEF E
<1>2. \A n \in 1 .. 5 : (\E p \in n + 1 .. 6 : First(n + 1, p)) => \E p \in n .. 6 : First(n, p)
  <2> SUFFICES ASSUME NEW n \in 1 .. 5, NEW p \in n + 1 .. 6, First(n + 1, p)
               PROVE \E q \in n .. 6 : First(n, q)
    OBVIOUS
  <2>1. CASE E(n)
    <3>1. First(n, n) /\ n \in n .. 6
      BY <2>1
    <3> QED BY <3>1
  <2>2. CASE ~E(n)
    <3>1. First(n, p) /\ p \in n .. 6
      BY <2>2
    <3> QED BY <3>1
  <2> QED BY <2>1, <2>2
<1>3. \E p \in 6 .. 6 : First(6, p)
  BY <1>1
<1> HIDE DEF First
<1>4. \E p \in k .. 6 : First(k, p)
  <2>5. \E p \in 5 .. 6 : First(5, p)
    BY <1>2, <1>3
  <2>4. \E p \in 4 .. 6 : First(4, p)
    BY <1>2, <2>5
  <2>3. \E p \in 3 .. 6 : First(3, p)
    BY <1>2, <2>4
  <2>2. \E p \in 2 .. 6 : First(2, p)
    BY <1>2, <2>3
  <2>1. \E p \in 1 .. 6 : First(1, p)
    BY <1>2, <2>2
  <2>6. k = 1 \/ k = 2 \/ k = 3 \/ k = 4 \/ k = 5 \/ k = 6
    OBVIOUS
  <2> QED BY <1>3, <2>1, <2>2, <2>3, <2>4, <2>5, <2>6
<1>5. j \in k .. 6
  BY <1>4
<1>6. Enter(r, k) = [r EXCEPT !.pc = pc, !.i = 1]
  BY DEF Enter, First, E
<1> HIDE DEF j
<1>7. /\ pc \in {"hop", "pquic", "pudp", "ptcp", "race", "tcp", "quic"}
      /\ k = 6 => pc \in {"tcp", "quic"}
  <2>1. j = 1 \/ j = 2 \/ j = 3 \/ j = 4 \/ j = 5 \/ j = 6
    BY <1>5
  <2>2. k = 6 => j = 6
    BY <1>5
  <2> QED BY <2>1, <2>2 DEF Stages
<1> HIDE DEF pc
<1> QED BY <1>6, <1>7 DEF Fields

\* What is in a channel is a racer's result.
LEMMA ResultFacts ==
  ASSUME TunTypeOK, NEW f \in Flow
  PROVE ch[f] \in Seq(Result) /\ \A i \in 1 .. Len(ch[f]) : ch[f][i] \in Result /\ ch[f][i].who \in Racer
<1>1. ch[f] \in Seq(Result)
  BY DEF TunTypeOK
<1>2. \A i \in 1 .. Len(ch[f]) : ch[f][i] \in Result
  BY <1>1, ElementOfSeq
<1> QED BY <1>1, <1>2 DEF Result

\* A step of one slot leaves the others alone.
LEMMA OtherSlots ==
  ASSUME NEW f \in Flow, TunTypeOK, TunTypeOK', \A g \in Flow : SlotOK(g),
         \A g \in Flow \ {f} : flow'[g] = flow[g] /\ ch'[g] = ch[g] /\ (ask'[g] # NoAsk => ask[g] # NoAsk),
         \A w \in Wire : w[1] # f => dial'[w] = dial[w] /\ (w \in wires' <=> w \in wires)
  PROVE \A g \in Flow \ {f} : SlotOK(g)'
<1> SUFFICES ASSUME NEW g \in Flow, g # f PROVE SlotOK(g)'
  OBVIOUS
<1>0. SlotOK(g) /\ flow'[g] = flow[g] /\ ch'[g] = ch[g]
  OBVIOUS
<1>1. FlowOK(g)'
  BY <1>0 DEF FlowOK, SlotOK
<1>2. MainOK(g)'
  <2>1. dial'[Main(g)] = dial[Main(g)] /\ (Main(g) \in wires' <=> Main(g) \in wires)
    BY WireFacts
  <2> QED BY <2>1, <1>0, WireFacts DEF MainOK, SlotOK, Main
<1>3. ASSUME NEW k \in Racer
      PROVE dial'[<<g, k>>] = dial[<<g, k>>] /\ (<<g, k>> \in wires' <=> <<g, k>> \in wires)
  BY WireFacts
<1>4. ASSUME NEW k \in Racer PROVE RacerOK(g, k)'
  BY <1>0, <1>3 DEF RacerOK, SlotOK, InChannel
<1>5. ChanOK(g)'
  <2>1. \A i \in 1 .. Len(ch[g]) : ch[g][i].who \in Racer
    BY ResultFacts
  <2> QED BY <2>1, <1>0, <1>3 DEF ChanOK, SlotOK
<1> QED BY <1>1, <1>2, <1>4, <1>5 DEF SlotOK

\* The flow moves to another record and its own dial starts or is over.
LEMMA BecomeFacts ==
  ASSUME NEW f \in Flow, NEW r, TunTypeOK, Become(f, r)
  PROVE /\ DOMAIN flow' = Flow /\ flow'[f] = r /\ \A g \in Flow \ {f} : flow'[g] = flow[g]
        /\ dial' \in [Wire -> {"off", "wait", "try", "open", "ack", "send"}]
        /\ dial'[Main(f)] = (IF Dials(r.pc) THEN "try" ELSE "off")
        /\ \A w \in Wire : w # Main(f) => dial'[w] = dial[w]
BY WireFacts DEF Become, TunTypeOK

\* A flow that holds no wire moves on to its next dial; its racers, if there
\* are any, and their results stay as they are.
LEMMA MovesOn ==
  ASSUME NEW f \in Flow, NEW r, TunTypeOK, SlotOK(f), Become(f, r),
         DOMAIN r = Fields, r.conn = "none", r.pc \in Active, r.dst \in Dest,
         flow[f].pc \in Active, r.pc \in Early => flow[f].pc \in Early,
         ask'[f] # NoAsk => r.pc = "decide",
         wires' \subseteq Wire, Main(f) \notin wires',
         \A w \in Wire : w # Main(f) => (w \in wires' <=> w \in wires),
         ch' = ch
  PROVE TunTypeOK' /\ SlotOK(f)'
<1> USE WireFacts
<1>0. /\ DOMAIN flow' = Flow /\ flow'[f] = r
      /\ dial' \in [Wire -> {"off", "wait", "try", "open", "ack", "send"}]
      /\ dial'[Main(f)] = (IF Dials(r.pc) THEN "try" ELSE "off")
      /\ \A w \in Wire : w # Main(f) => dial'[w] = dial[w]
  BY BecomeFacts
<1>1. TunTypeOK'
  BY <1>0 DEF TunTypeOK
<1>2. FlowOK(f)'
  BY <1>0 DEF FlowOK, Active, Early
<1>3. MainOK(f)'
  BY <1>0 DEF MainOK, Main
<1>4. flow[f].conn = "none"
  BY DEF SlotOK, FlowOK, Active, Early
<1>5. ASSUME NEW k \in Racer
      PROVE dial'[<<f, k>>] = dial[<<f, k>>] /\ (<<f, k>> \in wires' <=> <<f, k>> \in wires)
  BY <1>0
<1>6. ASSUME NEW k \in Racer PROVE RacerOK(f, k)'
  BY <1>0, <1>4, <1>5 DEF RacerOK, SlotOK, InChannel
<1>7. ChanOK(f)'
  <2>1. \A i \in 1 .. Len(ch[f]) : ch[f][i].who \in Racer
    BY ResultFacts
  <2> QED BY <2>1, <1>0, <1>4, <1>5 DEF ChanOK, SlotOK
<1> QED BY <1>1, <1>2, <1>3, <1>6, <1>7 DEF SlotOK

\* A flow that ends gets its own wire or an error.
LEMMA Finishes ==
  ASSUME NEW f \in Flow, NEW r, TunTypeOK, SlotOK(f), Become(f, r),
         r = [Idle EXCEPT !.pc = "up", !.conn = "main"] \/ r = [Idle EXCEPT !.pc = "err"],
         flow[f].pc \in Active, ask'[f] # NoAsk => ask[f] # NoAsk, flow[f].pc # "decide",
         wires' \subseteq Wire, Main(f) \in wires' <=> r.pc = "up",
         \A w \in Wire : w # Main(f) => (w \in wires' <=> w \in wires),
         ch' = ch
  PROVE TunTypeOK' /\ SlotOK(f)'
<1> USE WireFacts
<1>0. /\ DOMAIN flow' = Flow /\ flow'[f] = r
      /\ dial' \in [Wire -> {"off", "wait", "try", "open", "ack", "send"}]
      /\ dial'[Main(f)] = (IF Dials(r.pc) THEN "try" ELSE "off")
      /\ \A w \in Wire : w # Main(f) => dial'[w] = dial[w]
  BY BecomeFacts
<1>1. TunTypeOK'
  BY <1>0 DEF TunTypeOK
<1>2. /\ DOMAIN r = Fields /\ r.pc \in {"up", "err"}
      /\ r.conn = IF r.pc = "up" THEN "main" ELSE "none"
  BY DEF Idle, Fields
<1>3. FlowOK(f)'
  BY <1>0, <1>2 DEF FlowOK, SlotOK, Active, Early
<1>4. MainOK(f)'
  BY <1>0, <1>2 DEF MainOK, Main, Dials
<1>5. ASSUME NEW k \in Racer
      PROVE dial'[<<f, k>>] = dial[<<f, k>>] /\ (<<f, k>> \in wires' <=> <<f, k>> \in wires)
  BY <1>0
<1>6. flow[f].conn = "none" /\ r.conn \notin Racer
  BY <1>2 DEF SlotOK, FlowOK, Active, Early
<1>7. ASSUME NEW k \in Racer PROVE RacerOK(f, k)'
  BY <1>0, <1>2, <1>5, <1>6 DEF RacerOK, SlotOK, InChannel, Early
<1>8. ChanOK(f)'
  <2>1. \A i \in 1 .. Len(ch[f]) : ch[f][i].who \in Racer
    BY ResultFacts
  <2> QED BY <2>1, <1>0, <1>2, <1>5, <1>6 DEF ChanOK, SlotOK, Early
<1> QED BY <1>1, <1>3, <1>4, <1>7, <1>8 DEF SlotOK

\* handleTCP starts in a slot whose goroutines are gone.
LEMMA StartKeeps ==
  ASSUME NEW f \in Flow, NEW d \in Dest, NEW m, NEW x, NEW a, TunTypeOK, SlotOK(f), Start(f, d, m, x, a)
  PROVE TunTypeOK' /\ SlotOK(f)' /\ flow'[f].pc \in Active
<1> USE WireFacts
<1> DEFINE r0 == [Idle EXCEPT !.dst = d, !.mode = m, !.exit = x, !.shared = conf.quic, !.pref = x,
                              !.allow = a \/ m = "peer_relay"]
           r1 == [r0 EXCEPT !.dec = Trim(Direct(x)), !.pref = @ \/ Direct(x).pref]
<1>1. /\ flow[f].pc = "idle" /\ wires' = wires /\ ask' = ask /\ ch' = [ch EXCEPT ![f] = <<>>]
      /\ \A w \in Wire : w[1] = f => dial[w] = "off" /\ w \notin wires
      /\ \/ Become(f, [r0 EXCEPT !.pc = "direct", !.pref = ~conf.quic])
         \/ Become(f, Enter(r1, 1))
         \/ Become(f, [r0 EXCEPT !.pc = "decide"])
  BY DEF Start, Decided, pathVars
<1>2. /\ DOMAIN r0 = Fields /\ r0.conn = "none" /\ r0.dst = d
      /\ DOMAIN r1 = Fields /\ r1.conn = "none" /\ r1.dst = d
  BY DEF Idle, Fields
<1>3. PICK r : /\ Become(f, r) /\ DOMAIN r = Fields /\ r.conn = "none" /\ r.dst = d
               /\ r.pc \in Active
  <2>1. CASE Become(f, [r0 EXCEPT !.pc = "direct", !.pref = ~conf.quic])
    <3> DEFINE e == [r0 EXCEPT !.pc = "direct", !.pref = ~conf.quic]
    <3> HIDE DEF r0
    <3>1. DOMAIN e = Fields /\ e.conn = "none" /\ e.dst = d /\ e.pc \in Active
      BY <1>2 DEF Fields, Active
    <3>2. Become(f, e)
      BY <2>1
    <3> HIDE DEF e
    <3> QED BY <3>1, <3>2
  <2>2. CASE Become(f, [r0 EXCEPT !.pc = "decide"])
    <3> HIDE DEF r0
    <3> QED BY <2>2, <1>2 DEF Fields, Active, Early
  <2>3. CASE Become(f, Enter(r1, 1))
    <3> HIDE DEF r1
    <3> DEFINE e == Enter(r1, 1)
    <3>1. DOMAIN e = Fields /\ e.conn = "none" /\ e.dst = d /\ e.pc \in Active
      BY <1>2, EnterStage DEF Active, Early
    <3>2. Become(f, e)
      BY <2>3
    <3> HIDE DEF e
    <3> QED BY <3>1, <3>2
  <2> QED BY <1>1, <2>1, <2>2, <2>3
<1>4. /\ DOMAIN flow' = Flow /\ flow'[f] = r
      /\ dial' \in [Wire -> {"off", "wait", "try", "open", "ack", "send"}]
      /\ dial'[Main(f)] = (IF Dials(r.pc) THEN "try" ELSE "off")
      /\ \A w \in Wire : w # Main(f) => dial'[w] = dial[w]
  BY <1>3, BecomeFacts
<1>5. TunTypeOK' /\ ch'[f] = <<>>
  <2>1. <<>> \in Seq(Result)
    BY EmptySeq
  <2> QED BY <2>1, <1>1, <1>4 DEF TunTypeOK
<1>6. FlowOK(f)'
  BY <1>1, <1>3, <1>4 DEF FlowOK, SlotOK, Active, Early
<1>7. MainOK(f)'
  BY <1>1, <1>3, <1>4 DEF MainOK, Main
<1>8. ASSUME NEW k \in Racer PROVE RacerOK(f, k)'
  <2>1. dial'[<<f, k>>] = "off" /\ <<f, k>> \notin wires'
    BY <1>1, <1>4
  <2> QED BY <2>1, <1>3, <1>4 DEF RacerOK
<1>9. ChanOK(f)'
  BY <1>5 DEF ChanOK
<1> QED BY <1>3, <1>4, <1>5, <1>6, <1>7, <1>8, <1>9 DEF SlotOK

\* pm.Decide and its second half, both of a flow that is deciding.
LEMMA AskKeeps ==
  ASSUME NEW f \in Flow, TunInv, AskPath(f) \/ AskPeers(f)
  PROVE TunInv'
<1> USE WireFacts DEF TunInv
<1>0. SlotOK(f)
  OBVIOUS
<1>1. flow[f].pc = "decide" /\ ch' = ch /\ wires' = wires
  BY <1>0 DEF AskPath, AskPeers, TryPeer, SlotOK, FlowOK
<1>2. flow[f].dst \in Dest /\ DOMAIN flow[f] = Fields /\ flow[f].conn = "none"
  BY <1>0, <1>1 DEF SlotOK, FlowOK, Active, Early
<1>3. ManagerInv' /\ \A g \in Flow \ {f} : ask'[g] # NoAsk => ask[g] # NoAsk
  <2>1. CASE AskPath(f)
    <3>1. PICK n \in Sweeps, sticky \in BOOLEAN, low \in BOOLEAN, weak \in BOOLEAN :
             DecideAfter(n, sticky, low, weak, f, flow[f].dst, conf.dual /\ flow[f].shared,
                         flow[f].allow, flow[f].mode = "peer_relay")
      BY <2>1 DEF AskPath, Decide
    <3>2. ManagerInv'
      BY <2>1, <1>2, DecideKeeps DEF AskPath, Flow
    <3>3. \/ ask' = Overtaken(Gone(n))
          \/ \E v : ask' = [Overtaken(Gone(n)) EXCEPT ![f] = v]
      BY <3>1, Zenon DEF DecideAfter
    <3>4. /\ Overtaken(Gone(n)) \in [Caller -> {NoAsk} \cup [dst : Dest, why : {"tcp", "weak", "fine"},
                                                     limit : 1 .. 3, same : BOOLEAN]]
          /\ \A c \in Caller : Overtaken(Gone(n))[c] # NoAsk => ask[c] # NoAsk
      BY OvertakenSearch DEF ManagerInv
    <3> HIDE DEF TunInv
    <3>5. \A g \in Flow \ {f} : ask'[g] = Overtaken(Gone(n))[g]
      BY <3>3, <3>4 DEF Flow
    <3> QED BY <3>2, <3>4, <3>5 DEF Flow
  <2>2. CASE AskPeers(f)
    BY <2>2, TryPeerKeeps DEF AskPeers, TryPeer, Flow, ManagerInv, ManagerTypeOK
  <2> QED BY <2>1, <2>2
<1>4. CASE UNCHANGED <<flow, dial, left>>
  <2>1. TunTypeOK' /\ FlowOK(f)' /\ MainOK(f)' /\ ChanOK(f)' /\ \A k \in Racer : RacerOK(f, k)'
    BY <1>0, <1>1, <1>4 DEF SlotOK, TunTypeOK, FlowOK, MainOK, ChanOK, RacerOK, InChannel
  <2>2. SlotOK(f)'
    BY <2>1 DEF SlotOK
  <2>3. \A g \in Flow \ {f} : SlotOK(g)'
    BY <2>1, <1>1, <1>3, <1>4, OtherSlots
  <2> QED BY <2>1, <2>2, <2>3, <1>3
<1>5. CASE ask'[f] = NoAsk /\ Decided(f, flow[f], answer')
  <2> DEFINE r0 == [flow[f] EXCEPT !.dec = Trim(answer'), !.pref = @ \/ (answer').pref]
             r == Enter(r0, 1)
  <2>1. DOMAIN r0 = Fields /\ r0.conn = "none" /\ r0.dst = flow[f].dst
    BY <1>2 DEF Fields
  <2>2. Become(f, r)
    BY <1>5 DEF Decided
  <2> HIDE DEF r0
  <2>3. DOMAIN r = Fields /\ r.conn = "none" /\ r.dst \in Dest /\ r.pc \in Active
    BY <2>1, <1>2, EnterStage DEF Active, Early
  <2> HIDE DEF r
  <2>4. Main(f) \notin wires
    BY <1>0, <1>1, <1>2 DEF SlotOK, MainOK, Dials
  <2>5. TunTypeOK' /\ SlotOK(f)'
    BY <1>0, <1>1, <1>5, <2>2, <2>3, <2>4, MovesOn DEF Active, Early, TunTypeOK
  <2>6. /\ \A g \in Flow \ {f} : flow'[g] = flow[g]
        /\ \A w \in Wire : w[1] # f => dial'[w] = dial[w]
    BY <2>2, BecomeFacts
  <2>7. \A g \in Flow \ {f} : SlotOK(g)'
    BY <2>5, <2>6, <1>1, <1>3, OtherSlots
  <2> QED BY <2>5, <2>7, <1>3
<1>6. AskPeers(f) => ask'[f] = NoAsk
  BY DEF AskPeers, TryPeer, ManagerInv, ManagerTypeOK, Flow
<1> QED BY <1>4, <1>5, <1>6 DEF AskPath, AskPeers

\* One try of a dial, the flow's own or a racer's.
LEMMA TryKeeps ==
  ASSUME NEW f \in Flow, NEW w \in Wire, w[1] = f, TunTypeOK, SlotOK(f), ask' = ask,
         Connect(w) \/ TryFails(w) \/ (w = Main(f) /\ AwaitAck(f))
  PROVE TunTypeOK' /\ SlotOK(f)'
<1> USE WireFacts
<1>1. /\ flow' = flow /\ ch' = ch
      /\ \/ dial[w] = "try" /\ dial' = [dial EXCEPT ![w] = "open"] /\ wires' = wires \cup {w}
         \/ dial[w] \in {"try", "open"} /\ dial' = [dial EXCEPT ![w] = "try"] /\ wires' = wires \ {w}
         \/ w = Main(f) /\ dial[w] = "open" /\ dial' = [dial EXCEPT ![w] = "ack"] /\ wires' = wires
  BY DEF Connect, TryFails, AwaitAck, CloseOnFailure
<1>2. /\ dial[w] \in {"try", "open"} /\ dial'[w] \in {"try", "open", "ack"}
      /\ (w \in wires' <=> dial'[w] # "try") \/ (dial'[w] = "ack" /\ wires' = wires)
      /\ dial'[w] = "ack" => w = Main(f) /\ dial[w] = "open"
      /\ \A v \in Wire : v # w => dial'[v] = dial[v] /\ (v \in wires' <=> v \in wires)
  BY <1>1 DEF TunTypeOK
<1>3. TunTypeOK'
  BY <1>1 DEF TunTypeOK
<1>4. FlowOK(f)'
  BY <1>1 DEF SlotOK, FlowOK
<1>5. MainOK(f)'
  <2>1. CASE w = Main(f)
    <3>1. flow[f].conn # "main"
      BY <2>1, <1>2 DEF SlotOK, FlowOK, MainOK, Dials
    <3> QED BY <2>1, <3>1, <1>1, <1>2 DEF SlotOK, MainOK, Main
  <2>2. CASE w # Main(f)
    <3>1. dial'[Main(f)] = dial[Main(f)] /\ (Main(f) \in wires' <=> Main(f) \in wires)
      BY <2>2, <1>2
    <3> QED BY <3>1, <1>1 DEF SlotOK, MainOK, Main
  <2> QED BY <2>1, <2>2
<1>6. ASSUME NEW k \in Racer PROVE RacerOK(f, k)'
  <2>1. RacerOK(f, k)
    BY DEF SlotOK
  <2>2. CASE w = <<f, k>>
    BY <2>1, <2>2, <1>1, <1>2 DEF RacerOK
  <2>3. CASE w # <<f, k>>
    <3>1. dial'[<<f, k>>] = dial[<<f, k>>] /\ (<<f, k>> \in wires' <=> <<f, k>> \in wires)
      BY <2>3, <1>2
    <3> QED BY <2>1, <3>1, <1>1 DEF RacerOK, InChannel
  <2> QED BY <2>2, <2>3
<1>7. ChanOK(f)'
  <2>1. \A i \in 1 .. Len(ch[f]) : ch[f][i].who \in Racer /\ <<f, ch[f][i].who>> # w
    BY <1>2, ResultFacts DEF SlotOK, ChanOK
  <2>2. \A i \in 1 .. Len(ch[f]) : LET v == <<f, ch[f][i].who>> IN
          dial'[v] = dial[v] /\ (v \in wires' <=> v \in wires)
    BY <2>1, <1>2
  <2> QED BY <2>2, <1>1 DEF SlotOK, ChanOK
<1> QED BY <1>3, <1>4, <1>5, <1>6, <1>7 DEF SlotOK

\* Recording a result starts no search.
LEMMA TellFacts ==
  ASSUME ManagerInv, NEW f \in Flow, flow[f].dst \in Dest, NEW ok \in BOOLEAN, Tell(f, ok)
  PROVE ManagerInv' /\ \A g \in Flow : ask'[g] # NoAsk => ask[g] # NoAsk
<1>1. ManagerInv'
  BY RecordKeeps DEF Tell
<1>2. PICK D : ask' = Overtaken(D)
  BY DEF Tell, Record
<1>3. \A g \in Caller : Overtaken(D)[g] # NoAsk => ask[g] # NoAsk
  BY OvertakenSearch DEF ManagerInv
<1> QED BY <1>1, <1>2, <1>3 DEF Flow

\* Whatever leaves the manager alone keeps its invariant.
LEMMA QuietFacts ==
  ASSUME ManagerInv, UNCHANGED pathVars
  PROVE ManagerInv' /\ ask' = ask
BY ManagerStep DEF pathVars

\* What a flow turns to when a dial of it failed for good.
GoesOn(f, r) ==
  /\ DOMAIN r = Fields /\ r.conn = "none" /\ r.pc \in Active /\ r.dst \in Dest
  /\ r.pc \in Early => flow[f].pc \in Early

\* A failed dial has a successor within DialTunFlow or is recorded as the end.
LEMMA LostFacts ==
  ASSUME NEW f \in Flow, flow[f].pc \in Active, flow[f].dst \in Dest, DOMAIN flow[f] = Fields,
         flow[f].conn = "none", Lost(f)
  PROVE \/ Quiet /\ \E r : Become(f, r) /\ GoesOn(f, r)
        \/ Become(f, [Idle EXCEPT !.pc = "err"]) /\ Tell(f, FALSE)
<1> USE DEF GoesOn
<1> DEFINE r0 == flow[f]
           k == CHOOSE k \in 2 .. 4 : Stages[k] = r0.pc
           n == [r0 EXCEPT !.dec.class = "direct", !.dec.tcp = 0]
           up == [r0 EXCEPT !.i = @ + 1]
           back == [r0 EXCEPT !.pc = "fallback"]
<1>1. \/ r0.pc = "hop" /\ Quiet /\ Become(f, Enter(r0, 2))
      \/ r0.pc \in {"pquic", "pudp", "ptcp"} /\ Quiet /\
           (Become(f, up) \/ Become(f, Enter(n, k + 1)) \/ Become(f, Enter(r0, k + 1)))
      \/ r0.pc = "quic" /\ Quiet /\ Become(f, back)
      \/ Become(f, [Idle EXCEPT !.pc = "err"]) /\ Tell(f, FALSE)
  BY DEF Lost
<1>2. ASSUME r0.pc \in {"pquic", "pudp", "ptcp"} PROVE k + 1 \in 1 .. 6
  <2>1. Stages[2] = "pquic" /\ Stages[3] = "pudp" /\ Stages[4] = "ptcp"
    BY DEF Stages
  <2>2. \E j \in 2 .. 4 : Stages[j] = r0.pc
    BY <1>2, <2>1
  <2>3. k \in 2 .. 4
    BY <2>2
  <2> HIDE DEF k
  <2> QED BY <2>3
<1>3. DOMAIN n = Fields /\ n.conn = "none" /\ n.dst \in Dest
  BY DEF Fields
<1>4. r0.pc \in {"pquic", "pudp", "ptcp"} => GoesOn(f, up)
  BY DEF Fields, Active, Early
<1>5. r0.pc = "quic" => GoesOn(f, back)
  BY DEF Fields, Active, Early
<1>6. ASSUME NEW j \in 1 .. 6, NEW q, DOMAIN q = Fields, q.conn = "none", q.dst \in Dest,
             r0.pc \in {"hop", "pquic", "pudp", "ptcp"}
      PROVE GoesOn(f, Enter(q, j))
  BY <1>6, EnterStage DEF Active, Early
<1> HIDE DEF k, n, up, back
<1>7. CASE r0.pc = "hop" /\ Quiet /\ Become(f, Enter(r0, 2))
  <2>1. GoesOn(f, Enter(r0, 2))
    BY <1>6, <1>7
  <2> HIDE DEF GoesOn
  <2> QED BY <2>1, <1>7
<1>8. CASE r0.pc \in {"pquic", "pudp", "ptcp"} /\ Quiet
  <2>1. GoesOn(f, up) /\ GoesOn(f, Enter(n, k + 1)) /\ GoesOn(f, Enter(r0, k + 1))
    BY <1>2, <1>3, <1>4, <1>6, <1>8
  <2> HIDE DEF GoesOn
  <2> QED BY <2>1, <1>1, <1>8
<1>9. CASE r0.pc = "quic" /\ Quiet /\ Become(f, back)
  <2> HIDE DEF GoesOn
  <2> QED BY <1>5, <1>9
<1> QED BY <1>1, <1>7, <1>8, <1>9

\* The flow's own dial comes to its end: it is up, or it goes on, or it is over.
LEMMA DialKeeps ==
  ASSUME NEW f \in Flow, TunInv, DialSucceeds(f) \/ DialFails(f)
  PROVE TunInv'
<1> USE WireFacts DEF TunInv
<1>0. SlotOK(f)
  OBVIOUS
<1>1. ch' = ch /\ dial[Main(f)] \in {"try", "open", "ack"}
  BY DEF DialSucceeds, DialFails
<1>2. /\ Dials(flow[f].pc) /\ flow[f].pc \in Active \ {"decide"} /\ flow[f].dst \in Dest
      /\ DOMAIN flow[f] = Fields /\ flow[f].conn = "none"
  BY <1>0, <1>1 DEF SlotOK, MainOK, FlowOK, Dials, Active, Early
<1>3. ManagerInv' /\ \A g \in Flow : ask'[g] # NoAsk => ask[g] # NoAsk
  <2>1. Tell(f, TRUE) \/ Tell(f, FALSE) \/ Quiet
    BY DEF DialSucceeds, Won, DialFails, Lost
  <2> QED BY <2>1, <1>2, TellFacts, QuietFacts DEF Quiet
<1>4. ask'[f] = NoAsk
  BY <1>0, <1>2, <1>3 DEF SlotOK, FlowOK
<1> DEFINE Over(r) == r = [Idle EXCEPT !.pc = "up", !.conn = "main"] \/ r = [Idle EXCEPT !.pc = "err"]
<1>5. ASSUME NEW r, Become(f, r), GoesOn(f, r) \/ Over(r), wires' \subseteq Wire,
             Main(f) \in wires' <=> r.pc = "up",
             \A w \in Wire : w # Main(f) => (w \in wires' <=> w \in wires)
      PROVE TunInv'
  <2>1. TunTypeOK' /\ SlotOK(f)'
    <3>1. CASE GoesOn(f, r)
      <4>1. Main(f) \notin wires'
        BY <3>1, <1>5 DEF GoesOn, Active, Early
      <4> QED BY <3>1, <4>1, <1>0, <1>1, <1>2, <1>4, <1>5, MovesOn DEF GoesOn
    <3>2. CASE Over(r)
      BY <3>2, <1>0, <1>1, <1>2, <1>3, <1>5, Finishes
    <3> QED BY <3>1, <3>2, <1>5
  <2>2. /\ \A g \in Flow \ {f} : flow'[g] = flow[g]
        /\ \A w \in Wire : w[1] # f => dial'[w] = dial[w]
    BY <1>5, BecomeFacts
  <2>3. \A g \in Flow \ {f} : SlotOK(g)'
    BY <2>1, <2>2, <1>1, <1>3, <1>5, OtherSlots
  <2> QED BY <2>1, <2>3, <1>3
<1>6. CASE DialSucceeds(f)
  <2> DEFINE r == [Idle EXCEPT !.pc = "up", !.conn = "main"]
  <2>1. Become(f, r) /\ wires' = wires /\ dial[Main(f)] \in {"open", "ack"}
    BY <1>6 DEF DialSucceeds, Won
  <2>2. Main(f) \in wires /\ r.pc = "up"
    BY <2>1, <1>0 DEF SlotOK, MainOK, Idle
  <2> QED BY <2>1, <2>2, <1>5 DEF TunTypeOK
<1>7. CASE DialFails(f)
  <2>1. wires' = wires \ {Main(f)} /\ wires' \subseteq Wire
    BY <1>7 DEF DialFails, CloseOnFailure, TunTypeOK
  <2>2. ASSUME NEW r, Become(f, r), GoesOn(f, r) \/ r = [Idle EXCEPT !.pc = "err"] PROVE TunInv'
    <3>1. r.pc # "up"
      BY <2>2 DEF GoesOn, Idle, Active, Early
    <3> QED BY <3>1, <2>1, <2>2, <1>5
  <2> QED BY <1>2, <1>7, <2>2, LostFacts DEF DialFails
<1> QED BY <1>6, <1>7

\* The race starts where nothing of an earlier race is left.
LEMMA StartRaceKeeps ==
  ASSUME NEW f \in Flow, TunTypeOK, SlotOK(f), StartRace(f)
  PROVE TunTypeOK' /\ SlotOK(f)'
<1> USE WireFacts
<1>1. PICK yes \in BOOLEAN :
        /\ flow' = [flow EXCEPT ![f].pc = "racing", ![f].pref = ~yes, ![f].i = 0]
        /\ dial' = [dial EXCEPT ![<<f, "rq">>] = IF yes THEN "try" ELSE "wait",
                                ![<<f, "rt">>] = IF yes THEN "wait" ELSE "try"]
  BY DEF StartRace
<1>2. /\ flow[f].pc = "race" /\ wires' = wires /\ ch' = ch /\ ask' = ask
      /\ flow[f].conn = "none" /\ DOMAIN flow[f] = Fields /\ flow[f].dst \in Dest /\ ask[f] = NoAsk
      /\ ch[f] = <<>>
  BY DEF StartRace, pathVars, SlotOK, FlowOK, ChanOK, Active, Early
<1>3. /\ DOMAIN flow' = Flow /\ DOMAIN flow'[f] = Fields /\ flow'[f].pc = "racing"
      /\ flow'[f].conn = "none" /\ flow'[f].dst = flow[f].dst
  BY <1>1, <1>2 DEF TunTypeOK, Fields
<1>4. /\ dial' \in [Wire -> {"off", "wait", "try", "open", "ack", "send"}]
      /\ dial'[Main(f)] = dial[Main(f)]
      /\ \A k \in Racer : dial'[<<f, k>>] \in {"wait", "try"}
  BY <1>1 DEF TunTypeOK, Racer, Main
<1>5. TunTypeOK'
  BY <1>2, <1>3, <1>4 DEF TunTypeOK
<1>6. FlowOK(f)'
  BY <1>2, <1>3 DEF FlowOK, Active
<1>7. MainOK(f)'
  BY <1>2, <1>3, <1>4 DEF SlotOK, MainOK, Main, Dials
<1>8. ASSUME NEW k \in Racer PROVE RacerOK(f, k)'
  <2>1. <<f, k>> \notin wires
    BY <1>2 DEF SlotOK, RacerOK, Early
  <2> QED BY <2>1, <1>2, <1>3, <1>4 DEF RacerOK, Early
<1>9. ChanOK(f)'
  BY <1>2 DEF ChanOK
<1> QED BY <1>5, <1>6, <1>7, <1>8, <1>9 DEF SlotOK

\* A racer's own steps up to the send.
LEMMA RacerKeeps ==
  ASSUME NEW f \in Flow, NEW k \in Racer, TunTypeOK, SlotOK(f),
         DelayEnds(f, k) \/ RacerDone(f, k) \/ RacerQuits(f, k)
  PROVE TunTypeOK' /\ SlotOK(f)'
<1> USE WireFacts
<1> DEFINE w == <<f, k>>
<1>1. PICK st \in {"off", "try", "send"} : dial' = [dial EXCEPT ![w] = st]
  BY DEF DelayEnds, RacerDone, RacerQuits
<1>2. /\ flow' = flow /\ ch' = ch /\ ask' = ask /\ dial[w] \in {"wait", "try", "open", "send"}
      /\ dial[w] = "wait" => wires' = wires
      /\ wires' = wires \/ wires' = wires \ {w}
      /\ dial[w] # "wait" /\ w \in wires' => dial'[w] = "send"
  BY DEF DelayEnds, RacerDone, RacerQuits, CloseOnFailure, pathVars, TunTypeOK
<1>3. /\ dial'[w] = st
      /\ \A v \in Wire : v # w => dial'[v] = dial[v] /\ (v \in wires' <=> v \in wires)
  BY <1>1, <1>2 DEF TunTypeOK
<1>4. TunTypeOK'
  BY <1>1, <1>2 DEF TunTypeOK
<1>5. FlowOK(f)'
  BY <1>2 DEF SlotOK, FlowOK
<1>6. MainOK(f)'
  <2>1. dial'[Main(f)] = dial[Main(f)] /\ (Main(f) \in wires' <=> Main(f) \in wires)
    BY <1>3
  <2> QED BY <2>1, <1>2 DEF SlotOK, MainOK, Main
<1>7. ASSUME NEW j \in Racer PROVE RacerOK(f, j)'
  <2>1. RacerOK(f, j)
    BY DEF SlotOK
  <2>2. CASE j = k
    BY <2>1, <2>2, <1>2, <1>3 DEF RacerOK, InChannel
  <2>3. CASE j # k
    <3>1. dial'[<<f, j>>] = dial[<<f, j>>] /\ (<<f, j>> \in wires' <=> <<f, j>> \in wires)
      BY <2>3, <1>3
    <3> QED BY <2>1, <3>1, <1>2 DEF RacerOK, InChannel
  <2> QED BY <2>2, <2>3
<1>8. ChanOK(f)'
  <2>1. \A i \in 1 .. Len(ch[f]) : ch[f][i].who \in Racer /\ <<f, ch[f][i].who>> # w
    BY <1>2, ResultFacts DEF SlotOK, ChanOK
  <2>2. \A i \in 1 .. Len(ch[f]) : LET v == <<f, ch[f][i].who>> IN
          dial'[v] = dial[v] /\ (v \in wires' <=> v \in wires)
    BY <2>1, <1>3
  <2> QED BY <2>2, <1>2 DEF SlotOK, ChanOK
<1> QED BY <1>4, <1>5, <1>6, <1>7, <1>8 DEF SlotOK

\* A racer hands its wire to the channel.
LEMMA SendsKeeps ==
  ASSUME NEW f \in Flow, NEW k \in Racer, TunTypeOK, SlotOK(f), RacerSends(f, k)
  PROVE TunTypeOK' /\ SlotOK(f)'
<1> USE WireFacts
<1> DEFINE w == <<f, k>>
           e == [who |-> k, ok |-> w \in wires]
<1>1. /\ flow' = flow /\ wires' = wires /\ ask' = ask /\ dial[w] = "send"
      /\ dial' = [dial EXCEPT ![w] = "off"] /\ ch' = [ch EXCEPT ![f] = Append(@, e)]
  BY DEF RacerSends, pathVars
<1>2. ch[f] \in Seq(Result) /\ Len(ch[f]) \in Nat /\ e \in Result
  <2>1. (w \in wires) \in BOOLEAN
    OBVIOUS
  <2>2. e \in Result
    BY <2>1, Zenon DEF Result
  <2> QED BY <2>2, ResultFacts, LenProperties
<1>3. e.who = k /\ (e.ok <=> w \in wires) /\ (w \in wires => e = [who |-> k, ok |-> TRUE])
  OBVIOUS
<1> HIDE DEF e
<1>4. /\ ch'[f] \in Seq(Result) /\ Len(ch'[f]) = Len(ch[f]) + 1
      /\ \A i \in 1 .. Len(ch[f]) : ch'[f][i] = ch[f][i]
      /\ ch'[f][Len(ch[f]) + 1] = e
  <2>1. ch'[f] = Append(ch[f], e)
    BY <1>1 DEF TunTypeOK
  <2> QED BY <2>1, <1>2, AppendProperties
<1>5. dial'[w] = "off" /\ \A v \in Wire : v # w => dial'[v] = dial[v]
  BY <1>1 DEF TunTypeOK
<1>6. TunTypeOK'
  <2>1. ch' \in [Flow -> Seq(Result)]
    <3>1. Append(ch[f], e) \in Seq(Result)
      BY <1>2, AppendProperties
    <3> QED BY <3>1, <1>1 DEF TunTypeOK
  <2> QED BY <2>1, <1>1 DEF TunTypeOK
<1>7. FlowOK(f)'
  BY <1>1 DEF SlotOK, FlowOK
<1>8. MainOK(f)'
  <2>1. dial'[Main(f)] = dial[Main(f)]
    BY <1>5
  <2> QED BY <2>1, <1>1 DEF SlotOK, MainOK, Main
<1>9. flow[f].conn # k /\ flow[f].pc \notin Early
  BY <1>1 DEF SlotOK, RacerOK
<1>10. \A j \in Racer : InChannel(<<f, j>>) => InChannel(<<f, j>>)'
  <2> SUFFICES ASSUME NEW j \in Racer, NEW i \in 1 .. Len(ch[f]), ch[f][i] = [who |-> j, ok |-> TRUE]
               PROVE \E n \in 1 .. Len(ch'[f]) : ch'[f][n] = [who |-> j, ok |-> TRUE]
    BY DEF InChannel
  <2>1. i \in 1 .. Len(ch'[f]) /\ ch'[f][i] = ch[f][i]
    BY <1>2, <1>4
  <2> QED BY <2>1
<1>11. ASSUME NEW j \in Racer PROVE RacerOK(f, j)'
  <2>1. RacerOK(f, j)
    BY DEF SlotOK
  <2>2. CASE j = k
    <3>1. w \in wires => InChannel(w)'
      <4> SUFFICES ASSUME w \in wires
                   PROVE \E n \in 1 .. Len(ch'[f]) : ch'[f][n] = [who |-> k, ok |-> TRUE]
        BY DEF InChannel
      <4>1. Len(ch[f]) + 1 \in 1 .. Len(ch'[f])
        BY <1>2, <1>4
      <4> QED BY <4>1, <1>3, <1>4
    <3> QED BY <3>1, <2>1, <2>2, <1>1, <1>5, <1>9 DEF RacerOK
  <2>3. CASE j # k
    <3>1. dial'[<<f, j>>] = dial[<<f, j>>]
      BY <2>3, <1>5
    <3> QED BY <2>1, <3>1, <1>1, <1>10 DEF RacerOK
  <2> QED BY <2>2, <2>3
<1>12. ChanOK(f)'
  <2>1. \A i \in 1 .. Len(ch[f]) : ch[f][i].who \in Racer /\ ch[f][i].who # k
    BY <1>1, ResultFacts DEF SlotOK, ChanOK
  <2>2. ASSUME NEW i \in 1 .. Len(ch'[f])
        PROVE /\ dial'[<<f, ch'[f][i].who>>] = "off" /\ flow'[f].conn # ch'[f][i].who
              /\ ch'[f][i].ok => <<f, ch'[f][i].who>> \in wires'
    <3>1. CASE i = Len(ch[f]) + 1
      BY <3>1, <1>1, <1>3, <1>4, <1>5, <1>9
    <3>2. CASE i \in 1 .. Len(ch[f])
      <4>1. dial'[<<f, ch[f][i].who>>] = dial[<<f, ch[f][i].who>>]
        BY <3>2, <2>1, <1>5
      <4> QED BY <3>2, <4>1, <1>1, <1>4 DEF SlotOK, ChanOK
    <3> QED BY <3>1, <3>2, <1>2, <1>4
  <2>3. ASSUME NEW i \in 1 .. Len(ch'[f]), NEW j \in 1 .. Len(ch'[f]), ch'[f][j].who = ch'[f][i].who
        PROVE i = j
    <3>1. \A n \in 1 .. Len(ch'[f]) : n = Len(ch[f]) + 1 \/ n \in 1 .. Len(ch[f])
      BY <1>2, <1>4
    <3>2. CASE i \in 1 .. Len(ch[f]) /\ j \in 1 .. Len(ch[f])
      BY <3>2, <2>3, <1>4 DEF SlotOK, ChanOK
    <3>3. CASE i = Len(ch[f]) + 1 \/ j = Len(ch[f]) + 1
      BY <3>1, <3>3, <2>1, <2>3, <1>3, <1>4
    <3> QED BY <3>1, <3>2, <3>3
  <2> QED BY <2>2, <2>3, <1>1, <1>9 DEF ChanOK
<1> QED BY <1>6, <1>7, <1>8, <1>11, <1>12 DEF SlotOK

\* The flow takes the oldest result out of its channel.
LEMMA TakesResult ==
  ASSUME NEW f \in Flow, TunTypeOK, SlotOK(f), ch[f] # <<>>, ch' = [ch EXCEPT ![f] = Tail(@)]
  PROVE /\ ch' \in [Flow -> Seq(Result)] /\ Head(ch[f]) = ch[f][1] /\ 1 \in 1 .. Len(ch[f])
        /\ Len(ch'[f]) \in Nat
        /\ \A i \in 1 .. Len(ch'[f]) : i + 1 \in 1 .. Len(ch[f]) /\ ch'[f][i] = ch[f][i + 1]
        /\ \A k \in Racer : InChannel(<<f, k>>) =>
             InChannel(<<f, k>>)' \/ ch[f][1] = [who |-> k, ok |-> TRUE]
<1>1. ch[f] \in Seq(Result) /\ Len(ch[f]) \in Nat \ {0}
  BY ResultFacts, EmptySeq
<1>2. /\ Head(ch[f]) = ch[f][1] /\ Tail(ch[f]) \in Seq(Result) /\ Len(Tail(ch[f])) = Len(ch[f]) - 1
      /\ \A i \in 1 .. Len(Tail(ch[f])) : Tail(ch[f])[i] = ch[f][i + 1]
  BY <1>1, HeadTailProperties
<1>3. ch'[f] = Tail(ch[f]) /\ ch' \in [Flow -> Seq(Result)]
  BY <1>2 DEF TunTypeOK
<1>4. \A i \in 1 .. Len(ch'[f]) : i + 1 \in 1 .. Len(ch[f]) /\ ch'[f][i] = ch[f][i + 1]
  BY <1>1, <1>2, <1>3
<1>5. ASSUME NEW k \in Racer, InChannel(<<f, k>>), ch[f][1] # [who |-> k, ok |-> TRUE]
      PROVE InChannel(<<f, k>>)'
  <2>1. PICK i \in 1 .. Len(ch[f]) : ch[f][i] = [who |-> k, ok |-> TRUE]
    BY <1>5 DEF InChannel
  <2>4. i # 1 /\ Len(ch'[f]) = Len(ch[f]) - 1
    BY <2>1, <1>2, <1>3, <1>5
  <2>2. i - 1 \in 1 .. Len(ch'[f]) /\ (i - 1) + 1 = i
    BY <2>4, <1>1
  <2>3. ch'[f][i - 1] = [who |-> k, ok |-> TRUE]
    BY <2>1, <2>2, <1>4
  <2> QED BY <2>2, <2>3 DEF InChannel
<1> QED BY <1>1, <1>2, <1>3, <1>4, <1>5

\* What is left in the channel is as good as before.
LEMMA RestOfChannel ==
  ASSUME NEW f \in Flow, TunTypeOK, SlotOK(f), ch[f] # <<>>, ch' = [ch EXCEPT ![f] = Tail(@)],
         wires' = wires, \A k \in Racer : dial'[<<f, k>>] = dial[<<f, k>>],
         flow'[f].pc \notin Early, flow'[f].conn \in {"none", ch[f][1].who}
  PROVE ChanOK(f)'
<1>1. /\ \A i \in 1 .. Len(ch'[f]) : i + 1 \in 1 .. Len(ch[f]) /\ ch'[f][i] = ch[f][i + 1]
      /\ 1 \in 1 .. Len(ch[f]) /\ Len(ch'[f]) \in Nat
  BY TakesResult
<1>2. \A i \in 1 .. Len(ch[f]) : ch[f][i].who \in Racer /\ ch[f][i].who # "none"
  BY ResultFacts DEF Racer
<1>3. ASSUME NEW i \in 1 .. Len(ch'[f])
      PROVE /\ dial'[<<f, ch'[f][i].who>>] = "off" /\ flow'[f].conn # ch'[f][i].who
            /\ ch'[f][i].ok => <<f, ch'[f][i].who>> \in wires'
  <2>1. i + 1 \in 1 .. Len(ch[f]) /\ ch'[f][i] = ch[f][i + 1] /\ i + 1 # 1
    BY <1>1
  <2>2. ch[f][i + 1].who # ch[f][1].who
    BY <2>1, <1>1 DEF SlotOK, ChanOK
  <2> QED BY <2>1, <2>2, <1>2 DEF SlotOK, ChanOK
<1>4. ASSUME NEW i \in 1 .. Len(ch'[f]), NEW j \in 1 .. Len(ch'[f]), ch'[f][j].who = ch'[f][i].who
      PROVE i = j
  <2>1. /\ i + 1 \in 1 .. Len(ch[f]) /\ j + 1 \in 1 .. Len(ch[f])
        /\ ch[f][j + 1].who = ch[f][i + 1].who
    BY <1>1, <1>4
  <2>2. i + 1 = j + 1
    BY <2>1 DEF SlotOK, ChanOK
  <2> QED BY <2>2, <1>1
<1> QED BY <1>3, <1>4 DEF ChanOK

\* The race ends, or one of its racers has failed: the wires of the results
\* that are left stay in the channel.
LEMMA RaceKeeps ==
  ASSUME NEW f \in Flow, TunInv, RaceWon(f) \/ RaceError(f) \/ RaceLost(f)
  PROVE TunInv'
<1> USE WireFacts DEF TunInv
<1>0. SlotOK(f)
  OBVIOUS
<1>1. /\ flow[f].pc = "racing" /\ wires' = wires /\ flow[f].dst \in Dest /\ flow[f].conn = "none"
      /\ DOMAIN flow[f] = Fields /\ ask[f] = NoAsk
  BY <1>0 DEF RaceWon, RaceError, RaceLost, Racing, SlotOK, FlowOK, Active, Early
<1>2. dial[Main(f)] = "off" /\ Main(f) \notin wires
  BY <1>0, <1>1 DEF SlotOK, MainOK, Dials
<1>3. ManagerInv' /\ \A g \in Flow : ask'[g] # NoAsk => ask[g] # NoAsk
  <2>1. Tell(f, TRUE) \/ Tell(f, FALSE) \/ UNCHANGED pathVars
    BY DEF RaceWon, RaceLost, RaceError
  <2> QED BY <2>1, <1>1, TellFacts, QuietFacts
<1> DEFINE r == flow'[f]
<1>4. /\ DOMAIN flow' = Flow /\ \A g \in Flow \ {f} : flow'[g] = flow[g]
      /\ dial' \in [Wire -> {"off", "wait", "try", "open", "ack", "send"}]
      /\ dial'[Main(f)] = (IF Dials(r.pc) THEN "try" ELSE "off")
      /\ \A w \in Wire : w # Main(f) => dial'[w] = dial[w]
      /\ DOMAIN r = Fields
      /\ \/ ch' = ch /\ r.conn = "none" /\ r.pc \in {"tcp", "quic"} /\ r.dst \in Dest
         \/ /\ ch[f] # <<>> /\ ch' = [ch EXCEPT ![f] = Tail(@)]
            /\ \/ ~Head(ch[f]).ok /\ r.conn = "none" /\ r.pc \in {"tcp", "quic", "racing"} /\ r.dst \in Dest
               \/ Head(ch[f]).ok /\ r.conn = Head(ch[f]).who /\ r.pc = "up"
  <2>1. CASE RaceWon(f)
    <3> DEFINE e == [Idle EXCEPT !.pc = "up", !.conn = Head(ch[f]).who]
    <3>1. DOMAIN e = Fields /\ e.pc = "up" /\ e.conn = Head(ch[f]).who
      BY DEF Idle, Fields
    <3>2. /\ Become(f, e)
          /\ ch[f] # <<>> /\ ch' = [ch EXCEPT ![f] = Tail(@)] /\ Head(ch[f]).ok
      BY <2>1 DEF RaceWon
    <3> HIDE DEF e
    <3> QED BY <3>1, <3>2, BecomeFacts
  <2>2. CASE RaceLost(f)
    <3> DEFINE e == Enter(flow[f], 6)
    <3>1. DOMAIN e = Fields /\ e.conn = "none" /\ e.dst \in Dest /\ e.pc \in {"tcp", "quic"}
      BY <1>1, EnterStage
    <3>2. Become(f, e) /\ (ch' = ch \/ (ch[f] # <<>> /\ ch' = [ch EXCEPT ![f] = Tail(@)] /\ ~Head(ch[f]).ok))
      BY <2>2 DEF RaceLost
    <3> HIDE DEF e
    <3> QED BY <3>1, <3>2, BecomeFacts
  <2>3. CASE RaceError(f)
    <3>1. /\ flow' = [flow EXCEPT ![f].i = 1] /\ dial' = dial
          /\ ch[f] # <<>> /\ ch' = [ch EXCEPT ![f] = Tail(@)] /\ ~Head(ch[f]).ok
      BY <2>3 DEF RaceError
    <3>2. /\ DOMAIN flow' = Flow /\ \A g \in Flow \ {f} : flow'[g] = flow[g]
          /\ DOMAIN r = Fields /\ r.pc = "racing" /\ r.conn = "none" /\ r.dst \in Dest
      BY <3>1, <1>1 DEF TunTypeOK, Fields
    <3>3. dial'[Main(f)] = (IF Dials(r.pc) THEN "try" ELSE "off")
      BY <3>1, <3>2, <1>2 DEF Dials
    <3> QED BY <3>1, <3>2, <3>3 DEF TunTypeOK
  <2> QED BY <2>1, <2>2, <2>3
<1> HIDE DEF r
<1>5. TunTypeOK'
  <2>1. ch' \in [Flow -> Seq(Result)]
    BY <1>0, <1>4, TakesResult DEF TunTypeOK
  <2> QED BY <2>1, <1>1, <1>4 DEF TunTypeOK
<1>6. r.conn \in {"none"} \cup Racer /\ (r.conn # "none" <=> r.pc = "up")
  <2>1. ch[f] # <<>> /\ ch' = [ch EXCEPT ![f] = Tail(@)] => Head(ch[f]).who \in Racer
    BY <1>0, TakesResult, ResultFacts
  <2> QED BY <2>1, <1>4 DEF Racer
<1>7. FlowOK(f)'
  <2>1. r.pc \in Active => r.dst \in Dest
    BY <1>4 DEF Active, Early
  <2>2. r.pc \in Active \cup {"up"} /\ ask'[f] = NoAsk
    BY <1>1, <1>3, <1>4 DEF Active, Early
  <2> QED BY <2>1, <2>2, <1>4, <1>6 DEF FlowOK, r
<1>8. MainOK(f)'
  BY <1>1, <1>2, <1>4, <1>6 DEF MainOK, Main, r
<1>9. \A k \in Racer : dial'[<<f, k>>] = dial[<<f, k>>]
  BY <1>4
<1>10. r.pc \notin Early
  BY <1>4 DEF Early
<1>11. ChanOK(f)'
  <2>1. CASE ch' = ch /\ r.conn = "none"
    <3>1. \A i \in 1 .. Len(ch[f]) : ch[f][i].who \in Racer /\ ch[f][i].who # "none"
      BY ResultFacts
    <3> QED BY <2>1, <3>1, <1>0, <1>1, <1>9, <1>10 DEF SlotOK, ChanOK, r
  <2>2. CASE ch[f] # <<>> /\ ch' = [ch EXCEPT ![f] = Tail(@)]
    <3>1. r.conn \in {"none", ch[f][1].who}
      BY <2>2, <1>0, <1>4, TakesResult
    <3> QED BY <2>2, <3>1, <1>0, <1>1, <1>9, <1>10, RestOfChannel DEF r
  <2> QED BY <2>1, <2>2, <1>4
<1>12. ASSUME NEW k \in Racer PROVE RacerOK(f, k)'
  <2>1. RacerOK(f, k)
    BY <1>0 DEF SlotOK
  <2>2. CASE ch' = ch /\ r.conn = "none"
    BY <2>1, <2>2, <1>1, <1>9, <1>10 DEF RacerOK, InChannel, r
  <2>3. CASE /\ ch[f] # <<>> /\ ch' = [ch EXCEPT ![f] = Tail(@)]
             /\ \/ ~Head(ch[f]).ok /\ r.conn = "none"
                \/ Head(ch[f]).ok /\ r.conn = Head(ch[f]).who
    <3>1. /\ Head(ch[f]) = ch[f][1] /\ 1 \in 1 .. Len(ch[f]) /\ ch[f][1] \in Result
          /\ InChannel(<<f, k>>) => InChannel(<<f, k>>)' \/ ch[f][1] = [who |-> k, ok |-> TRUE]
      BY <2>3, <1>0, TakesResult, ResultFacts
    <3>2. InChannel(<<f, k>>) => InChannel(<<f, k>>)' \/ r.conn = k
      <4>1. CASE ch[f][1] = [who |-> k, ok |-> TRUE]
        BY <4>1, <3>1, <2>3
      <4> QED BY <4>1, <3>1
    <3>3. r.conn = k => <<f, k>> \in wires /\ dial[<<f, k>>] = "off"
      <4>1. r.conn = k => ch[f][1].ok /\ ch[f][1].who = k
        BY <3>1, <2>3
      <4> QED BY <4>1, <3>1, <1>0 DEF SlotOK, ChanOK
    <3> QED BY <2>1, <3>2, <3>3, <1>1, <1>9, <1>10 DEF RacerOK, r
  <2> QED BY <2>2, <2>3, <1>4
<1>13. SlotOK(f)'
  BY <1>7, <1>8, <1>11, <1>12 DEF SlotOK
<1>14. \A g \in Flow \ {f} : SlotOK(g)'
  <2>1. \A g \in Flow \ {f} : ch'[g] = ch[g]
    BY <1>4 DEF TunTypeOK
  <2> QED BY <2>1, <1>1, <1>3, <1>4, <1>5, OtherSlots
<1> QED BY <1>3, <1>5, <1>13, <1>14

\* handleTCP is over: the wire it was given is closed, results nobody took stay.
LEMMA CloseKeeps ==
  ASSUME NEW f \in Flow, TunTypeOK, SlotOK(f), HandleTCPEnds(f)
  PROVE TunTypeOK' /\ SlotOK(f)'
<1> USE WireFacts
<1>1. /\ flow[f].pc \in {"up", "err"} /\ flow' = [flow EXCEPT ![f] = Idle] /\ dial' = dial /\ ch' = ch
      /\ wires' = wires \ {<<f, flow[f].conn>>} /\ ask' = ask
  BY DEF HandleTCPEnds, pathVars
<1>2. /\ DOMAIN flow' = Flow /\ flow'[f] = Idle /\ DOMAIN Idle = Fields /\ Idle.pc = "idle"
      /\ Idle.conn = "none"
  BY <1>1 DEF TunTypeOK, Idle, Fields
<1>3. TunTypeOK'
  BY <1>1, <1>2 DEF TunTypeOK
<1>4. FlowOK(f)'
  BY <1>1, <1>2 DEF SlotOK, FlowOK, Active, Early
<1>5. MainOK(f)'
  <2>1. dial[Main(f)] = "off"
    BY <1>1 DEF SlotOK, MainOK, Dials
  <2>2. Main(f) \notin wires'
    BY <2>1, <1>1 DEF SlotOK, MainOK, Main
  <2> QED BY <2>1, <2>2, <1>1, <1>2 DEF MainOK, Main
<1>6. ASSUME NEW k \in Racer PROVE RacerOK(f, k)'
  <2>1. <<f, k>> \in wires' => <<f, k>> \in wires /\ flow[f].conn # k
    BY <1>1
  <2> QED BY <2>1, <1>1, <1>2 DEF SlotOK, RacerOK, InChannel, Early
<1>7. ChanOK(f)'
  <2>1. \A i \in 1 .. Len(ch[f]) : ch[f][i].who \in Racer /\ ch[f][i].who # "none"
    BY ResultFacts
  <2>2. \A i \in 1 .. Len(ch[f]) : <<f, ch[f][i].who>> \in wires => <<f, ch[f][i].who>> \in wires'
    BY <1>1 DEF SlotOK, ChanOK
  <2> QED BY <2>1, <2>2, <1>1, <1>2 DEF SlotOK, ChanOK, Early
<1> QED BY <1>3, <1>4, <1>5, <1>6, <1>7 DEF SlotOK

\* A step inside one slot that leaves the manager alone.
LEMMA LocalStep ==
  ASSUME NEW f \in Flow, TunInv, UNCHANGED pathVars, TunTypeOK', SlotOK(f)',
         \A g \in Flow \ {f} : flow'[g] = flow[g] /\ ch'[g] = ch[g],
         \A w \in Wire : w[1] # f => dial'[w] = dial[w] /\ (w \in wires' <=> w \in wires)
  PROVE TunInv'
<1>1. ManagerInv' /\ ask' = ask
  BY QuietFacts DEF TunInv
<1>2. \A g \in Flow \ {f} : SlotOK(g)'
  BY <1>1, OtherSlots DEF TunInv
<1> QED BY <1>1, <1>2 DEF TunInv

\* No flow has begun.
LEMMA TunInit == Init => TunInv
<1> SUFFICES ASSUME Init PROVE TunInv
  OBVIOUS
<1> USE WireFacts
<1>1. ManagerInv
  BY ManagerInit DEF Init
<1>2. TunTypeOK
  BY EmptySeq DEF Init, TunTypeOK
<1>3. ASSUME NEW f \in Flow PROVE SlotOK(f)
  <2>1. flow[f] = Idle /\ DOMAIN Idle = Fields /\ Idle.pc = "idle" /\ Idle.conn = "none"
    BY DEF Init, Idle, Fields
  <2>2. ask[f] = NoAsk /\ ch[f] = <<>> /\ wires = {} /\ \A w \in Wire : dial[w] = "off"
    BY DEF Init, PathInit, Flow
  <2>3. FlowOK(f)
    BY <2>1, <2>2 DEF FlowOK, Active, Early
  <2>4. MainOK(f) /\ ChanOK(f)
    BY <2>1, <2>2 DEF MainOK, ChanOK
  <2>5. ASSUME NEW k \in Racer PROVE RacerOK(f, k)
    BY <2>1, <2>2 DEF RacerOK
  <2> QED BY <2>3, <2>4, <2>5 DEF SlotOK
<1> QED BY <1>1, <1>2, <1>3 DEF TunInv

\* No step of a flow, a racer or the prober breaks the invariant.
LEMMA TunStep == TunInv /\ [Next]_vars => TunInv'
<1> SUFFICES ASSUME TunInv, [Next]_vars PROVE TunInv'
  OBVIOUS
<1> USE WireFacts
<1>t. TunTypeOK /\ \A f \in Flow : SlotOK(f)
  BY DEF TunInv
<1>1. CASE UNCHANGED vars \/ ProbeICE
  <2>1. UNCHANGED <<flow, dial, wires, ch, ask>>
    BY <1>1 DEF vars, pathVars, tunVars, ProbeICE, Probe
  <2>2. ManagerInv'
    BY <1>1, ManagerStep DEF vars, ProbeICE, PathNext, TunInv
  <2>3. TunTypeOK'
    BY <2>1, <1>t DEF TunTypeOK
  <2>4. ASSUME NEW f \in Flow PROVE SlotOK(f)'
    BY <2>1, <1>t DEF SlotOK, FlowOK, MainOK, ChanOK, RacerOK, InChannel
  <2> QED BY <2>2, <2>3, <2>4 DEF TunInv
<1>2. ASSUME NEW f \in Flow, NEW d \in Dest, NEW m, NEW x, NEW a, Start(f, d, m, x, a) PROVE TunInv'
  <2>1. TunTypeOK' /\ SlotOK(f)'
    BY <1>2, <1>t, StartKeeps
  <2>2. /\ UNCHANGED pathVars /\ wires' = wires /\ ch' = [ch EXCEPT ![f] = <<>>]
        /\ \E r : Become(f, r)
    BY <1>2 DEF Start, Decided
  <2>3. /\ \A g \in Flow \ {f} : flow'[g] = flow[g] /\ ch'[g] = ch[g]
        /\ \A w \in Wire : w[1] # f => dial'[w] = dial[w]
    BY <2>2, <1>t, BecomeFacts DEF TunTypeOK
  <2> QED BY <2>1, <2>2, <2>3, LocalStep
<1>3. ASSUME NEW f \in Flow, StartRace(f) PROVE TunInv'
  <2>1. TunTypeOK' /\ SlotOK(f)'
    BY <1>3, <1>t, StartRaceKeeps
  <2>2. UNCHANGED <<pathVars, wires, ch>>
    BY <1>3 DEF StartRace
  <2>3. /\ \A g \in Flow \ {f} : flow'[g] = flow[g]
        /\ \A w \in Wire : w[1] # f => dial'[w] = dial[w]
    BY <1>3, <1>t DEF StartRace, TunTypeOK
  <2> QED BY <2>1, <2>2, <2>3, LocalStep
<1>4. ASSUME NEW f \in Flow, NEW w \in Wire, w[1] = f, Connect(w) \/ TryFails(w) \/ (w = Main(f) /\ AwaitAck(f))
      PROVE TunInv'
  <2>1. UNCHANGED <<pathVars, flow, ch>> /\ ask' = ask
    BY <1>4 DEF Connect, TryFails, AwaitAck, pathVars
  <2>2. TunTypeOK' /\ SlotOK(f)'
    BY <2>1, <1>4, <1>t, TryKeeps
  <2>3. \A v \in Wire : v[1] # f => dial'[v] = dial[v] /\ (v \in wires' <=> v \in wires)
    BY <1>4, <1>t DEF Connect, TryFails, AwaitAck, CloseOnFailure, TunTypeOK
  <2> QED BY <2>1, <2>2, <2>3, LocalStep
<1>5. ASSUME NEW f \in Flow, NEW k \in Racer, DelayEnds(f, k) \/ RacerDone(f, k) \/ RacerQuits(f, k) \/ RacerSends(f, k)
      PROVE TunInv'
  <2>1. TunTypeOK' /\ SlotOK(f)'
    BY <1>5, <1>t, RacerKeeps, SendsKeeps
  <2>2. UNCHANGED <<pathVars, flow>> /\ \A g \in Flow \ {f} : ch'[g] = ch[g]
    BY <1>5, <1>t DEF DelayEnds, RacerDone, RacerQuits, RacerSends, TunTypeOK
  <2>3. \A v \in Wire : v[1] # f => dial'[v] = dial[v] /\ (v \in wires' <=> v \in wires)
    BY <1>5, <1>t DEF DelayEnds, RacerDone, RacerQuits, RacerSends, CloseOnFailure, TunTypeOK
  <2> QED BY <2>1, <2>2, <2>3, LocalStep
<1>6. ASSUME NEW f \in Flow, HandleTCPEnds(f) PROVE TunInv'
  <2>1. TunTypeOK' /\ SlotOK(f)'
    BY <1>6, <1>t, CloseKeeps
  <2>2. /\ UNCHANGED <<pathVars, dial, ch>> /\ \A g \in Flow \ {f} : flow'[g] = flow[g]
        /\ \A v \in Wire : v[1] # f => (v \in wires' <=> v \in wires)
    BY <1>6, <1>t DEF HandleTCPEnds, TunTypeOK
  <2> QED BY <2>1, <2>2, LocalStep
<1>7. ASSUME NEW f \in Flow, FlowSteps(f) PROVE TunInv'
  <2>1. Main(f) \in Wire /\ Main(f)[1] = f
    OBVIOUS
  <2> QED BY <2>1, <1>3, <1>4, <1>7, AskKeeps, DialKeeps, RaceKeeps DEF FlowSteps
<1>8. ASSUME NEW f \in Flow, NEW k \in Racer, RacerSteps(f, k) PROVE TunInv'
  <2>1. <<f, k>> \in Wire /\ <<f, k>>[1] = f
    OBVIOUS
  <2> QED BY <2>1, <1>4, <1>5, <1>8 DEF RacerSteps
<1> QED BY <1>1, <1>2, <1>6, <1>7, <1>8 DEF Next

\* The invariant of the tunnel.
THEOREM TunInvariant == Spec => []TunInv
BY TunInit, TunStep, PTL DEF Spec

\* However dials, races, timeouts and the ends of flows interleave, every open
\* wire has an owner and a flow that is up has its wire (tunnel.go:49-78,
\* preamble.go:623-629).
THEOREM WiresOwned == Spec => []WiresAccounted
<1>1. TunInv => WiresAccounted
  <2> SUFFICES ASSUME TunInv PROVE WiresAccounted
    OBVIOUS
  <2> USE WireFacts DEF TunInv
  <2>1. ASSUME NEW w \in wires
        PROVE dial[w] \in {"open", "ack", "send"} \/ flow[w[1]].conn = w[2] \/ InChannel(w)
    <3>1. w \in Wire /\ SlotOK(w[1])
      BY DEF TunTypeOK
    <3>2. CASE w[2] = "main"
      <4>1. w = Main(w[1])
        BY <3>1, <3>2
      <4> QED BY <3>1, <3>2, <4>1 DEF SlotOK, MainOK
    <3>3. CASE w[2] \in Racer
      <4>1. w = <<w[1], w[2]>> /\ RacerOK(w[1], w[2])
        BY <3>1, <3>3 DEF SlotOK
      <4> QED BY <4>1 DEF RacerOK
    <3> QED BY <3>1, <3>2, <3>3
  <2>2. ASSUME NEW f \in Flow, flow[f].pc = "up" PROVE <<f, flow[f].conn>> \in wires
    <3>1. SlotOK(f) /\ (flow[f].conn = "main" \/ flow[f].conn \in Racer)
      BY <2>2 DEF SlotOK, FlowOK
    <3>2. CASE flow[f].conn = "main"
      BY <3>1, <3>2 DEF SlotOK, MainOK, Main
    <3>3. CASE flow[f].conn \in Racer
      BY <3>1, <3>3 DEF SlotOK, RacerOK
    <3> QED BY <3>1, <3>2, <3>3
  <2> QED BY <2>1, <2>2 DEF WiresAccounted
<1> QED BY <1>1, TunInvariant, PTL

\* The flows of the tunnel are callers under which the path manager keeps its
\* promises.
THEOREM FlowsUseManagerWell == Spec => [](PathsBounded /\ StickHasReason)
<1>1. TunInv => PathsBounded /\ StickHasReason
  BY ManagerImplies DEF TunInv
<1> QED BY <1>1, TunInvariant, PTL

----------------------------------------------------------------------------
Phase == [f \in Flow |-> PhaseOf(f)]

\* What handleTCP sees of a flow.
LEMMA PhaseFacts ==
  ASSUME NEW f \in Flow, SlotOK(f)
  PROVE /\ flow[f].pc = "idle" => PhaseOf(f) = "idle"
        /\ flow[f].pc = "up" => PhaseOf(f) = "up"
        /\ flow[f].pc = "err" => PhaseOf(f) = "failed"
        /\ flow[f].pc \in Active => PhaseOf(f) = IF dial[Main(f)] = "ack" THEN "waiting" ELSE "dialing"
<1>0. flow[f].pc \in {"idle", "up", "err"} => dial[Main(f)] = "off"
  BY DEF SlotOK, MainOK, Dials
<1>1. flow[f].pc = "idle" => PhaseOf(f) = "idle"
  BY <1>0 DEF PhaseOf
<1>2. flow[f].pc = "up" => PhaseOf(f) = "up"
  BY <1>0 DEF PhaseOf
<1>3. flow[f].pc = "err" => PhaseOf(f) = "failed"
  BY <1>0 DEF PhaseOf
<1>4. ASSUME flow[f].pc \in Active
      PROVE PhaseOf(f) = IF dial[Main(f)] = "ack" THEN "waiting" ELSE "dialing"
  <2>1. flow[f].pc # "idle" /\ flow[f].pc # "up" /\ flow[f].pc # "err"
    BY <1>4 DEF Active, Early
  <2> QED BY <2>1 DEF PhaseOf
<1> QED BY <1>1, <1>2, <1>3, <1>4

\* A step of one slot moves no other flow.
LEMMA PhaseOfOthers ==
  ASSUME NEW f \in Flow, \A g \in Flow \ {f} : flow'[g] = flow[g] /\ dial'[Main(g)] = dial[Main(g)]
  PROVE Phase' = [Phase EXCEPT ![f] = PhaseOf(f)']
<1>1. \A g \in Flow \ {f} : PhaseOf(g)' = PhaseOf(g)
  BY DEF PhaseOf, Main
<1> QED BY <1>1 DEF Phase

\* The flow's own dial and record determine its phase after the step.
LEMMA BecomePhase ==
  ASSUME NEW f \in Flow, NEW r, TunTypeOK, Become(f, r), SlotOK(f)'
  PROVE /\ Phase' = [Phase EXCEPT ![f] = PhaseOf(f)']
        /\ r.pc = "up" => PhaseOf(f)' = "up"
        /\ r.pc = "err" => PhaseOf(f)' = "failed"
        /\ r.pc \in Active => PhaseOf(f)' = "dialing"
<1>1. /\ flow'[f] = r /\ \A g \in Flow \ {f} : flow'[g] = flow[g]
      /\ dial'[Main(f)] = (IF Dials(r.pc) THEN "try" ELSE "off")
      /\ \A w \in Wire : w # Main(f) => dial'[w] = dial[w]
  BY BecomeFacts
<1>2. \A g \in Flow \ {f} : dial'[Main(g)] = dial[Main(g)]
  BY <1>1, WireFacts
<1>3. Phase' = [Phase EXCEPT ![f] = PhaseOf(f)']
  BY <1>1, <1>2, PhaseOfOthers
<1>4. dial'[Main(f)] # "ack"
  BY <1>1
<1> QED BY <1>1, <1>3, <1>4 DEF PhaseOf, Main, Active, Early

\* Every step of the tunnel is a step of the service it promises or invisible.
LEMMA ServiceStep == TunInv /\ [Next]_vars => [Service!Next]_(Service!vars)
<1> SUFFICES ASSUME TunInv, [Next]_vars PROVE [Service!Next]_(Service!vars)
  OBVIOUS
<1> USE WireFacts
<1>t. TunTypeOK /\ \A f \in Flow : SlotOK(f) /\ SlotOK(f)'
  BY TunStep DEF TunInv
<1>0. ASSUME Phase' = Phase, verdict' = verdict PROVE [Service!Next]_(Service!vars)
  BY <1>0 DEF Service!vars, Phase
<1>a. ASSUME NEW f \in Flow, NEW p, Phase' = [Phase EXCEPT ![f] = p], p = PhaseOf(f) PROVE Phase' = Phase
  BY <1>a DEF Phase
<1>1. CASE UNCHANGED vars \/ ProbeICE
  <2>1. UNCHANGED <<flow, dial, verdict>>
    BY <1>1 DEF vars, tunVars, ProbeICE
  <2>2. Phase' = Phase
    BY <2>1 DEF Phase, PhaseOf
  <2> QED BY <2>1, <2>2, <1>0
<1>2. ASSUME NEW f \in Flow, NEW d \in Dest, NEW m, NEW x, NEW a, Start(f, d, m, x, a)
      PROVE Service!Begin(f)
  <2>1. flow[f].pc = "idle" /\ verdict' = [verdict EXCEPT ![f] = "unknown"] /\ \E r : Become(f, r)
    BY <1>2 DEF Start, Decided
  <2>2. PhaseOf(f) = "idle"
    BY <2>1, <1>t, PhaseFacts
  <2>3. /\ Phase' = [Phase EXCEPT ![f] = PhaseOf(f)'] /\ PhaseOf(f)' = "dialing"
    <3>1. flow'[f].pc \in Active
      BY <1>2, <1>t, StartKeeps
    <3>2. PICK r : Become(f, r)
      BY <2>1
    <3>3. flow'[f] = r
      BY <3>2, <1>t, BecomeFacts
    <3> QED BY <3>1, <3>2, <3>3, <1>t, BecomePhase
  <2>4. Phase[f] = "idle" /\ Phase' = [Phase EXCEPT ![f] = "dialing"]
    BY <2>2, <2>3 DEF Phase
  <2> QED BY <2>1, <2>4 DEF Service!Begin, Service!Unknown, Phase
<1>3. ASSUME NEW f \in Flow, AskPath(f) \/ AskPeers(f) PROVE Phase' = Phase /\ verdict' = verdict
  <2>1. flow[f].pc = "decide" /\ verdict' = verdict
    BY <1>3, <1>t DEF AskPath, AskPeers, TryPeer, SlotOK, FlowOK
  <2>2. PhaseOf(f) = "dialing" /\ DOMAIN flow[f] = Fields
    BY <2>1, <1>t, PhaseFacts DEF SlotOK, MainOK, FlowOK, Dials, Active, Early
  <2>3. CASE UNCHANGED <<flow, dial, left>>
    BY <2>1, <2>3 DEF Phase, PhaseOf
  <2>4. CASE Decided(f, flow[f], answer')
    <3> DEFINE r0 == [flow[f] EXCEPT !.dec = Trim(answer'), !.pref = @ \/ (answer').pref]
               r == Enter(r0, 1)
    <3>1. DOMAIN r0 = Fields
      BY <2>2 DEF Fields
    <3>2. Become(f, r)
      BY <2>4 DEF Decided
    <3> HIDE DEF r0
    <3>3. r.pc \in Active
      BY <3>1, EnterStage DEF Active, Early
    <3> HIDE DEF r
    <3> QED BY <3>2, <3>3, <2>1, <2>2, <1>t, <1>a, BecomePhase
  <2> QED BY <1>3, <2>3, <2>4 DEF AskPath, AskPeers
<1>4. ASSUME NEW f \in Flow, StartRace(f) PROVE Phase' = Phase /\ verdict' = verdict
  <2>1. flow[f].pc = "race" /\ flow'[f].pc = "racing" /\ verdict' = verdict
    BY <1>4, <1>t DEF StartRace, TunTypeOK, SlotOK, FlowOK, Fields
  <2>2. \A g \in Flow : dial'[Main(g)] = dial[Main(g)] /\ (g # f => flow'[g] = flow[g])
    BY <1>4, <1>t DEF StartRace, TunTypeOK, Main
  <2>3. Phase' = [Phase EXCEPT ![f] = PhaseOf(f)']
    BY <2>2, PhaseOfOthers
  <2>4. PhaseOf(f)' = PhaseOf(f)
    BY <2>1, <2>2 DEF PhaseOf, Main
  <2> QED BY <2>1, <2>3, <2>4, <1>a
<1>5. ASSUME NEW w \in Wire, Connect(w) \/ TryFails(w) PROVE Phase' = Phase /\ verdict' = verdict
  <2>1. /\ flow' = flow /\ verdict' = verdict /\ dial[w] # "ack" /\ dial'[w] # "ack"
        /\ \A v \in Wire : v # w => dial'[v] = dial[v]
    BY <1>5, <1>t DEF Connect, TryFails, TunTypeOK
  <2>2. \A g \in Flow : dial'[Main(g)] = "ack" <=> dial[Main(g)] = "ack"
    BY <2>1
  <2> QED BY <2>1, <2>2 DEF Phase, PhaseOf, Main
<1>6. ASSUME NEW f \in Flow, NEW k \in Racer, DelayEnds(f, k) \/ RacerDone(f, k) \/ RacerQuits(f, k) \/ RacerSends(f, k)
      PROVE Phase' = Phase /\ verdict' = verdict
  <2>1. flow' = flow /\ verdict' = verdict /\ \A g \in Flow : dial'[Main(g)] = dial[Main(g)]
    BY <1>6, <1>t DEF DelayEnds, RacerDone, RacerQuits, RacerSends, TunTypeOK, Main
  <2> QED BY <2>1 DEF Phase, PhaseOf, Main
<1>7. ASSUME NEW f \in Flow, AwaitAck(f) PROVE Service!Wait(f)
  <2>1. /\ flow' = flow /\ verdict' = verdict /\ dial[Main(f)] = "open" /\ dial'[Main(f)] = "ack"
        /\ \A v \in Wire : v # Main(f) => dial'[v] = dial[v]
    BY <1>7, <1>t DEF AwaitAck, TunTypeOK
  <2>2. flow[f].pc \in Active
    BY <2>1, <1>t DEF SlotOK, MainOK, Dials, Active, Early
  <2>3. PhaseOf(f) = "dialing"
    BY <2>1, <2>2, <1>t, PhaseFacts
  <2>4. PhaseOf(f)' = "waiting"
    BY <2>1, <2>2 DEF PhaseOf, Main, Active, Early
  <2>5. Phase' = [Phase EXCEPT ![f] = PhaseOf(f)']
    BY <2>1, PhaseOfOthers
  <2>6. Phase[f] = "dialing" /\ Phase' = [Phase EXCEPT ![f] = "waiting"]
    BY <2>3, <2>4, <2>5 DEF Phase
  <2> QED BY <2>1, <2>6 DEF Service!Wait, Phase
<1>8. ASSUME NEW f \in Flow, NEW r, flow[f].pc \in Active, Become(f, r), NEW ok \in BOOLEAN,
             r.pc = IF ok THEN "up" ELSE "err", Tell(f, ok)
      PROVE Service!Finish(f)
  <2>1. /\ Phase[f] \in {"dialing", "waiting"}
        /\ Phase' = [Phase EXCEPT ![f] = IF ok THEN "up" ELSE "failed"]
    <3>1. PhaseOf(f) \in {"dialing", "waiting"}
      BY <1>8, <1>t, PhaseFacts
    <3>2. Phase' = [Phase EXCEPT ![f] = PhaseOf(f)'] /\ PhaseOf(f)' = IF ok THEN "up" ELSE "failed"
      BY <1>8, <1>t, BecomePhase
    <3>3. Phase[f] \in {"dialing", "waiting"}
      BY <3>1 DEF Phase
    <3> QED BY <3>2, <3>3
  <2>2. verdict' = [verdict EXCEPT ![f] = IF ok THEN "ok" ELSE "fail"]
    BY <1>8 DEF Tell
  <2> QED BY <2>1, <2>2 DEF Service!Finish, Phase
<1>9. ASSUME NEW f \in Flow, DialSucceeds(f) PROVE Service!Finish(f)
  <2> DEFINE r == [Idle EXCEPT !.pc = "up", !.conn = "main"]
  <2>1. Become(f, r) /\ Tell(f, TRUE) /\ dial[Main(f)] \in {"open", "ack"} /\ r.pc = "up"
    BY <1>9 DEF DialSucceeds, Won, Idle
  <2>2. flow[f].pc \in Active
    BY <2>1, <1>t DEF SlotOK, MainOK, Dials, Active, Early
  <2> HIDE DEF r
  <2> QED BY <2>1, <2>2, <1>8
<1>10. ASSUME NEW f \in Flow, DialFails(f) PROVE [Service!Next]_(Service!vars)
  <2>1. Lost(f) /\ dial[Main(f)] # "off"
    BY <1>10 DEF DialFails
  <2>2. flow[f].pc \in Active /\ flow[f].dst \in Dest /\ DOMAIN flow[f] = Fields /\ flow[f].conn = "none"
    BY <2>1, <1>t DEF SlotOK, MainOK, FlowOK, Dials, Active, Early
  <2>3. CASE Quiet /\ \E r : Become(f, r) /\ GoesOn(f, r)
    <3>1. PICK r : Become(f, r) /\ r.pc \in Active
      BY <2>3 DEF GoesOn
    <3>2. Phase' = [Phase EXCEPT ![f] = "dialing"] /\ verdict' = verdict
      BY <2>3, <3>1, <1>t, BecomePhase DEF Quiet
    <3>3. CASE PhaseOf(f) = "dialing"
      <4>1. Phase' = Phase
        BY <3>2, <3>3 DEF Phase
      <4> QED BY <4>1, <3>2, <1>0
    <3>4. CASE PhaseOf(f) = "waiting"
      <4>1. Phase[f] = "waiting"
        BY <3>4 DEF Phase
      <4>2. Service!Resume(f)
        BY <4>1, <3>2 DEF Service!Resume, Phase
      <4> QED BY <4>2 DEF Service!Next
    <3> QED BY <3>3, <3>4, <2>2, <1>t, PhaseFacts
  <2>4. CASE Become(f, [Idle EXCEPT !.pc = "err"]) /\ Tell(f, FALSE)
    <3> DEFINE r == [Idle EXCEPT !.pc = "err"]
    <3>1. r.pc = "err" /\ Become(f, r)
      BY <2>4 DEF Idle
    <3> HIDE DEF r
    <3>2. Service!Finish(f)
      BY <3>1, <2>2, <2>4, <1>8
    <3> QED BY <3>2 DEF Service!Next
  <2> QED BY <2>1, <2>2, <2>3, <2>4, LostFacts
<1>11. ASSUME NEW f \in Flow, RaceWon(f) PROVE Service!Finish(f)
  <2> DEFINE r == [Idle EXCEPT !.pc = "up", !.conn = Head(ch[f]).who]
  <2>1. Become(f, r) /\ Tell(f, TRUE) /\ r.pc = "up" /\ flow[f].pc \in Active
    BY <1>11 DEF RaceWon, Idle, Racing, Active
  <2> HIDE DEF r
  <2> QED BY <2>1, <1>8
<1>12. ASSUME NEW f \in Flow, RaceError(f) PROVE Phase' = Phase /\ verdict' = verdict
  <2>1. /\ flow[f].pc = "racing" /\ flow'[f].pc = "racing" /\ verdict' = verdict /\ dial' = dial
        /\ \A g \in Flow \ {f} : flow'[g] = flow[g]
    BY <1>12, <1>t DEF RaceError, Racing, TunTypeOK, SlotOK, FlowOK, Fields
  <2>2. Phase' = [Phase EXCEPT ![f] = PhaseOf(f)']
    BY <2>1, PhaseOfOthers
  <2>3. PhaseOf(f)' = PhaseOf(f)
    BY <2>1 DEF PhaseOf, Main
  <2> QED BY <2>1, <2>2, <2>3, <1>a
<1>13. ASSUME NEW f \in Flow, RaceLost(f) PROVE Service!Note(f)
  <2> DEFINE r == Enter(flow[f], 6)
  <2>1. /\ Become(f, r) /\ flow[f].pc = "racing"
        /\ verdict' = [verdict EXCEPT ![f] = "fail"]
    BY <1>13 DEF RaceLost, Racing, Tell
  <2>2. r.pc \in Active
    BY <1>t, EnterStage DEF SlotOK, FlowOK, Active
  <2> HIDE DEF r
  <2>3. PhaseOf(f) = "dialing"
    BY <2>1, <1>t, PhaseFacts DEF SlotOK, MainOK, Dials, Active
  <2>4. Phase' = Phase /\ Phase[f] = "dialing"
    <3>1. Phase' = [Phase EXCEPT ![f] = PhaseOf(f)'] /\ PhaseOf(f)' = "dialing"
      BY <2>1, <2>2, <1>t, BecomePhase
    <3>2. Phase' = Phase
      BY <3>1, <2>3, <1>a
    <3> QED BY <3>2, <2>3 DEF Phase
  <2> QED BY <2>1, <2>4 DEF Service!Note, Phase
<1>14. ASSUME NEW f \in Flow, HandleTCPEnds(f) PROVE Service!Close(f)
  <2>1. /\ flow[f].pc \in {"up", "err"} /\ flow'[f] = Idle /\ dial' = dial
        /\ \A g \in Flow \ {f} : flow'[g] = flow[g]
        /\ verdict' = [verdict EXCEPT ![f] = "unknown"]
    BY <1>14, <1>t DEF HandleTCPEnds, TunTypeOK
  <2>2. Phase' = [Phase EXCEPT ![f] = PhaseOf(f)'] /\ PhaseOf(f)' = "idle"
    <3>1. Phase' = [Phase EXCEPT ![f] = PhaseOf(f)']
      BY <2>1, PhaseOfOthers
    <3>2. flow'[f].pc = "idle"
      BY <2>1 DEF Idle
    <3>3. dial'[Main(f)] # "ack"
      BY <2>1, <1>t DEF SlotOK, MainOK, Dials
    <3> QED BY <3>1, <3>2, <3>3 DEF PhaseOf, Main
  <2>3. Phase[f] \in {"up", "failed"}
    BY <2>1, <1>t, PhaseFacts DEF Phase
  <2>4. Phase' = [Phase EXCEPT ![f] = "idle"]
    BY <2>2
  <2> QED BY <2>1, <2>3, <2>4 DEF Service!Close, Service!Unknown, Phase
<1>15. ASSUME NEW f \in Flow, FlowSteps(f) PROVE [Service!Next]_(Service!vars)
  <2>1. Main(f) \in Wire
    OBVIOUS
  <2> QED BY <2>1, <1>0, <1>3, <1>4, <1>5, <1>7, <1>9, <1>10, <1>11, <1>12, <1>13, <1>15
      DEF FlowSteps, Service!Next
<1>16. ASSUME NEW f \in Flow, NEW k \in Racer, RacerSteps(f, k) PROVE [Service!Next]_(Service!vars)
  <2>1. <<f, k>> \in Wire
    OBVIOUS
  <2> QED BY <2>1, <1>0, <1>5, <1>6, <1>16 DEF RacerSteps
<1> QED BY <1>1, <1>2, <1>14, <1>15, <1>16 DEF Next, Service!Next

\* DialTunFlow delivers what FlowService promises, but for the fairness: a flow
\* gets one result, and what was recorded last on its behalf is that result,
\* along each of its return paths (preamble.go:307-601).
THEOREM ImplementsService == Spec => Service!Init /\ [][Service!Next]_(Service!vars)
<1>1. Init => Service!Init
  <2> SUFFICES ASSUME Init PROVE Service!Init
    OBVIOUS
  <2>1. ASSUME NEW f \in Flow PROVE PhaseOf(f) = "idle"
    <3>1. flow[f].pc = "idle"
      BY DEF Init, Idle
    <3>2. dial[Main(f)] = "off"
      BY WireFacts DEF Init
    <3> QED BY <3>1, <3>2 DEF PhaseOf
  <2> QED BY <2>1 DEF Init, Service!Init, Service!Unknown
<1> QED BY <1>1, ServiceStep, TunInvariant, PTL DEF Spec
=============================================================================
