---------------------------- MODULE QueueLemmas ----------------------------
(***************************************************************************)
(* Lemmas on the content of the sequences that stand for the broker's      *)
(* queues: what appending, popping and concatenating do to the set of      *)
(* their elements.  The proof modules of the components cite them.         *)
(***************************************************************************)
EXTENDS Naturals, Sequences, SequencesExt, TLAPS

(* The m positions behind j - a are those of a sequence of n elements.     *)
LEMMA RecordPositions ==
    ASSUME NEW j \in Nat, NEW a \in Nat, NEW m \in Nat, NEW n \in Nat,
           a <= j, j - a + m <= n
    PROVE  \A i \in 1 .. m : j - a + i \in 1 .. n
  OBVIOUS

(* k of the l elements still to be written are added to d of v.            *)
LEMMA SomeMore ==
    ASSUME NEW d \in Nat, NEW v \in Nat, NEW k \in Nat, NEW l \in Nat, NEW c \in Nat,
           d + l <= c, d <= v, k <= l
    PROVE  d + k <= v + k /\ d + k <= c /\ (d + k) + (l - k) <= c
  OBVIOUS

(* The content of a queue, by positions. *)
LEMMA ToSetMember ==
    ASSUME NEW S, NEW s \in Seq(S)
    PROVE  /\ \A e : e \in ToSet(s) <=> \E i \in 1 .. Len(s) : e = s[i]
           /\ ToSet(s) \subseteq S
  <1>1. DOMAIN s = 1 .. Len(s)
    OBVIOUS
  <1>2. \A i \in 1 .. Len(s) : s[i] \in S
    OBVIOUS
  <1> QED
    BY <1>1, <1>2 DEF ToSet

(* The content of a queue of events is a set of events. *)
LEMMA ToSetType ==
    ASSUME NEW S, NEW s \in Seq(S)
    PROVE  ToSet(s) \subseteq S
  BY ToSetMember

(* An empty queue has no content. *)
LEMMA ToSetEmpty == ToSet(<<>>) = {}
  BY DEF ToSet

(* What Append adds to the content of a queue. *)
LEMMA ToSetAppend ==
    ASSUME NEW S, NEW s \in Seq(S), NEW e \in S
    PROVE  /\ Append(s, e) \in Seq(S)
           /\ Len(Append(s, e)) = Len(s) + 1
           /\ \A i \in 1 .. Len(s) : Append(s, e)[i] = s[i]
           /\ Append(s, e)[Len(s) + 1] = e
           /\ ToSet(Append(s, e)) = ToSet(s) \union {e}
  <1> DEFINE t == Append(s, e)
  <1>1. t \in Seq(S) /\ Len(t) = Len(s) + 1 /\ Len(s) \in Nat
    OBVIOUS
  <1>2. \A i \in 1 .. Len(s) : t[i] = s[i]
    OBVIOUS
  <1>3. t[Len(s) + 1] = e
    OBVIOUS
  <1>4. \A x : x \in ToSet(t) <=> \E i \in 1 .. Len(s) + 1 : x = t[i]
    BY <1>1, ToSetMember
  <1>5. \A x : x \in ToSet(s) <=> \E i \in 1 .. Len(s) : x = s[i]
    BY ToSetMember
  <1>6. 1 .. Len(s) + 1 = (1 .. Len(s)) \union {Len(s) + 1}
    BY <1>1
  <1> HIDE DEF t
  <1>7. ToSet(t) = ToSet(s) \union {e}
    <2>1. \A x : x \in ToSet(t) <=> (x = e \/ \E i \in 1 .. Len(s) : x = s[i])
      BY <1>2, <1>3, <1>4, <1>6, Zenon
    <2> QED
      BY <2>1, <1>5, Zenon
  <1> QED
    BY <1>1, <1>2, <1>3, <1>7 DEF t

(* A queue cut in two: what is popped and what is left. *)
LEMMA ToSetCut ==
    ASSUME NEW S, NEW s \in Seq(S), NEW n \in 0 .. Len(s)
    PROVE  /\ SubSeq(s, 1, n) \in Seq(S)
           /\ SubSeq(s, n + 1, Len(s)) \in Seq(S)
           /\ Len(SubSeq(s, 1, n)) = n
           /\ Len(SubSeq(s, n + 1, Len(s))) = Len(s) - n
           /\ \A i \in 1 .. n : SubSeq(s, 1, n)[i] = s[i]
           /\ \A i \in 1 .. Len(s) - n : SubSeq(s, n + 1, Len(s))[i] = s[n + i]
           /\ \A e : e \in ToSet(SubSeq(s, 1, n)) <=> \E i \in 1 .. n : e = s[i]
           /\ ToSet(s) = ToSet(SubSeq(s, 1, n))
                           \union ToSet(SubSeq(s, n + 1, Len(s)))
  <1> DEFINE a == SubSeq(s, 1, n)
             b == SubSeq(s, n + 1, Len(s))
  <1>0. Len(s) \in Nat /\ n \in Nat /\ n <= Len(s)
    OBVIOUS
  <1>1. a \in Seq(S) /\ Len(a) = n /\ \A i \in 1 .. n : a[i] = s[i]
    BY <1>0
  <1>2. /\ b \in Seq(S) /\ Len(b) = Len(s) - n
        /\ \A i \in 1 .. Len(s) - n : b[i] = s[n + i]
    BY <1>0
  <1> HIDE DEF a, b
  <1>3. \A e : e \in ToSet(a) <=> \E i \in 1 .. n : e = a[i]
    BY <1>1, ToSetMember
  <1>4. \A e : e \in ToSet(b) <=> \E i \in 1 .. Len(s) - n : e = b[i]
    BY <1>2, ToSetMember
  <1>5. \A e : e \in ToSet(s) <=> \E i \in 1 .. Len(s) : e = s[i]
    BY ToSetMember
  <1>6. ASSUME NEW i \in 1 .. Len(s)
        PROVE  s[i] \in ToSet(a) \union ToSet(b)
    <2>1. CASE i <= n
      BY <2>1, <1>0, <1>1, <1>3
    <2>2. CASE i > n
      <3>1. i - n \in 1 .. Len(s) - n /\ n + (i - n) = i
        BY <2>2, <1>0
      <3>2. b[i - n] = s[i]
        BY <3>1, <1>2
      <3> QED
        BY <3>1, <3>2, <1>4
    <2> QED
      BY <2>1, <2>2, <1>0
  <1>7. \A e \in ToSet(a) : e \in ToSet(s)
    BY <1>0, <1>1, <1>3, <1>5
  <1>8. \A e \in ToSet(b) : e \in ToSet(s)
    <2>1. \A i \in 1 .. Len(s) - n : n + i \in 1 .. Len(s)
      BY <1>0
    <2> QED
      BY <2>1, <1>2, <1>4, <1>5
  <1>9. ToSet(s) = ToSet(a) \union ToSet(b)
    <2>1. \A e \in ToSet(s) : e \in ToSet(a) \union ToSet(b)
      BY <1>5, <1>6
    <2> QED
      BY <2>1, <1>7, <1>8, Zenon
  <1>10. \A e : e \in ToSet(a) <=> \E i \in 1 .. n : e = s[i]
    BY <1>1, <1>3
  <1> QED
    BY <1>1, <1>2, <1>9, <1>10 DEF a, b

(* The contents of the beginnings of a queue to which e is appended. *)
LEMMA ToSetPrefixes ==
    ASSUME NEW S, NEW s \in Seq(S), NEW e \in S
    PROVE  /\ \A i \in 1 .. Len(s) :
                ToSet(SubSeq(Append(s, e), 1, i)) = ToSet(SubSeq(s, 1, i))
           /\ ToSet(SubSeq(Append(s, e), 1, Len(s) + 1)) = ToSet(s) \union {e}
  <1>1. PICK t \in Seq(S) : t = Append(s, e)
    BY ToSetAppend
  <1>2. /\ Len(s) \in Nat /\ Len(t) = Len(s) + 1 /\ \A i \in 1 .. Len(s) : t[i] = s[i]
        /\ ToSet(t) = ToSet(s) \union {e}
    BY <1>1, ToSetAppend
  <1>2a. t \in Seq(S)
    BY <1>1
  <1>3. ASSUME NEW i \in 1 .. Len(s)
        PROVE  ToSet(SubSeq(t, 1, i)) = ToSet(SubSeq(s, 1, i))
    <2>1. i \in 0 .. Len(t) /\ i \in 0 .. Len(s) /\ 1 .. i \subseteq 1 .. Len(s)
      BY <1>2
    <2>2. \A x : x \in ToSet(SubSeq(t, 1, i)) <=> \E j \in 1 .. i : x = t[j]
      BY <1>2a, <2>1, ToSetCut
    <2>3. \A x : x \in ToSet(SubSeq(s, 1, i)) <=> \E j \in 1 .. i : x = s[j]
      BY <2>1, ToSetCut
    <2>4. \A j \in 1 .. i : t[j] = s[j]
      BY <1>2, <2>1
    <2> QED BY <2>2, <2>3, <2>4, Zenon
  <1>4. ToSet(SubSeq(t, 1, Len(t))) = ToSet(t)
    <2>1. Len(t) \in 0 .. Len(t)
      BY <1>2
    <2>2. \A x : x \in ToSet(SubSeq(t, 1, Len(t))) <=> \E j \in 1 .. Len(t) : x = t[j]
      BY <1>2a, <2>1, ToSetCut
    <2>3. \A x : x \in ToSet(t) <=> \E j \in 1 .. Len(t) : x = t[j]
      BY <1>2a, ToSetMember
    <2> QED BY <2>2, <2>3, Zenon
  <1> QED BY <1>1, <1>2, <1>3, <1>4

(* The content of a queue written behind another one. *)
LEMMA ToSetConcat ==
    ASSUME NEW S, NEW s \in Seq(S), NEW t \in Seq(S)
    PROVE  /\ s \o t \in Seq(S)
           /\ Len(s \o t) = Len(s) + Len(t)
           /\ ToSet(s) \subseteq ToSet(s \o t)
           /\ ToSet(t) \subseteq ToSet(s \o t)
  <1> DEFINE u == s \o t
  <1>1. /\ u \in Seq(S) /\ Len(u) = Len(s) + Len(t)
        /\ \A i \in 1 .. Len(s) : u[i] = s[i]
    OBVIOUS
  <1>2. \A i \in 1 .. Len(t) : u[Len(s) + i] = t[i]
    OBVIOUS
  <1>3. /\ \A i \in 1 .. Len(t) : Len(s) + i \in 1 .. Len(u)
        /\ \A i \in 1 .. Len(s) : i \in 1 .. Len(u)
    BY <1>1
  <1> HIDE DEF u
  <1>4. \A e : e \in ToSet(u) <=> \E i \in 1 .. Len(u) : e = u[i]
    BY <1>1, ToSetMember
  <1>5. ToSet(s) \subseteq ToSet(u)
    BY <1>1, <1>3, <1>4, ToSetMember
  <1>6. ToSet(t) \subseteq ToSet(u)
    <2>1. \A i \in 1 .. Len(t) : t[i] \in ToSet(u)
      BY <1>2, <1>3, <1>4
    <2> QED
      BY <2>1, ToSetMember
  <1> QED
    BY <1>1, <1>5, <1>6 DEF u

(* The content of two queues behind each other.                            *)
LEMMA ToSetUnion ==
    ASSUME NEW S, NEW s \in Seq(S), NEW t \in Seq(S)
    PROVE  s \o t \in Seq(S) /\ ToSet(s \o t) = ToSet(s) \union ToSet(t)
  <1>1. PICK u \in Seq(S) : u = s \o t
    BY ToSetConcat
  <1>2. /\ Len(s) \in Nat /\ Len(t) \in Nat /\ Len(u) = Len(s) + Len(t)
        /\ \A i \in 1 .. Len(u) : u[i] = IF i <= Len(s) THEN s[i] ELSE t[i - Len(s)]
    BY <1>1
  <1>3. \A i \in 1 .. Len(u) : i <= Len(s) => i \in 1 .. Len(s)
    BY <1>2
  <1>4. \A i \in 1 .. Len(u) : ~(i <= Len(s)) => i - Len(s) \in 1 .. Len(t)
    BY <1>2
  <1>5. \A e \in ToSet(u) : e \in ToSet(s) \union ToSet(t)
    BY <1>2, <1>3, <1>4, ToSetMember
  <1>6. ToSet(s) \subseteq ToSet(u) /\ ToSet(t) \subseteq ToSet(u)
    BY <1>1, ToSetConcat
  <1> QED BY <1>1, <1>5, <1>6

-----------------------------------------------------------------------------
(***************************************************************************)
(* Numbered events.  The histories of the models number what is written,   *)
(* so that "nothing lost, doubled or reordered" says of queues behind each *)
(* other that each continues the numbers of the one before.                *)
(***************************************************************************)

(* The numbers of s follow k. *)
Follows(s, k) == \A i \in 1 .. Len(s) : s[i] = k + i

(* An empty queue follows any number. *)
LEMMA FollowsEmpty ==
    ASSUME NEW k PROVE Follows(<<>>, k)
  BY DEF Follows

(* The next number is appended. *)
LEMMA FollowsAppend ==
    ASSUME NEW S, NEW s \in Seq(S), NEW k \in Nat, NEW e \in S,
           Follows(s, k), e = k + Len(s) + 1
    PROVE  /\ Follows(Append(s, e), k)
           /\ Append(s, e) \in Seq(S) /\ Len(Append(s, e)) = Len(s) + 1
  <1>1. Len(s) \in Nat /\ Len(Append(s, e)) = Len(s) + 1 /\ Append(s, e) \in Seq(S)
    OBVIOUS
  <1>2. ASSUME NEW i \in 1 .. Len(s) + 1 PROVE Append(s, e)[i] = k + i
    <2>1. CASE i = Len(s) + 1
      BY <1>1, <2>1
    <2>2. CASE i # Len(s) + 1
      <3>1. i \in 1 .. Len(s)
        BY <1>1, <2>2
      <3>2. Append(s, e)[i] = s[i]
        BY <3>1
      <3> QED BY <3>1, <3>2 DEF Follows
    <2> QED BY <2>1, <2>2
  <1> QED BY <1>1, <1>2 DEF Follows

(* The first number is taken. *)
LEMMA FollowsTail ==
    ASSUME NEW S, NEW s \in Seq(S), NEW k \in Nat, Follows(s, k), s # <<>>
    PROVE  /\ Head(s) = k + 1 /\ Head(s) \in S
           /\ Tail(s) \in Seq(S) /\ Len(Tail(s)) = Len(s) - 1
           /\ Len(s) \in Nat \ {0}
           /\ Follows(Tail(s), k + 1)
  <1>1. /\ Len(s) \in Nat \ {0} /\ Head(s) = s[1] /\ Head(s) \in S
        /\ Tail(s) \in Seq(S) /\ Len(Tail(s)) = Len(s) - 1
    OBVIOUS
  <1>2. ASSUME NEW i \in 1 .. Len(s) - 1 PROVE Tail(s)[i] = (k + 1) + i
    <2>1. i + 1 \in 1 .. Len(s)
      BY <1>1
    <2>2. Tail(s)[i] = s[i + 1]
      BY <1>1
    <2> QED BY <2>1, <2>2 DEF Follows
  <1>3. Head(s) = k + 1
    BY <1>1 DEF Follows
  <1> QED BY <1>1, <1>2, <1>3 DEF Follows

(* Queues behind each other. *)
LEMMA FollowsConcat ==
    ASSUME NEW S, NEW s \in Seq(S), NEW t \in Seq(S), NEW k \in Nat
    PROVE  /\ s \o t \in Seq(S) /\ Len(s \o t) = Len(s) + Len(t)
           /\ Follows(s, k) /\ Follows(t, k + Len(s)) => Follows(s \o t, k)
           /\ Follows(s \o t, k) => Follows(s, k) /\ Follows(t, k + Len(s))
  <1>1. /\ Len(s) \in Nat /\ Len(t) \in Nat
        /\ s \o t \in Seq(S) /\ Len(s \o t) = Len(s) + Len(t)
    OBVIOUS
  <1>2. \A i \in 1 .. Len(s) : i \in 1 .. Len(s \o t) /\ (s \o t)[i] = s[i]
    BY <1>1
  <1>3. \A i \in 1 .. Len(t) : /\ Len(s) + i \in 1 .. Len(s \o t)
                              /\ (s \o t)[Len(s) + i] = t[i]
    BY <1>1
  <1>4. ASSUME Follows(s, k), Follows(t, k + Len(s)) PROVE Follows(s \o t, k)
    <2> SUFFICES ASSUME NEW i \in 1 .. Len(s \o t) PROVE (s \o t)[i] = k + i
      BY DEF Follows
    <2>1. CASE i <= Len(s)
      BY <1>1, <1>2, <1>4, <2>1 DEF Follows
    <2>2. CASE i > Len(s)
      <3>1. i - Len(s) \in 1 .. Len(t) /\ Len(s) + (i - Len(s)) = i
        BY <1>1, <2>2
      <3>2. (s \o t)[i] = t[i - Len(s)]
        BY <1>3, <3>1
      <3>3. t[i - Len(s)] = k + Len(s) + (i - Len(s))
        BY <1>4, <3>1 DEF Follows
      <3> QED BY <1>1, <3>1, <3>2, <3>3
    <2> QED BY <1>1, <2>1, <2>2
  <1>5. ASSUME Follows(s \o t, k) PROVE Follows(s, k) /\ Follows(t, k + Len(s))
    <2>1. Follows(s, k)
      BY <1>2, <1>5 DEF Follows
    <2>2. ASSUME NEW i \in 1 .. Len(t) PROVE t[i] = k + Len(s) + i
      <3>1. (s \o t)[Len(s) + i] = k + (Len(s) + i)
        BY <1>3, <1>5 DEF Follows
      <3> QED BY <1>1, <1>3, <3>1
    <2> QED BY <2>1, <2>2 DEF Follows
  <1> QED BY <1>1, <1>4, <1>5

(* All the numbers from the first. *)
LEMMA FollowsAll ==
    ASSUME NEW S, NEW s \in Seq(S), NEW n \in Nat
    PROVE  Follows(s, 0) /\ Len(s) = n <=> s = [i \in 1 .. n |-> i]
  <1>1. Len(s) \in Nat /\ s = [i \in 1 .. Len(s) |-> s[i]]
    OBVIOUS
  <1>2. ASSUME Follows(s, 0), Len(s) = n PROVE s = [i \in 1 .. n |-> i]
    <2>1. \A i \in 1 .. n : s[i] = i
      BY <1>2 DEF Follows
    <2> QED BY <1>1, <1>2, <2>1
  <1>3. ASSUME s = [i \in 1 .. n |-> i] PROVE Follows(s, 0) /\ Len(s) = n
    <2>1. DOMAIN s = 1 .. n /\ DOMAIN s = 1 .. Len(s)
      BY <1>3
    <2>2. Len(s) = n
      BY <1>1, <2>1
    <2> QED BY <1>3, <2>2 DEF Follows
  <1> QED BY <1>2, <1>3


(* Three queues that hold all the numbers up to n between them. *)
LEMMA FollowsThree ==
    ASSUME NEW S, NEW a \in Seq(S), NEW b \in Seq(S), NEW c \in Seq(S), NEW n \in Nat,
           Follows(a, 0), Follows(b, Len(a)), Follows(c, Len(a) + Len(b)),
           Len(a) + Len(b) + Len(c) = n
    PROVE  a \o b \o c = [i \in 1 .. n |-> i]
  <1>1. Len(a) \in Nat /\ Len(b) \in Nat /\ Len(c) \in Nat
    OBVIOUS
  <1>2. 0 + Len(a) = Len(a) /\ 0 \in Nat
    BY <1>1
  <1>3. /\ a \o b \in Seq(S) /\ Len(a \o b) = Len(a) + Len(b)
        /\ Follows(a \o b, 0)
    BY <1>2, FollowsConcat
  <1>4. 0 + Len(a \o b) = Len(a) + Len(b)
    BY <1>1, <1>3
  <1> DEFINE d == a \o b
  <1>5. d \in Seq(S) /\ Follows(d, 0) /\ Follows(c, 0 + Len(d))
    BY <1>3, <1>4
  <1> HIDE DEF d
  <1>6. d \o c \in Seq(S) /\ Len(d \o c) = Len(d) + Len(c) /\ Follows(d \o c, 0)
    BY <1>2, <1>5, FollowsConcat
  <1>7. Len(d \o c) = n
    BY <1>1, <1>3, <1>6 DEF d
  <1>8. d \o c = [i \in 1 .. n |-> i]
    BY <1>6, <1>7, FollowsAll
  <1> QED BY <1>8 DEF d

(* And four. *)
LEMMA FollowsFour ==
    ASSUME NEW S, NEW a \in Seq(S), NEW b \in Seq(S), NEW c \in Seq(S),
           NEW e \in Seq(S), NEW n \in Nat,
           Follows(a, 0), Follows(b, Len(a)), Follows(c, Len(a) + Len(b)),
           Follows(e, Len(a) + Len(b) + Len(c)),
           Len(a) + Len(b) + Len(c) + Len(e) = n
    PROVE  a \o b \o c \o e = [i \in 1 .. n |-> i]
  <1>1. Len(a) \in Nat /\ Len(b) \in Nat /\ Len(c) \in Nat /\ Len(e) \in Nat
    OBVIOUS
  <1> DEFINE d == a \o b
  <1>2. 0 + Len(a) = Len(a) /\ 0 \in Nat
    BY <1>1
  <1>3. d \in Seq(S) /\ Len(d) = Len(a) + Len(b) /\ Follows(d, 0)
    BY <1>2, FollowsConcat
  <1> HIDE DEF d
  <1>4. Follows(c, Len(d)) /\ Follows(e, Len(d) + Len(c)) /\ Len(d) + Len(c) + Len(e) = n
    BY <1>1, <1>3
  <1>5. d \o c \o e = [i \in 1 .. n |-> i]
    BY <1>3, <1>4, FollowsThree
  <1> QED BY <1>5 DEF d


(* A queue of numbers cut in two: what is popped and what is left. *)
LEMMA FollowsCut ==
    ASSUME NEW S, NEW s \in Seq(S), NEW k \in Nat, Follows(s, k), NEW n \in 0 .. Len(s)
    PROVE  /\ SubSeq(s, 1, n) \in Seq(S) /\ Len(SubSeq(s, 1, n)) = n
           /\ SubSeq(s, n + 1, Len(s)) \in Seq(S)
           /\ Len(SubSeq(s, n + 1, Len(s))) = Len(s) - n
           /\ Follows(SubSeq(s, 1, n), k)
           /\ Follows(SubSeq(s, n + 1, Len(s)), k + n)
           /\ ToSet(SubSeq(s, 1, n)) = (k + 1) .. (k + n)
  <1>1. /\ SubSeq(s, 1, n) \in Seq(S) /\ Len(SubSeq(s, 1, n)) = n
        /\ SubSeq(s, n + 1, Len(s)) \in Seq(S)
        /\ Len(SubSeq(s, n + 1, Len(s))) = Len(s) - n
        /\ \A i \in 1 .. n : SubSeq(s, 1, n)[i] = s[i]
        /\ \A i \in 1 .. Len(s) - n : SubSeq(s, n + 1, Len(s))[i] = s[n + i]
        /\ \A e : e \in ToSet(SubSeq(s, 1, n)) <=> \E i \in 1 .. n : e = s[i]
    BY ToSetCut
  <1>2. Len(s) \in Nat /\ n \in Nat /\ n <= Len(s)
    OBVIOUS
  <1>3. \A i \in 1 .. n : s[i] = k + i
    BY <1>2 DEF Follows
  <1>4. \A i \in 1 .. Len(s) - n : s[n + i] = (k + n) + i
    <2> SUFFICES ASSUME NEW i \in 1 .. Len(s) - n PROVE s[n + i] = (k + n) + i
      OBVIOUS
    <2>1. n + i \in 1 .. Len(s)
      BY <1>2
    <2>2. s[n + i] = k + (n + i)
      BY <2>1 DEF Follows
    <2> QED BY <1>2, <2>2
  <1>5. Follows(SubSeq(s, 1, n), k)
    BY <1>1, <1>3 DEF Follows
  <1>6. Follows(SubSeq(s, n + 1, Len(s)), k + n)
    BY <1>1, <1>4 DEF Follows
  <1>7. \A e : (\E i \in 1 .. n : e = s[i]) <=> e \in (k + 1) .. (k + n)
    <2>1. \A i \in 1 .. n : s[i] \in (k + 1) .. (k + n)
      BY <1>2, <1>3
    <2>2. ASSUME NEW e \in (k + 1) .. (k + n) PROVE \E i \in 1 .. n : e = s[i]
      <3>1. e - k \in 1 .. n /\ k + (e - k) = e
        BY <1>2
      <3>2. s[e - k] = e
        BY <1>3, <3>1
      <3> QED BY <3>1, <3>2
    <2> QED BY <2>1, <2>2
  <1>8. ToSet(SubSeq(s, 1, n)) = (k + 1) .. (k + n)
    BY <1>1, <1>7, Zenon
  <1> QED BY <1>1, <1>5, <1>6, <1>8

=============================================================================
