---------------------------- MODULE ToolCall_proofs ----------------------------
(* Which provider a call reaches, what it is asked, and where a status      *)
(* leads back to, for every site and every script of ToolCall.             *)
EXTENDS ToolCall, TextPositions_proofs, FunctionTheorems

-----------------------------------------------------------------------------
(* Sequences of whatever they hold.                                        *)
LEMMA SeqOfItsOwn ==
  ASSUME NEW T, NEW s \in Seq(T)
  PROVE  s \in Seq(ToSet(s)) /\ DOMAIN s = 1..Len(s) /\ Len(s) \in Nat
<1>1. DOMAIN s = 1..Len(s) /\ Len(s) \in Nat
  OBVIOUS
<1>2. \A i \in 1..Len(s) : s[i] \in ToSet(s)
  BY <1>1 DEF ToSet
<1>3. s = [i \in 1..Len(s) |-> s[i]]
  OBVIOUS
<1> QED
  BY <1>1, <1>2, <1>3

LEMMA SeqPlain ==
  ASSUME NEW T, NEW s \in Seq(T)
  PROVE  /\ DOMAIN s = 1..Len(s) /\ Len(s) \in Nat /\ s = [i \in 1..Len(s) |-> s[i]]
         /\ \A i \in 1..Len(s) : s[i] \in T
         /\ s # <<>> => Len(s) \in Nat \ {0}
OBVIOUS

LEMMA SeqBuilt ==
  ASSUME NEW T, NEW n \in Nat, NEW s, s = [i \in 1..n |-> s[i]], \A i \in 1..n : s[i] \in T
  PROVE  s \in Seq(T)
OBVIOUS

-----------------------------------------------------------------------------
(* Those members of a sequence that are in a set.                          *)
MembersUpto(s, i) == {s[j] : j \in 1..i}

Kepts(s, T, S, p) ==
    /\ p \in [0..Len(s) -> Seq(T)]
    /\ p[0] = <<>>
    /\ \A i \in 1..Len(s) : p[i] = IF s[i] \in S THEN Append(p[i - 1], s[i]) ELSE p[i - 1]
    /\ p[Len(s)] = Those(s, S)

LEMMA ThoseSteps ==
  ASSUME NEW T, NEW s \in Seq(T), NEW S
  PROVE  \E p : Kepts(s, T, S, p)
<1> DEFINE m == Len(s)
           I == 1..m
           V == Seq(T)
           put(i, acc) == IF s[i] \in S THEN Append(acc, s[i]) ELSE acc
           unfold(w) == [x \in SUBSET I |-> IF x = {} THEN <<>>
                                            ELSE put(Max(x), w[x \ {Max(x)}])]
           op   == [x \in I \X V |-> put(x[1], x[2])]
<1>1. m \in Nat /\ DOMAIN s = I /\ \A i \in I : s[i] \in T
  OBVIOUS
<1>2. \A i \in I, acc \in V : put(i, acc) \in V
  <2>1. \A acc \in V, x \in T : Append(acc, x) \in V
    OBVIOUS
  <2> HIDE DEF V, I
  <2> QED
    BY <1>1, <2>1
<1>3. <<>> \in V
  OBVIOUS
<1>4. Those(s, S) = (CHOOSE w : w = unfold(w))[I]
  BY <1>1 DEF Those, FoldLeft, MapThenFoldSet
<1>5. op \in [I \X V -> V] /\ \A i \in I, acc \in V : op[<<i, acc>>] = put(i, acc)
  <2> HIDE DEF put, V, I
  <2> QED
    BY <1>2
<1> HIDE DEF put, op, V, m
<1>6. /\ Ends(m, GoesLeft(m))
      /\ \A x \in SUBSET I : x # {} => GoesLeft(m)[x] = Max(x) /\ Max(x) \in I
  BY <1>1, EndsAreElements DEF GoesLeft, Ends
<1>7. PICK it \in [SUBSET I -> V] : Folded(m, V, <<>>, op, GoesLeft(m), it)
  BY <1>1, <1>3, <1>5, <1>6, FoldedExists
<1>8. it = unfold(it)
  <2>1. it[{}] = <<>>
    BY <1>7 DEF Folded
  <2>2. \A x \in SUBSET I : x # {} => it[x] = put(Max(x), it[x \ {Max(x)}])
    BY <1>5, <1>6, <1>7 DEF Folded
  <2>3. \A x \in SUBSET I : it[x] = unfold(it)[x]
    BY <2>1, <2>2
  <2> QED
    BY <1>7, <2>3
<1> DEFINE w == CHOOSE w : w = unfold(w)
<1>9. w = unfold(w)
  <2> HIDE DEF unfold
  <2> QED
    BY <1>8
<1>10. Those(s, S) = w[I]
  BY <1>4
<1> HIDE DEF w
<1>11. w[{}] = <<>> /\ \A x \in SUBSET I : x # {} => w[x] = put(Max(x), w[x \ {Max(x)}])
  BY <1>9
<1>12. Folded(m, V, <<>>, op, GoesLeft(m), w)
  BY <1>5, <1>6, <1>11 DEF Folded
<1>13. PICK p : Leftwards(m, V, <<>>, op, w[I], p)
  BY <1>1, <1>3, <1>5, <1>12, LeftSteps
<1>14. p \in [0..m -> V] /\ p[0] = <<>> /\ p[m] = Those(s, S)
  BY <1>10, <1>13 DEF Leftwards
<1>15. \A i \in 1..m : p[i] = put(i, p[i - 1])
  <2> SUFFICES ASSUME NEW i \in 1..m PROVE p[i] = put(i, p[i - 1])
    OBVIOUS
  <2>1. i - 1 \in 0..m
    BY <1>1
  <2>2. p[i - 1] \in V
    BY <1>14, <2>1
  <2> QED
    BY <1>5, <1>13, <2>2 DEF Leftwards
<1>16. Kepts(s, T, S, p)
  BY <1>14, <1>15 DEF Kepts, m, V, put
<1> QED
  BY <1>16

LEMMA ThoseMembers ==
  ASSUME NEW T, NEW s \in Seq(T), NEW S
  PROVE  Those(s, S) \in Seq(T) /\ ToSet(Those(s, S)) = ToSet(s) \intersect S
<1> DEFINE m == Len(s)
<1>1. PICK p : Kepts(s, T, S, p)
  BY ThoseSteps
<1>2. m \in Nat /\ DOMAIN s = 1..m /\ \A i \in 1..m : s[i] \in T
  OBVIOUS
<1>3. /\ \A i \in 0..m : p[i] \in Seq(T)
      /\ p[0] = <<>>
      /\ \A i \in 1..m : p[i] = IF s[i] \in S THEN Append(p[i - 1], s[i]) ELSE p[i - 1]
      /\ p[m] = Those(s, S)
  BY <1>1 DEF Kepts
<1> HIDE DEF m
<1> DEFINE right == {i \in Nat : i =< m => ToSet(p[i]) = MembersUpto(s, i) \intersect S}
<1>4. 0 \in right
  <2>1. MembersUpto(s, 0) = {} /\ ToSet(<<>>) = {}
    BY DEF MembersUpto, ToSet
  <2> QED
    BY <1>3, <2>1
<1>5. \A x \in T, acc \in Seq(T) : ToSet(Append(acc, x)) = ToSet(acc) \union {x}
  <2> SUFFICES ASSUME NEW x \in T, NEW acc \in Seq(T)
               PROVE  ToSet(Append(acc, x)) = ToSet(acc) \union {x}
    OBVIOUS
  <2>1. /\ DOMAIN acc = 1..Len(acc) /\ Len(acc) \in Nat
        /\ DOMAIN Append(acc, x) = 1..(Len(acc) + 1)
        /\ \A i \in 1..Len(acc) : Append(acc, x)[i] = acc[i]
        /\ Append(acc, x)[Len(acc) + 1] = x
    OBVIOUS
  <2>2. 1..(Len(acc) + 1) = 1..Len(acc) \union {Len(acc) + 1}
    BY <2>1
  <2> QED
    BY <2>1, <2>2 DEF ToSet
<1>6. ASSUME NEW i \in right PROVE i + 1 \in right
  <2> SUFFICES ASSUME i + 1 =< m
               PROVE  ToSet(p[i + 1]) = MembersUpto(s, i + 1) \intersect S
    OBVIOUS
  <2>1. i \in Nat /\ i \in 0..m /\ i + 1 \in 1..m /\ ToSet(p[i]) = MembersUpto(s, i) \intersect S
    BY <1>2
  <2>2. s[i + 1] \in T /\ p[i] \in Seq(T)
        /\ p[i + 1] = IF s[i + 1] \in S THEN Append(p[i], s[i + 1]) ELSE p[i]
    <3>1. (i + 1) - 1 = i
      BY <2>1
    <3> QED
      BY <1>2, <1>3, <2>1, <3>1
  <2>3. MembersUpto(s, i + 1) = MembersUpto(s, i) \union {s[i + 1]}
    <3>1. 1..(i + 1) = (1..i) \union {i + 1}
      BY <2>1
    <3> QED
      BY <3>1 DEF MembersUpto
  <2>4. ToSet(Append(p[i], s[i + 1])) = ToSet(p[i]) \union {s[i + 1]}
    BY <1>5, <2>2
  <2> QED
    BY <2>1, <2>2, <2>3, <2>4
<1>7. right = Nat
  <2> HIDE DEF right
  <2>1. right \in SUBSET Nat
    BY DEF right
  <2> QED
    BY <1>4, <1>6, <2>1, SetInduction
<1>8. ToSet(p[m]) = MembersUpto(s, m) \intersect S
  BY <1>2, <1>7
<1>9. MembersUpto(s, m) = ToSet(s)
  BY <1>2 DEF MembersUpto, ToSet
<1>10. p[m] \in Seq(T)
  BY <1>2, <1>3
<1> QED
  BY <1>3, <1>8, <1>9, <1>10

-----------------------------------------------------------------------------
(* The path map.                                                           *)
Mounts == [host : Seq(STRING), container : Seq(STRING) \ {<<>>}]

LEMMA ParsedMounts ==
  ASSUME NEW spec \in Seq([both : BOOLEAN, host : Seq(STRING), container : Seq(STRING)])
  PROVE  parse(spec) \in Seq(Mounts)
<1> DEFINE T    == [both : BOOLEAN, host : Seq(STRING), container : Seq(STRING)]
           S    == {e \in ToSet(spec) : e.both /\ e.host # <<>> /\ e.container # <<>>}
           kept == Those(spec, S)
<1>1. kept \in Seq(T) /\ ToSet(kept) = ToSet(spec) \intersect S
  <2> HIDE DEF T, S
  <2> QED
    BY ThoseMembers DEF T
<1>2. parse(spec) = [i \in DOMAIN kept |-> [host |-> kept[i].host, container |-> kept[i].container]]
  BY DEF parse
<1>3. \A i \in DOMAIN kept : kept[i] \in T /\ kept[i] \in S
  <2> HIDE DEF T, S, kept
  <2> QED
    BY <1>1 DEF ToSet
<1>4. \A i \in DOMAIN kept : [host |-> kept[i].host, container |-> kept[i].container] \in Mounts
  <2> HIDE DEF kept
  <2> QED
    BY <1>3 DEF Mounts
<1>5. DOMAIN kept = 1..Len(kept) /\ Len(kept) \in Nat
  <2> HIDE DEF kept, T, S
  <2> QED
    BY <1>1
<1> HIDE DEF kept, T, S
<1> QED
  BY <1>2, <1>4, <1>5

IsBest(entries, side, p, i) ==
    /\ i \in DOMAIN entries
    /\ Best(entries, side, p) = entries[i]
    /\ StartsWith(p, entries[i][side])
    /\ \A j \in DOMAIN entries : StartsWith(p, entries[j][side])
                                 => Len(entries[j][side]) =< Len(entries[i][side])

LEMMA BestExists ==
  ASSUME NEW entries \in Seq(Mounts), NEW side \in {"host", "container"},
         NEW p \in Seq(STRING), Matches(entries, side, p)
  PROVE  \E i : IsBest(entries, side, p, i)
<1> DEFINE matching == {i \in DOMAIN entries : StartsWith(p, entries[i][side])}
           lengths  == {Len(entries[i][side]) : i \in matching}
           longest  == {i \in matching : Len(entries[i][side]) = Max(lengths)}
<1>1. DOMAIN entries = 1..Len(entries) /\ Len(entries) \in Nat
      /\ \A i \in DOMAIN entries : entries[i] \in Mounts
  OBVIOUS
<1>2. \A i \in DOMAIN entries : Len(entries[i][side]) \in Nat
  BY <1>1 DEF Mounts
<1>3. matching # {} /\ matching \subseteq 1..Len(entries)
  BY <1>1 DEF Matches
<1>4. \A i \in matching : Len(entries[i][side]) =< Len(p)
  BY DEF StartsWith, IsPrefix
<1>5. lengths \in SUBSET (0..Len(p)) /\ lengths # {}
  <2>1. Len(p) \in Nat
    OBVIOUS
  <2>2. \A i \in matching : Len(entries[i][side]) \in 0..Len(p)
    <3> SUFFICES ASSUME NEW i \in matching PROVE Len(entries[i][side]) \in 0..Len(p)
      OBVIOUS
    <3>1. Len(entries[i][side]) \in Nat /\ Len(entries[i][side]) =< Len(p)
      BY <1>2, <1>4
    <3> QED
      BY <2>1, <3>1
  <2>3. PICK i \in matching : TRUE
    BY <1>3
  <2> HIDE DEF matching
  <2> QED
    BY <2>2, <2>3
<1>6. Best(entries, side, p) = entries[Min(longest)]
  BY DEF Best
<1> HIDE DEF lengths
<1>8. Max(lengths) \in lengths /\ \A n \in lengths : n =< Max(lengths)
  <2>1. Len(p) \in Nat
    OBVIOUS
  <2> HIDE DEF matching
  <2> QED
    BY <1>5, <2>1, MaxFacts
<1>9. longest # {} /\ longest \subseteq matching
  BY <1>8 DEF lengths
<1>10. \A i \in longest : \A j \in matching : Len(entries[j][side]) =< Len(entries[i][side])
  BY <1>8 DEF lengths
<1> HIDE DEF longest
<1>11. Min(longest) \in longest
  <2>1. longest \in SUBSET Nat
    BY <1>3, <1>9
  <2> QED
    BY <1>9, <2>1, MinFacts
<1>12. IsBest(entries, side, p, Min(longest))
  BY <1>1, <1>3, <1>6, <1>9, <1>10, <1>11 DEF IsBest
<1> QED
  BY <1>12

LEMMA PrefixesOf ==
  ASSUME NEW T, NEW p \in Seq(T), NEW q \in Seq(T)
  PROVE  /\ StartsWith(p, q) <=> Len(q) =< Len(p) /\ \A k \in 1..Len(q) : q[k] = p[k]
         /\ StartsWith(p, q) => /\ StripPrefix(p, q) \in Seq(T)
                                /\ Len(StripPrefix(p, q)) = Len(p) - Len(q)
                                /\ \A k \in 1..(Len(p) - Len(q)) : StripPrefix(p, q)[k] = p[Len(q) + k]
<1>1. Len(p) \in Nat /\ Len(q) \in Nat
  OBVIOUS
<1>2. ASSUME StartsWith(p, q) PROVE Len(q) =< Len(p) /\ \A k \in 1..Len(q) : q[k] = p[k]
  <2>1. Len(q) =< Len(p) /\ SubSeq(q, 1, Len(q)) = SubSeq(p, 1, Len(q))
    BY <1>2 DEF StartsWith, IsPrefix
  <2>2. \A k \in 1..Len(q) : SubSeq(q, 1, Len(q))[k] = q[k] /\ SubSeq(p, 1, Len(q))[k] = p[k]
    BY <1>1, <2>1
  <2> QED
    BY <2>1, <2>2
<1>3. ASSUME Len(q) =< Len(p), \A k \in 1..Len(q) : q[k] = p[k] PROVE StartsWith(p, q)
  <2>1. SubSeq(q, 1, Len(q)) = [k \in 1..Len(q) |-> q[k]]
        /\ SubSeq(p, 1, Len(q)) = [k \in 1..Len(q) |-> p[k]]
    BY <1>1, <1>3
  <2>2. [k \in 1..Len(q) |-> q[k]] = [k \in 1..Len(q) |-> p[k]]
    BY <1>3
  <2> QED
    BY <1>3, <2>1, <2>2 DEF StartsWith, IsPrefix
<1>4. ASSUME Len(q) =< Len(p)
      PROVE  /\ StripPrefix(p, q) \in Seq(T)
             /\ Len(StripPrefix(p, q)) = Len(p) - Len(q)
             /\ \A k \in 1..(Len(p) - Len(q)) : StripPrefix(p, q)[k] = p[Len(q) + k]
  BY <1>1, <1>4 DEF StripPrefix
<1> QED
  BY <1>2, <1>3, <1>4

LEMMA SplitOf ==
  ASSUME NEW T, NEW p \in Seq(T), NEW q \in Seq(T), StartsWith(p, q)
  PROVE  p = q \o StripPrefix(p, q)
<1>1. /\ StripPrefix(p, q) \in Seq(T) /\ Len(StripPrefix(p, q)) = Len(p) - Len(q)
      /\ \A k \in 1..Len(q) : q[k] = p[k]
      /\ \A k \in 1..(Len(p) - Len(q)) : StripPrefix(p, q)[k] = p[Len(q) + k]
      /\ Len(q) =< Len(p) /\ Len(p) \in Nat /\ Len(q) \in Nat
  BY PrefixesOf
<1> DEFINE r == StripPrefix(p, q)
<1> HIDE DEF r
<1>2. /\ q \o r \in Seq(T) /\ Len(q \o r) = Len(p)
      /\ \A k \in 1..Len(q) : (q \o r)[k] = q[k]
      /\ \A k \in 1..Len(r) : (q \o r)[Len(q) + k] = r[k]
  BY <1>1 DEF r
<1>3. \A k \in 1..Len(p) : (q \o r)[k] = p[k]
  <2> SUFFICES ASSUME NEW k \in 1..Len(p) PROVE (q \o r)[k] = p[k]
    OBVIOUS
  <2>1. k \in Nat /\ Len(q) \in Nat /\ Len(p) \in Nat
    BY <1>1
  <2>2. CASE k =< Len(q)
    BY <1>1, <1>2, <2>2
  <2>3. CASE ~(k =< Len(q))
    <3>1. k - Len(q) \in 1..(Len(p) - Len(q)) /\ Len(q) + (k - Len(q)) = k
      BY <2>1, <2>3
    <3>2. Len(r) = Len(p) - Len(q)
      BY <1>1 DEF r
    <3>3. (q \o r)[Len(q) + (k - Len(q))] = r[k - Len(q)]
      BY <1>2, <3>1, <3>2
    <3>4. r[k - Len(q)] = p[Len(q) + (k - Len(q))]
      BY <1>1, <3>1 DEF r
    <3> QED
      BY <3>1, <3>3, <3>4
  <2> QED
    BY <2>2, <2>3
<1>4. q \o r = p
  BY <1>1, <1>2, <1>3, SeqEqual
<1> QED
  BY <1>4 DEF r

LEMMA StartsOf ==
  ASSUME NEW T, NEW p \in Seq(T), NEW q \in Seq(T)
  PROVE  StartsWith(p \o q, p)
<1>1. /\ p \o q \in Seq(T) /\ Len(p) =< Len(p \o q)
      /\ \A k \in 1..Len(p) : p[k] = (p \o q)[k]
  OBVIOUS
<1> QED
  BY <1>1, PrefixesOf

LEMMA PrefixFacts ==
  ASSUME NEW p \in Seq(STRING), NEW q \in Seq(STRING)
  PROVE  /\ StartsWith(p, q) <=> Len(q) =< Len(p) /\ \A k \in 1..Len(q) : q[k] = p[k]
         /\ StartsWith(p, q) => /\ StripPrefix(p, q) \in Seq(STRING)
                                /\ Len(StripPrefix(p, q)) = Len(p) - Len(q)
                                /\ \A k \in 1..(Len(p) - Len(q)) : StripPrefix(p, q)[k] = p[Len(q) + k]
BY PrefixesOf

LEMMA Split ==
  ASSUME NEW p \in Seq(STRING), NEW q \in Seq(STRING), StartsWith(p, q)
  PROVE  p = q \o StripPrefix(p, q)
BY SplitOf

LEMMA Starts ==
  ASSUME NEW p \in Seq(STRING), NEW q \in Seq(STRING)
  PROVE  StartsWith(p \o q, p)
BY StartsOf

Relative(p) == p \in Seq(STRING) /\ \A k \in 1..Len(p) : p[k] # Root

LEMMA RelativeJoins ==
  ASSUME NEW p \in Seq(STRING), NEW q, Relative(q)
  PROVE  Join(p, q) = p \o q
<1>1. ~IsAbsolute(q)
  BY DEF Relative, IsAbsolute
<1> QED
  BY <1>1 DEF Join

LEMMA PathsAssociate ==
  ASSUME NEW x \in Seq(STRING), NEW y \in Seq(STRING), NEW z \in Seq(STRING)
  PROVE  (x \o y) \o z = x \o (y \o z)
  BY ConcatAssociative

LEMMA Cancels ==
  ASSUME NEW p \in Seq(STRING), NEW u \in Seq(STRING), NEW v \in Seq(STRING), p \o u = p \o v
  PROVE  u = v
<1>1. Len(p) \in Nat /\ Len(u) \in Nat /\ Len(v) \in Nat
  OBVIOUS
<1>2. Len(p \o u) = Len(p) + Len(u) /\ Len(p \o v) = Len(p) + Len(v)
  OBVIOUS
<1>3. Len(u) = Len(v)
  BY <1>1, <1>2
<1>4. /\ \A k \in 1..Len(u) : (p \o u)[Len(p) + k] = u[k]
      /\ \A k \in 1..Len(v) : (p \o v)[Len(p) + k] = v[k]
  OBVIOUS
<1>5. \A k \in 1..Len(u) : u[k] = v[k]
  BY <1>3, <1>4
<1> QED
  BY <1>3, <1>5, SeqEqual

LEMMA PartsAreRelative ==
  ASSUME NEW x \in Seq(STRING), NEW y \in Seq(STRING), Relative(x \o y)
  PROVE  Relative(x) /\ Relative(y)
<1>1. \A k \in 1..Len(x \o y) : (x \o y)[k] # Root
  BY DEF Relative
<1>2. Len(x) \in Nat /\ Len(y) \in Nat /\ Len(x \o y) = Len(x) + Len(y)
      /\ (\A k \in 1..Len(x) : (x \o y)[k] = x[k])
      /\ (\A k \in 1..Len(y) : (x \o y)[Len(x) + k] = y[k])
  OBVIOUS
<1>3. \A k \in 1..Len(x) : k \in 1..Len(x \o y)
  BY <1>2
<1>4. \A k \in 1..Len(y) : Len(x) + k \in 1..Len(x \o y)
  BY <1>2
<1>5. \A k \in 1..Len(x) : x[k] # Root
  BY <1>1, <1>2, <1>3
<1>6. \A k \in 1..Len(y) : y[k] # Root
  BY <1>1, <1>2, <1>4
<1> QED
  BY <1>5, <1>6 DEF Relative

(* A longer prefix of p and a relative path takes a part of that path.     *)
Parts(p, r, q, x, y) ==
    /\ Relative(x) /\ Relative(y) /\ r = x \o y
    /\ q = p \o x /\ StartsWith(q, p) /\ StripPrefix(q, p) = x
    /\ StripPrefix(p \o r, q) = y

LEMMA LongerPrefix ==
  ASSUME NEW p \in Seq(STRING), NEW r, Relative(r), NEW q \in Seq(STRING),
         StartsWith(p \o r, q), Len(p) =< Len(q)
  PROVE  \E x, y : Parts(p, r, q, x, y)
<1> DEFINE h == p \o r
           x == StripPrefix(q, p)
           y == StripPrefix(h, q)
<1>1. r \in Seq(STRING) /\ h \in Seq(STRING) /\ Len(p) \in Nat /\ Len(q) \in Nat
  BY DEF Relative
<1>2. \A k \in 1..Len(p) : h[k] = p[k]
  BY <1>1
<1>3. \A k \in 1..Len(q) : q[k] = h[k]
  BY <1>1, PrefixFacts
<1>4. \A k \in 1..Len(p) : k \in 1..Len(q)
  BY <1>1
<1>5. \A k \in 1..Len(p) : p[k] = q[k]
  BY <1>2, <1>3, <1>4
<1>6. StartsWith(q, p)
  BY <1>5, PrefixFacts
<1>7. x \in Seq(STRING) /\ y \in Seq(STRING)
  BY <1>1, <1>6, PrefixFacts
<1>8. q = p \o x /\ h = q \o y
  BY <1>1, <1>6, Split
<1> HIDE DEF x, y
<1>9. p \o r = p \o (x \o y)
  <2>1. (p \o x) \o y = p \o (x \o y)
    BY <1>7, ConcatAssociative
  <2> QED
    BY <1>8, <2>1
<1>10. r = x \o y
  <2>1. x \o y \in Seq(STRING)
    BY <1>7
  <2> HIDE DEF h
  <2> QED
    BY <1>1, <1>9, <2>1, Cancels
<1>11. Relative(x) /\ Relative(y)
  BY <1>7, <1>10, PartsAreRelative
<1>12. Parts(p, r, q, x, y)
  BY <1>6, <1>8, <1>10, <1>11 DEF Parts, x, y
<1> QED
  BY <1>12

LEMMA BelowMount ==
  ASSUME NEW p \in Seq(STRING), p # <<>>, NEW root, IsPath(root), StartsWith(root, p)
  PROVE  Relative(StripPrefix(root, p)) /\ root = p \o StripPrefix(root, p)
<1>1. root \in Seq(STRING) /\ \A i \in 2..Len(root) : root[i] # Root
  BY DEF IsPath
<1> DEFINE r == StripPrefix(root, p)
<1>2. /\ r \in Seq(STRING) /\ Len(r) = Len(root) - Len(p)
      /\ \A k \in 1..(Len(root) - Len(p)) : r[k] = root[Len(p) + k]
  BY <1>1, PrefixFacts
<1>3. Len(p) \in Nat \ {0} /\ Len(root) \in Nat
  BY <1>1
<1>4. root = p \o r
  BY <1>1, Split
<1> HIDE DEF r
<1>5. \A k \in 1..(Len(root) - Len(p)) : Len(p) + k \in 2..Len(root)
  BY <1>3
<1>6. \A k \in 1..(Len(root) - Len(p)) : r[k] # Root
  BY <1>1, <1>2, <1>5
<1>7. \A k \in 1..Len(r) : r[k] # Root
  BY <1>2, <1>6
<1> QED
  BY <1>2, <1>4, <1>7 DEF Relative, r

(* What is shown under the best mount leads back under the best one that   *)
(* takes it, unless that one hides it.                                     *)
LEMMA LeadsBack ==
  ASSUME NEW entries \in Seq(Mounts), NEW root, IsPath(root),
         Matches(entries, "container", root), ~Hidden(entries, root)
  PROVE  map(entries, reverse(entries, root)) = root
<1>1. root \in Seq(STRING)
  BY DEF IsPath
<1>2. PICK a : IsBest(entries, "container", root, a)
  BY <1>1, BestExists
<1>3. \A i \in DOMAIN entries : entries[i] \in Mounts
  OBVIOUS
<1>4. PICK eh \in Seq(STRING), ec \in Seq(STRING) \ {<<>>} :
         a \in DOMAIN entries /\ entries[a].host = eh /\ entries[a].container = ec
  BY <1>2, <1>3 DEF IsBest, Mounts
<1>5. StartsWith(root, ec) /\ Best(entries, "container", root) = entries[a]
  BY <1>2, <1>4 DEF IsBest
<1>6. PICK r : Relative(r) /\ StripPrefix(root, ec) = r /\ root = ec \o r
  BY <1>5, BelowMount
<1>7. r \in Seq(STRING)
  BY <1>6 DEF Relative
<1> DEFINE h == eh \o r
<1>8. reverse(entries, root) = h
  BY <1>4, <1>5, <1>6, RelativeJoins DEF reverse
<1>9. h \in Seq(STRING) /\ StartsWith(h, eh)
  BY <1>7, Starts
<1>10. Matches(entries, "host", h)
  BY <1>4, <1>9 DEF Matches
<1>11. PICK b : IsBest(entries, "host", h, b)
  BY <1>9, <1>10, BestExists
<1>12. PICK fh \in Seq(STRING), fc \in Seq(STRING) :
         b \in DOMAIN entries /\ entries[b].host = fh /\ entries[b].container = fc
  BY <1>3, <1>11 DEF IsBest, Mounts
<1>13. StartsWith(h, fh) /\ Best(entries, "host", h) = entries[b] /\ Len(eh) =< Len(fh)
  BY <1>4, <1>9, <1>11, <1>12 DEF IsBest
<1>14. PICK x, y : Parts(eh, r, fh, x, y)
  BY <1>6, <1>13, LongerPrefix
<1>15. /\ Relative(x) /\ Relative(y) /\ x \in Seq(STRING) /\ y \in Seq(STRING) /\ r = x \o y
       /\ StartsWith(fh, eh) /\ StripPrefix(fh, eh) = x /\ StripPrefix(h, fh) = y
  BY <1>14 DEF Parts, Relative
<1>16. root = (ec \o x) \o y /\ ec \o x \in Seq(STRING)
  <2>1. ec \in Seq(STRING)
    BY <1>4
  <2>2. (ec \o x) \o y = ec \o (x \o y)
    BY <2>1, <1>15, PathsAssociate
  <2> QED
    BY <1>6, <1>15, <2>1, <2>2
<1>17. fc = ec \o x
  <2>1. Join(ec, x) = ec \o x
    BY <1>4, <1>15, RelativeJoins
  <2>2. StartsWith(root, ec \o x)
    BY <1>15, <1>16, Starts
  <2>3. ~(Join(ec, x) # fc /\ StartsWith(root, Join(ec, x)))
    BY <1>4, <1>12, <1>15 DEF Hidden
  <2> QED
    BY <2>1, <2>2, <2>3
<1>18. map(entries, h) = fc \o y
  <2>1. map(entries, h) = Join(fc, y)
    BY <1>10, <1>12, <1>13, <1>15 DEF map
  <2> QED
    BY <1>15, <2>1, RelativeJoins
<1> QED
  BY <1>8, <1>16, <1>17, <1>18

-----------------------------------------------------------------------------
(* The catalogue.                                                          *)
GoodFor(p, d) ==
    /\ d.target \in DOMAIN TargetKeys
    /\ d.params \intersect ENVELOPE_KEYS = {}
    /\ d.id = "symbol-search" => d.target = "project" /\ d.kind = "query"
    /\ d.id = "change-signature" => p = "jdtls"
    /\ d.limit \in Nat

LEMMA SharedOperations ==
  /\ DOMAIN Shared = 1..10
  /\ \A p \in Providers : \A j \in 1..10 : GoodFor(p, Shared[j])
  /\ Shared[3] = SymbolSearchOp
<1>1. /\ DOMAIN Shared = 1..10
      /\ Shared[1] = RenameOp /\ Shared[2] = FindUsagesOp /\ Shared[3] = SymbolSearchOp
      /\ Shared[4] = GotoQueryOp("go-to-definition")
      /\ Shared[5] = GotoQueryOp("find-implementations") /\ Shared[6] = DescribeSymbolOp
      /\ Shared[7] = FileOutlineOp /\ Shared[8] = PrepareCallHierarchyOp
      /\ Shared[9] = IncomingCallsOp /\ Shared[10] = OutgoingCallsOp
  BY DEF Shared
<1>2. \A p \in Providers : GoodFor(p, RenameOp) /\ GoodFor(p, FindUsagesOp)
                           /\ GoodFor(p, SymbolSearchOp) /\ GoodFor(p, DescribeSymbolOp)
  BY CatalogueAssumption DEF GoodFor, RenameOp, FindUsagesOp, SymbolSearchOp, DescribeSymbolOp, Descriptor,
         TargetKeys, ENVELOPE_KEYS
<1>3. \A p \in Providers : GoodFor(p, GotoQueryOp("go-to-definition"))
                           /\ GoodFor(p, GotoQueryOp("find-implementations"))
                           /\ GoodFor(p, FileOutlineOp)
  BY CatalogueAssumption DEF GoodFor, GotoQueryOp, FileOutlineOp, Descriptor, TargetKeys, ENVELOPE_KEYS
<1>4. \A p \in Providers : GoodFor(p, PrepareCallHierarchyOp) /\ GoodFor(p, IncomingCallsOp)
                           /\ GoodFor(p, OutgoingCallsOp)
  BY CatalogueAssumption DEF GoodFor, PrepareCallHierarchyOp, IncomingCallsOp, OutgoingCallsOp, Descriptor,
         TargetKeys, ENVELOPE_KEYS
<1> QED
  BY <1>1, <1>2, <1>3, <1>4

Joins(T, x, y, z) ==
    /\ z \in Seq(T)
    /\ DOMAIN z = 1..(Len(x) + Len(y))
    /\ \A j \in 1..Len(x) : z[j] = x[j]
    /\ \A j \in 1..Len(y) : z[Len(x) + j] = y[j]
    /\ ToSet(z) = ToSet(x) \union ToSet(y)

LEMMA JoinedSeq ==
  ASSUME NEW T, NEW x \in Seq(T), NEW y \in Seq(T)
  PROVE  Joins(T, x, y, x \o y)
<1>1. /\ Len(x) \in Nat /\ Len(y) \in Nat /\ DOMAIN x = 1..Len(x) /\ DOMAIN y = 1..Len(y)
      /\ x \o y \in Seq(T)
      /\ DOMAIN (x \o y) = 1..(Len(x) + Len(y))
      /\ \A j \in 1..Len(x) : (x \o y)[j] = x[j]
      /\ \A j \in 1..Len(y) : (x \o y)[Len(x) + j] = y[j]
  OBVIOUS
<1>2. \A j \in 1..(Len(x) + Len(y)) :
        j \in 1..Len(x) \/ (j - Len(x) \in 1..Len(y) /\ Len(x) + (j - Len(x)) = j)
  BY <1>1
<1>3. \A j \in DOMAIN (x \o y) : (x \o y)[j] \in ToSet(x) \union ToSet(y)
  <2> SUFFICES ASSUME NEW j \in 1..(Len(x) + Len(y))
               PROVE  (x \o y)[j] \in ToSet(x) \union ToSet(y)
    BY <1>1
  <2>1. CASE j \in 1..Len(x)
    BY <1>1, <2>1 DEF ToSet
  <2>2. CASE j - Len(x) \in 1..Len(y) /\ Len(x) + (j - Len(x)) = j
    <3>1. (x \o y)[j] = y[j - Len(x)]
      BY <1>1, <2>2
    <3> QED
      BY <1>1, <2>2, <3>1 DEF ToSet
  <2> QED
    BY <1>2, <2>1, <2>2
<1>4. \A j \in 1..Len(x) : x[j] \in ToSet(x \o y)
  <2> SUFFICES ASSUME NEW j \in 1..Len(x) PROVE x[j] \in ToSet(x \o y)
    OBVIOUS
  <2>1. j \in 1..(Len(x) + Len(y))
    BY <1>1
  <2> QED
    BY <1>1, <2>1 DEF ToSet
<1>5. \A j \in 1..Len(y) : y[j] \in ToSet(x \o y)
  <2> SUFFICES ASSUME NEW j \in 1..Len(y) PROVE y[j] \in ToSet(x \o y)
    OBVIOUS
  <2>1. Len(x) + j \in 1..(Len(x) + Len(y))
    BY <1>1
  <2> QED
    BY <1>1, <2>1 DEF ToSet
<1>6. ToSet(x \o y) \subseteq ToSet(x) \union ToSet(y)
  BY <1>3 DEF ToSet
<1>7. ToSet(x) \subseteq ToSet(x \o y) /\ ToSet(y) \subseteq ToSet(x \o y)
  <2> HIDE DEF ToSet
  <2>1. ToSet(x) = {x[j] : j \in 1..Len(x)} /\ ToSet(y) = {y[j] : j \in 1..Len(y)}
    BY <1>1 DEF ToSet
  <2> QED
    BY <1>4, <1>5, <2>1
<1> QED
  BY <1>1, <1>6, <1>7 DEF Joins

LEMMA AddedOperations ==
  ASSUME NEW p \in Providers, NEW U, NEW own \in Seq(U), NEW n \in Nat, Len(own) = n, \A j \in 1..n : GoodFor(p, own[j])
  PROVE  /\ DOMAIN (Shared \o own) = 1..(10 + n)
         /\ \A j \in 1..(10 + n) : GoodFor(p, (Shared \o own)[j])
         /\ (Shared \o own)[3] = SymbolSearchOp
<1>1. Shared \in Seq({Shared[j] : j \in 1..10}) /\ Len(Shared) = 10
  BY DEF Shared
<1> DEFINE T == {Shared[j] : j \in 1..10} \union U
<1>2. Shared \in Seq(T) /\ own \in Seq(T)
  BY <1>1
<1> HIDE DEF T
<1>3. /\ DOMAIN (Shared \o own) = 1..(10 + n)
      /\ \A j \in 1..10 : (Shared \o own)[j] = Shared[j]
      /\ \A j \in 1..n : (Shared \o own)[10 + j] = own[j]
  <2>1. Joins(T, Shared, own, Shared \o own)
    BY <1>2, JoinedSeq
  <2>2. Len(Shared) = 10 /\ Len(own) = n
    BY <1>1
  <2> QED
    BY <2>1, <2>2 DEF Joins
<1>4. \A j \in 1..(10 + n) : j \in 1..10 \/ (j - 10 \in 1..n /\ 10 + (j - 10) = j)
  OBVIOUS
<1>5. \A j \in 1..(10 + n) : GoodFor(p, (Shared \o own)[j])
  <2> SUFFICES ASSUME NEW j \in 1..(10 + n) PROVE GoodFor(p, (Shared \o own)[j])
    OBVIOUS
  <2>1. CASE j \in 1..10
    BY <1>3, <2>1, SharedOperations
  <2>2. CASE j - 10 \in 1..n /\ 10 + (j - 10) = j
    BY <1>3, <2>2
  <2> QED
    BY <1>4, <2>1, <2>2
<1> QED
  BY <1>3, <1>5, SharedOperations

LEMMA TheirOperations ==
  ASSUME NEW p \in Providers
  PROVE  /\ \E n \in Nat : DOMAIN Contributes[p] = 1..n
         /\ \A j \in DOMAIN Contributes[p] : GoodFor(p, Contributes[p][j])
         /\ \E j \in DOMAIN Contributes[p] : Contributes[p][j] = SymbolSearchOp
<1> DEFINE action(id, target) == CodeActionOp(id, target)
           java == <<ChangeSignatureOp, MoveOp, action("extract-variable", "selection"),
                     action("extract-constant", "selection"), action("extract-field", "selection"),
                     action("extract-method", "selection"), action("inline", "position"),
                     action("organize-imports", "file")>>
           rust == <<action("extract-variable", "selection"),
                     action("extract-constant", "selection"),
                     action("extract-function", "selection"), action("inline", "position")>>
           ts   == <<action("extract-function", "selection"),
                     action("extract-constant", "selection")>>
<1>1. GoodFor(p, action("extract-variable", "selection"))
      /\ GoodFor(p, action("extract-constant", "selection"))
      /\ GoodFor(p, action("extract-field", "selection"))
      /\ GoodFor(p, action("extract-method", "selection"))
  BY CatalogueAssumption DEF GoodFor, CodeActionOp, Descriptor, TargetKeys, ENVELOPE_KEYS
<1>2. GoodFor(p, action("extract-function", "selection"))
      /\ GoodFor(p, action("inline", "position"))
      /\ GoodFor(p, action("organize-imports", "file"))
  BY CatalogueAssumption DEF GoodFor, CodeActionOp, Descriptor, TargetKeys, ENVELOPE_KEYS
<1>3. p = "jdtls" => GoodFor(p, ChangeSignatureOp) /\ GoodFor(p, MoveOp)
  BY CatalogueAssumption DEF GoodFor, ChangeSignatureOp, MoveOp, Descriptor, TargetKeys, ENVELOPE_KEYS
<1> HIDE DEF action
<1>4. CASE p = "jdtls"
  <2>1. Contributes[p] = Shared \o java
    BY <1>4 DEF Contributes, java_operations, Providers, action
  <2>2. java \in Seq({java[j] : j \in 1..8}) /\ Len(java) = 8
    OBVIOUS
  <2>3. \A j \in 1..8 : GoodFor(p, java[j])
    BY <1>1, <1>2, <1>3, <1>4
  <2> HIDE DEF java
  <2>4. /\ DOMAIN (Shared \o java) = 1..(10 + 8)
        /\ \A j \in 1..(10 + 8) : GoodFor(p, (Shared \o java)[j])
        /\ (Shared \o java)[3] = SymbolSearchOp
    BY <2>2, <2>3, AddedOperations
  <2>5. 10 + 8 \in Nat /\ 3 \in 1..(10 + 8)
    OBVIOUS
  <2> QED
    BY <2>1, <2>4, <2>5
<1>5. CASE p = "rust-analyzer"
  <2>1. Contributes[p] = Shared \o rust
    BY <1>5 DEF Contributes, rust_operations, Providers, action
  <2>2. rust \in Seq({rust[j] : j \in 1..4}) /\ Len(rust) = 4
    OBVIOUS
  <2>3. \A j \in 1..4 : GoodFor(p, rust[j])
    BY <1>1, <1>2
  <2> HIDE DEF rust
  <2>4. /\ DOMAIN (Shared \o rust) = 1..(10 + 4)
        /\ \A j \in 1..(10 + 4) : GoodFor(p, (Shared \o rust)[j])
        /\ (Shared \o rust)[3] = SymbolSearchOp
    BY <2>2, <2>3, AddedOperations
  <2>5. 10 + 4 \in Nat /\ 3 \in 1..(10 + 4)
    OBVIOUS
  <2> QED
    BY <2>1, <2>4, <2>5
<1>6. CASE p = "tsserver"
  <2>1. Contributes[p] = Shared \o ts
    BY <1>6 DEF Contributes, ts_operations, Providers, action
  <2>2. ts \in Seq({ts[j] : j \in 1..2}) /\ Len(ts) = 2
    OBVIOUS
  <2>3. \A j \in 1..2 : GoodFor(p, ts[j])
    BY <1>1, <1>2
  <2> HIDE DEF ts
  <2>4. /\ DOMAIN (Shared \o ts) = 1..(10 + 2)
        /\ \A j \in 1..(10 + 2) : GoodFor(p, (Shared \o ts)[j])
        /\ (Shared \o ts)[3] = SymbolSearchOp
    BY <2>2, <2>3, AddedOperations
  <2>5. 10 + 2 \in Nat /\ 3 \in 1..(10 + 2)
    OBVIOUS
  <2> QED
    BY <2>1, <2>4, <2>5
<1> QED
  BY <1>4, <1>5, <1>6 DEF Providers

OfferedBy(p) == {[descriptor |-> Contributes[p][j], provider |-> p] : j \in DOMAIN Contributes[p]}
Offers     == UNION {OfferedBy(p) : p \in Located}

LEMMA Registrations == Registered \in Seq(Offers) /\ ToSet(Registered) = Offers
<1>1. ASSUME NEW p \in Providers
      PROVE  /\ RegisteredBy(p) \in Seq(Offers)
             /\ ToSet(RegisteredBy(p)) = IF p \in Located THEN OfferedBy(p) ELSE {}
  <2>1. CASE p \notin Located
    BY <2>1 DEF RegisteredBy, ToSet
  <2>2. CASE p \in Located
    <3> DEFINE named(j) == [descriptor |-> Contributes[p][j], provider |-> p]
    <3>1. PICK n \in Nat : DOMAIN Contributes[p] = 1..n
      BY TheirOperations
    <3>2. RegisteredBy(p) = [j \in 1..n |-> named(j)]
      BY <2>2, <3>1 DEF RegisteredBy
    <3>3. \A j \in 1..n : named(j) \in Offers
      BY <2>2, <3>1 DEF Offers, OfferedBy
    <3>4. {named(j) : j \in 1..n} = OfferedBy(p)
      BY <3>1 DEF OfferedBy
    <3> HIDE DEF named
    <3>5. RegisteredBy(p) \in Seq(Offers)
      BY <3>2, <3>3
    <3>6. ToSet(RegisteredBy(p)) = {named(j) : j \in 1..n}
      BY <3>2 DEF ToSet
    <3> QED
      BY <2>2, <3>4, <3>5, <3>6
  <2> QED
    BY <2>1, <2>2
<1> DEFINE J == RegisteredBy("jdtls")
           R == RegisteredBy("rust-analyzer")
           T == RegisteredBy("tsserver")
<1>2. /\ J \in Seq(Offers) /\ R \in Seq(Offers) /\ T \in Seq(Offers)
      /\ ToSet(J) = (IF "jdtls" \in Located THEN OfferedBy("jdtls") ELSE {})
      /\ ToSet(R) = (IF "rust-analyzer" \in Located THEN OfferedBy("rust-analyzer") ELSE {})
      /\ ToSet(T) = (IF "tsserver" \in Located THEN OfferedBy("tsserver") ELSE {})
  BY <1>1 DEF Providers
<1>3. Registered = (J \o R) \o T
  BY DEF Registered
<1> HIDE DEF J, R, T
<1>4. J \o R \in Seq(Offers) /\ ToSet(J \o R) = ToSet(J) \union ToSet(R)
  BY <1>2, JoinedSeq DEF Joins
<1>5. Registered \in Seq(Offers) /\ ToSet(Registered) = ToSet(J \o R) \union ToSet(T)
  <2>1. Joins(Offers, J \o R, T, (J \o R) \o T)
    BY <1>2, <1>4, JoinedSeq
  <2> QED
    BY <1>3, <2>1 DEF Joins
<1>6. ToSet(Registered) = Offers
  <2>1. Located \subseteq {"jdtls", "rust-analyzer", "tsserver"}
    BY CatalogueAssumption
  <2> QED
    BY <1>2, <1>4, <1>5, <2>1 DEF Offers
<1> QED
  BY <1>5, <1>6

LEMMA OfferFacts ==
  ASSUME NEW r \in Offers
  PROVE  /\ r.provider \in Located /\ r.provider \in Providers
         /\ GoodFor(r.provider, r.descriptor)
<1>1. PICK p \in Located : r \in OfferedBy(p)
  BY DEF Offers
<1>2. PICK j \in DOMAIN Contributes[p] : r = [descriptor |-> Contributes[p][j], provider |-> p]
  BY <1>1 DEF OfferedBy
<1>3. p \in Providers
  BY CatalogueAssumption DEF Providers
<1>4. GoodFor(p, Contributes[p][j])
  BY <1>3, TheirOperations
<1> QED
  BY <1>2, <1>3, <1>4

LEMMA EverySearches ==
  ASSUME NEW p \in Located
  PROVE  \E r \in Offers : r.provider = p /\ r.descriptor.id = "symbol-search"
<1>1. p \in Providers
  BY CatalogueAssumption DEF Providers
<1>2. PICK j \in DOMAIN Contributes[p] : Contributes[p][j] = SymbolSearchOp
  BY <1>1, TheirOperations
<1> DEFINE r == [descriptor |-> Contributes[p][j], provider |-> p]
<1>3. r \in Offers
  BY DEF Offers, OfferedBy
<1>4. r.provider = p /\ r.descriptor.id = "symbol-search"
  BY <1>2 DEF SymbolSearchOp, Descriptor
<1> QED
  BY <1>3, <1>4

LanguageSet == ToSet(Languages)

LEMMA LanguageNames == LanguageSet = {"java", "rust", "typescript", "javascript"}
<1>1. /\ DOMAIN Languages = 1..4 /\ Languages[1] = "java" /\ Languages[2] = "rust"
      /\ Languages[3] = "typescript" /\ Languages[4] = "javascript"
  BY DEF Languages
<1> QED
  BY <1>1 DEF LanguageSet, ToSet

(* A language has one provider, if any, and an extension one language.     *)
LEMMA ServedOnce ==
  ASSUME NEW l, NEW p \in Located, l \in Serves[p]
  PROVE  provider_of(l) = p
<1>1. \A q \in Located : q \in Providers
  BY CatalogueAssumption DEF Providers
<1>2. \A q \in Located : l \in Serves[q] => q = p
  BY <1>1 DEF Serves, Providers
<1> QED
  BY <1>2 DEF provider_of

LEMMA ServedAtAll ==
  ASSUME NEW l
  PROVE  provider_of(l) # NoProvider <=> \E p \in Located : l \in Serves[p]
<1>1. \A q \in Located : q # NoProvider
  BY CatalogueAssumption DEF NoProvider
<1> QED
  BY <1>1, ServedOnce DEF provider_of

LEMMA ExtensionsDiffer ==
  ASSUME NEW ext, NEW k \in LanguageSet, NEW l \in LanguageSet,
         ext \in Extensions[k], ext \in Extensions[l]
  PROVE  k = l
  BY LanguageNames DEF Extensions

LEMMA FromItsName ==
  ASSUME NEW file
  PROVE  from_path(file) = LanguageOfName(Last(file))
<1> DEFINE ext == Extension[Last(file)]
           its == {k \in LanguageSet : ext \in Extensions[k]}
<1>1. \A k, l \in its : k = l
  BY ExtensionsDiffer
<1>2. LanguageOfName(Last(file)) = IF its = {} THEN NoLanguage ELSE CHOOSE k \in its : TRUE
  BY DEF LanguageOfName, LanguageSet
<1>3. from_path(file) = IF \E l \in LanguageSet : ext \in Extensions[l]
                        THEN CHOOSE l \in LanguageSet : ext \in Extensions[l] ELSE NoLanguage
  BY DEF from_path, LanguageSet
<1> HIDE DEF ext
<1>4. CASE its = {}
  BY <1>2, <1>3, <1>4
<1>5. ASSUME NEW l \in its PROVE from_path(file) = l /\ LanguageOfName(Last(file)) = l
  BY <1>1, <1>2, <1>3
<1> QED
  BY <1>4, <1>5

(* The languages that an operation has, and the registration of one.       *)
Having(id, languages) ==
    {l \in ToSet(languages) : \E r \in Offers : Supports(r, id, l)}

LEMMA LanguagesFor ==
  ASSUME NEW id, NEW languages \in Seq(LanguageSet)
  PROVE  /\ languages_for(id, languages) \in Seq(LanguageSet)
         /\ ToSet(languages_for(id, languages)) = Having(id, languages)
<1>1. languages_for(id, languages) = Those(languages, Having(id, languages))
  BY Registrations DEF languages_for, Having
<1>2. Having(id, languages) \subseteq ToSet(languages)
  BY DEF Having
<1>3. \A S : Those(languages, S) \in Seq(LanguageSet)
             /\ ToSet(Those(languages, S)) = ToSet(languages) \intersect S
  BY ThoseMembers
<1> QED
  BY <1>1, <1>2, <1>3

LEMMA HavingFacts ==
  ASSUME NEW id, NEW languages, NEW l \in Having(id, languages)
  PROVE  /\ provider_of(l) \in Located
         /\ resolve(id, l) \in Offers /\ Supports(resolve(id, l), id, l)
<1>1. PICK r \in Offers : Supports(r, id, l)
  BY DEF Having
<1>2. provider_of(l) = r.provider /\ r.provider \in Located
  BY <1>1, OfferFacts, ServedOnce DEF Supports, applies_to
<1> DEFINE able == {i \in DOMAIN Registered : Supports(Registered[i], id, l)}
<1>3. DOMAIN Registered = 1..Len(Registered) /\ Len(Registered) \in Nat
      /\ \A i \in DOMAIN Registered : Registered[i] \in Offers
  BY Registrations
<1>4. able \in SUBSET Nat
  BY <1>3
<1>5. able # {}
  BY <1>1, Registrations DEF ToSet
<1>6. resolve(id, l) = Registered[Min(able)]
  BY DEF resolve
<1> HIDE DEF able
<1>7. Min(able) \in able
  BY <1>4, <1>5, MinFacts
<1>8. Min(able) \in DOMAIN Registered /\ Supports(Registered[Min(able)], id, l)
  BY <1>7 DEF able
<1> QED
  BY <1>2, <1>3, <1>6, <1>8

(* A search has every language that has a provider; a change of signature  *)
(* only Java.                                                              *)
LEMMA SearchedLanguages ==
  ASSUME NEW languages
  PROVE  Having("symbol-search", languages) = {l \in ToSet(languages) : provider_of(l) # NoProvider}
<1>1. ASSUME NEW l \in Having("symbol-search", languages)
      PROVE  l \in ToSet(languages) /\ provider_of(l) # NoProvider
  <2>1. PICK r \in Offers : Supports(r, "symbol-search", l)
    BY DEF Having
  <2> QED
    BY <2>1, OfferFacts, ServedAtAll DEF Supports, applies_to, Having
<1>2. ASSUME NEW l \in ToSet(languages), provider_of(l) # NoProvider
      PROVE  l \in Having("symbol-search", languages)
  <2>1. PICK p \in Located : l \in Serves[p]
    BY <1>2, ServedAtAll
  <2>2. PICK r \in Offers : r.provider = p /\ r.descriptor.id = "symbol-search"
    BY EverySearches
  <2> QED
    BY <2>1, <2>2 DEF Having, Supports, applies_to
<1> QED
  BY <1>1, <1>2

LEMMA SignedLanguages ==
  ASSUME NEW languages, NEW l \in Having("change-signature", languages)
  PROVE  provider_of(l) = "jdtls"
<1>1. PICK r \in Offers : Supports(r, "change-signature", l)
  BY DEF Having
<1>2. r.provider = "jdtls" /\ "jdtls" \in Located /\ l \in Serves["jdtls"]
  BY <1>1, OfferFacts DEF Supports, applies_to, GoodFor
<1> QED
  BY <1>2, ServedOnce

-----------------------------------------------------------------------------
(* The languages that serve a request.                                     *)
LEMMA ServingCandidate ==
  ASSUME NEW candidates \in Seq(LanguageSet), NEW language,
         serving_candidate(candidates, language) # NoLanguage
  PROVE  /\ serving_candidate(candidates, language) \in ToSet(candidates)
         /\ provider_of(serving_candidate(candidates, language)) = provider_of(language)
<1> DEFINE sharing == {i \in DOMAIN candidates : provider_of(candidates[i]) = provider_of(language)}
<1>1. sharing \in SUBSET Nat
  OBVIOUS
<1>2. CASE language \in ToSet(candidates)
  BY <1>2 DEF serving_candidate
<1>3. CASE language \notin ToSet(candidates)
  <2>1. sharing # {} /\ serving_candidate(candidates, language) = candidates[Min(sharing)]
    BY <1>3 DEF serving_candidate
  <2> HIDE DEF sharing
  <2>2. Min(sharing) \in sharing
    BY <1>1, <2>1, MinFacts
  <2>3. Min(sharing) \in DOMAIN candidates
        /\ provider_of(candidates[Min(sharing)]) = provider_of(language)
    BY <2>2 DEF sharing
  <2> QED
    BY <2>1, <2>3 DEF ToSet
<1> QED
  BY <1>2, <1>3

LEMMA Singleton ==
  ASSUME NEW T, NEW x \in T
  PROVE  <<x>> \in Seq(T) /\ ToSet(<<x>>) = {x} /\ <<x>> # <<>>
<1>1. DOMAIN <<x>> = {1} /\ <<x>>[1] = x
  OBVIOUS
<1> QED
  BY <1>1 DEF ToSet

Chooses(candidates, d, file, where, chosen) ==
    /\ chosen \in Seq(LanguageSet) /\ ToSet(chosen) \subseteq ToSet(candidates)
    /\ file # NoFile /\ from_path(file) # NoLanguage =>
         \A c \in ToSet(chosen) : provider_of(c) = provider_of(from_path(file))
    /\ file = NoFile /\ where = "unspecified" /\ d.target = "project" /\ d.kind = "query"
         => chosen = candidates

LEMMA DispatchLanguages ==
  ASSUME NEW candidates \in Seq(LanguageSet), candidates # <<>>, NEW d, NEW file, NEW where
  PROVE  Chooses(candidates, d, file, where, dispatch_languages(candidates, d, file, where))
<1> DEFINE chosen == dispatch_languages(candidates, d, file, where)
           named  == Named(file, where)
           c      == serving_candidate(candidates, named)
<1>1. \A l \in ToSet(candidates) : l \in LanguageSet
  BY DEF ToSet
<1>2. /\ file # NoFile /\ from_path(file) # NoLanguage => named = from_path(file)
      /\ file = NoFile /\ where = "unspecified" => named = NoLanguage
  <2>1. "unspecified" \notin ToSet(Languages)
    BY LanguageNames DEF LanguageSet
  <2> QED
    BY <2>1 DEF Named
<1>3. CASE named # NoLanguage
  <2>1. chosen = IF c = NoLanguage THEN <<>> ELSE <<c>>
    BY <1>3 DEF dispatch_languages
  <2>2. CASE c = NoLanguage
    BY <1>2, <1>3, <2>1, <2>2 DEF ToSet, Chooses
  <2>3. CASE c # NoLanguage
    <3>1. c \in ToSet(candidates) /\ provider_of(c) = provider_of(named)
      BY <2>3, ServingCandidate
    <3>2. <<c>> \in Seq(LanguageSet) /\ ToSet(<<c>>) = {c}
      BY <1>1, <3>1, Singleton
    <3> HIDE DEF c
    <3> QED
      BY <1>2, <1>3, <2>1, <2>3, <3>1, <3>2 DEF Chooses
  <2> QED
    BY <2>2, <2>3
<1>4. CASE named = NoLanguage
  <2>1. chosen = IF where = "unplaceable" THEN <<>>
                 ELSE IF d.target = "project" /\ d.kind = "query" THEN candidates
                      ELSE <<Head(candidates)>>
    BY <1>4 DEF dispatch_languages
  <2>2. Head(candidates) \in ToSet(candidates)
    BY DEF ToSet
  <2>3. <<Head(candidates)>> \in Seq(LanguageSet) /\ ToSet(<<Head(candidates)>>) = {Head(candidates)}
    BY <1>1, <2>2, Singleton
  <2>4. ToSet(<<>>) = {} /\ <<>> \in Seq(LanguageSet)
    BY DEF ToSet
  <2>5. ~(file # NoFile /\ from_path(file) # NoLanguage)
    BY <1>2, <1>4
  <2>6. where = "unspecified" => where # "unplaceable"
    OBVIOUS
  <2>7. chosen \in Seq(LanguageSet) /\ ToSet(chosen) \subseteq ToSet(candidates)
    BY <2>1, <2>2, <2>3, <2>4
  <2> QED
    BY <2>1, <2>5, <2>6, <2>7 DEF Chooses
<1> QED
  BY <1>3, <1>4

-----------------------------------------------------------------------------
(* What operations return.                                                 *)
EditKinds  == {"error", "edit"}
QueryKinds == {"error", "query"}

LEMMA EditKind ==
  ASSUME NEW answer
  PROVE  to_core_workspace_edit(answer).kind \in EditKinds
  BY DEF to_core_workspace_edit, Edited, Failed, EditKinds

LEMMA QueryKind ==
  ASSUME NEW answer, NEW src, NEW key, NEW more
  PROVE  /\ goto_to_query(answer, src, key).kind \in QueryKinds
         /\ locations_to_query(answer, src).kind \in QueryKinds
         /\ hover_to_query(answer).kind \in QueryKinds
         /\ document_symbols_to_query(answer, src, more).kind \in QueryKinds
         /\ call_hierarchy_items_to_query(answer, src).kind \in QueryKinds
         /\ calls_to_query(answer, src, more).kind \in QueryKinds
         /\ symbols_to_query(answer, src, more).kind \in QueryKinds
<1>1. locations_to_query(answer, src).kind \in QueryKinds
  BY DEF locations_to_query, Answered, Listed, Queried, Failed, QueryKinds
<1>2. goto_to_query(answer, src, key).kind \in QueryKinds
  BY DEF goto_to_query, Answered, Listed, Queried, Failed, QueryKinds
<1>3. hover_to_query(answer).kind \in QueryKinds
  BY DEF hover_to_query, Queried, Failed, QueryKinds
<1>4. document_symbols_to_query(answer, src, more).kind \in QueryKinds
  BY DEF document_symbols_to_query, Listed, Queried, Failed, QueryKinds
<1>5. call_hierarchy_items_to_query(answer, src).kind \in QueryKinds
  BY DEF call_hierarchy_items_to_query, Answered, Listed, Queried, Failed, QueryKinds
<1>6. calls_to_query(answer, src, more).kind \in QueryKinds
  BY DEF calls_to_query, Answered, Listed, Queried, Failed, QueryKinds
<1>7. symbols_to_query(answer, src, more).kind \in QueryKinds
  BY DEF symbols_to_query, Listed, Queried, Failed, QueryKinds
<1> QED
  BY <1>1, <1>2, <1>3, <1>4, <1>5, <1>6, <1>7

Outcomes == {"error", "edit", "query"}

LEMMA KindsAreOutcomes == EditKinds \subseteq Outcomes /\ QueryKinds \subseteq Outcomes
  BY DEF EditKinds, QueryKinds, Outcomes

LEMMA ActionKind ==
  ASSUME NEW session, NEW r, NEW want
  PROVE  code_action(session, r, want).outcome.kind \in EditKinds
<1>1. Failed.kind \in EditKinds /\ \A e : Edited(e).kind \in EditKinds
  BY DEF Failed, Edited, EditKinds
<1>2. ASSUME NEW command PROVE execute_capturing_edit(session, command).kind \in EditKinds
  BY <1>1, EditKind DEF execute_capturing_edit
<1>3. ASSUME NEW chosen PROVE inline_or_resolved(session, r, chosen).outcome.kind \in EditKinds
  BY <1>1, EditKind DEF inline_or_resolved, Done
<1>4. ASSUME NEW chosen PROVE edit_or_command(session, r, chosen).outcome.kind \in EditKinds
  BY <1>1, <1>2, EditKind DEF edit_or_command, Done
<1> QED
  BY <1>1, <1>3, <1>4 DEF code_action, Done, Refused

LEMMA SignatureKind ==
  ASSUME NEW session, NEW r
  PROVE  change_signature(session, r).outcome.kind \in EditKinds
<1>1. Failed.kind \in EditKinds /\ \A e : Edited(e).kind \in EditKinds
  BY DEF Failed, Edited, EditKinds
<1>2. ASSUME NEW answer PROVE EditOf(answer).kind \in EditKinds
  BY <1>1, EditKind DEF EditOf
<1> QED
  BY <1>1, <1>2 DEF change_signature, Done, Refused

LEMMA RunKind ==
  ASSUME NEW id, NEW session, NEW r
  PROVE  run(id, session, r).outcome.kind \in Outcomes
<1>1. Failed.kind \in Outcomes /\ Refused.outcome.kind \in Outcomes
      /\ \A asked_, o : Done(asked_, o).outcome = o
  BY DEF Failed, Refused, Done, Outcomes
<1>2. \A a : to_core_workspace_edit(a).kind \in Outcomes
  BY EditKind, KindsAreOutcomes
<1>3. ASSUME NEW method, NEW with, NEW o, o.kind \in Outcomes
      PROVE  Ask(session, r, method, with, o).outcome.kind \in Outcomes
  BY <1>1, <1>3 DEF Ask
<1>4. ASSUME NEW method, NEW o, o.kind \in Outcomes
      PROVE  AskOfItem(session, r, method, o).outcome.kind \in Outcomes
  BY <1>1, <1>4 DEF AskOfItem
<1>5. rename(session, r).outcome.kind \in Outcomes
  BY <1>1, <1>2, <1>3 DEF rename
<1>6. symbol_search(session, r).outcome.kind \in Outcomes
  BY <1>1, QueryKind, KindsAreOutcomes DEF symbol_search
<1>7. \A method, key : goto_query(session, r, method, key).outcome.kind \in Outcomes
  BY <1>3, QueryKind, KindsAreOutcomes DEF goto_query
<1>8. describe_symbol(session, r).outcome.kind \in Outcomes
  BY <1>3, QueryKind, KindsAreOutcomes DEF describe_symbol
<1>9. file_outline(session, r).outcome.kind \in Outcomes
  BY <1>3, QueryKind, KindsAreOutcomes DEF file_outline
<1>10. prepare_call_hierarchy(session, r).outcome.kind \in Outcomes
  BY <1>3, QueryKind, KindsAreOutcomes DEF prepare_call_hierarchy
<1>11. find_usages(session, r).outcome.kind \in Outcomes
  BY <1>3, QueryKind, KindsAreOutcomes DEF find_usages
<1>12. incoming_calls(session, r).outcome.kind \in Outcomes
  BY <1>4, QueryKind, KindsAreOutcomes DEF incoming_calls, incoming_calls_to_query
<1>13. outgoing_calls(session, r).outcome.kind \in Outcomes
  BY <1>4, QueryKind, KindsAreOutcomes DEF outgoing_calls, outgoing_calls_to_query
<1>14. change_signature(session, r).outcome.kind \in Outcomes
  BY SignatureKind, KindsAreOutcomes
<1>15. move(session, r).outcome.kind \in Outcomes
  <2>1. \A o : o.kind \in Outcomes => relocation(o).kind \in Outcomes
    BY <1>1 DEF relocation
  <2>2. \A a : EditOf(a).kind \in Outcomes
    BY <1>1, <1>2 DEF EditOf, Edited, Outcomes
  <2> QED
    BY <1>1, <2>1, <2>2 DEF move
<1>16. \A want : code_action(session, r, want).outcome.kind \in Outcomes
  BY ActionKind, KindsAreOutcomes
<1> QED
  BY <1>5, <1>6, <1>7, <1>8, <1>9, <1>10, <1>11, <1>12, <1>13, <1>14, <1>15, <1>16 DEF run

-----------------------------------------------------------------------------
(* The invariant.                                                          *)
Pcs     == {"called", "parsed", "validate", "next", "begin", "run", "finish", "answered"}
Replies == {"error", "status", "operations", "result", "preview", "applied"}

Distinct(s) == \A i, j \in DOMAIN s : s[i] = s[j] => i = j

CallInv ==
    /\ script \in Scripts /\ site = Sites[script.site]
    /\ step \in DOMAIN script.requests
    /\ ArgumentsOK(given)

(* Every language that is left has a provider, and none was asked twice.   *)
WorkInv ==
    /\ pc \in Pcs /\ saves \in 0..MaxSaves
    /\ left \in Seq(LanguageSet) /\ \A l \in ToSet(left) : provider_of(l) \in Located
    /\ asked \in Seq(Located) /\ Distinct(asked)
    /\ outcome.kind \in Outcomes /\ reply.kind \in Replies

(* Nobody is asked before the call is directed.                            *)
EarlyInv == pc \in {"called", "parsed", "validate"} => asked = <<>> /\ sent = <<>>

HasParsed ==
    \/ pc \in {"parsed", "validate", "next", "begin", "run", "finish"}
    \/ pc = "answered" /\ reply.kind \in {"result", "preview", "applied"}

(* What was parsed is what the caller gave.                                *)
ReqInv ==
    HasParsed =>
        /\ Candidates # <<>>
        /\ req.descriptor = DescriptorOf
        /\ req.params = operation_params(given)
        /\ req.descriptor.target = "project" => req.target.file = NoFile

Chosen == dispatch_languages(Candidates, req.descriptor, Target.file, route(Request.name, Params))

Of(languages) == {provider_of(l) : l \in ToSet(languages)}

IsDirected ==
    \/ pc \in {"validate", "next", "begin", "run", "finish"}
    \/ pc = "answered" /\ reply.kind = "result"

(* Whom the chosen languages name was asked or still will be.              *)
CoverInv ==
    IsDirected =>
        /\ Chosen # <<>>
        /\ ToSet(asked) \union Of(left) = Of(Chosen)
        /\ pc \in {"begin", "run", "finish"} => asked # <<>>
        /\ pc = "answered" => left = <<>>

(* A change of signature asks its server once.                             *)
SignatureInv ==
    /\ Request.name = "change-signature" /\ pc \notin {"finish", "answered"} => sent = <<>>
    /\ SignatureKeepsTheRest

StatusInv ==
    pc = "answered" /\ reply.kind = "status" =>
        reply.host_path = reverse(parse(site.path_map), Project.root)

WholeInv == CallInv /\ WorkInv /\ EarlyInv /\ ReqInv /\ CoverInv /\ SignatureInv /\ StatusInv

(* What the sites and scripts are, in a call.                              *)
LEMMA CallFacts ==
  ASSUME CallInv
  PROVE  /\ IsPath(Project.root)
         /\ Project.languages \in Seq(LanguageSet)
         /\ parse(site.path_map) \in Seq(Mounts)
         /\ Len(script.requests) \in Nat /\ DOMAIN script.requests = 1..Len(script.requests)
         /\ \A i \in DOMAIN script.requests : ArgumentsOK(script.requests[i].args)
         /\ Candidates \in Seq(LanguageSet)
         /\ ToSet(Candidates) = Having(Request.name, Project.languages)
         /\ Candidates # <<>> =>
              DescriptorOf \in {r.descriptor : r \in {o \in Offers : o.descriptor.id = Request.name}}
<1>1. script \in Scripts /\ script.site \in DOMAIN Sites /\ site = Sites[script.site]
  BY SitesAssumption DEF CallInv
<1>2. IsPath(Project.root) /\ Project.languages \in Seq(LanguageSet)
  BY <1>1, SitesAssumption DEF Project, LanguageSet
<1>3. parse(site.path_map) \in Seq(Mounts)
  <2>1. site.path_map \in Seq([both : BOOLEAN, host : Seq(STRING), container : Seq(STRING)])
    BY <1>1, SitesAssumption
  <2> QED
    BY <2>1, ParsedMounts
<1>4. /\ Len(script.requests) \in Nat /\ DOMAIN script.requests = 1..Len(script.requests)
      /\ \A i \in DOMAIN script.requests : ArgumentsOK(script.requests[i].args)
  BY <1>1, SitesAssumption
<1>5. Candidates \in Seq(LanguageSet) /\ ToSet(Candidates) = Having(Request.name, Project.languages)
  BY <1>2, LanguagesFor DEF Candidates
<1>6. ASSUME Candidates # <<>>
      PROVE  DescriptorOf \in {r.descriptor : r \in {o \in Offers : o.descriptor.id = Request.name}}
  <2>1. Head(Candidates) \in ToSet(Candidates)
    BY <1>5, <1>6 DEF ToSet
  <2>2. Head(Candidates) \in Having(Request.name, Project.languages)
    BY <1>5, <2>1
  <2>3. /\ resolve(Request.name, Head(Candidates)) \in Offers
        /\ Supports(resolve(Request.name, Head(Candidates)), Request.name, Head(Candidates))
    BY <2>2, HavingFacts
  <2> QED
    BY <2>3 DEF DescriptorOf, Supports
<1> QED
  BY <1>2, <1>3, <1>4, <1>5, <1>6

LEMMA ArgsKept ==
  ASSUME NEW request, ArgumentsOK(request.args)
  PROVE  ArgumentsOK(ArgsOf(request))
<1> DEFINE new == [item |-> reply.value["items"].list[request.args["item"].prepared].item]
<1>1. DOMAIN new = {"item"}
  OBVIOUS
<1>2. CASE ~("item" \in DOMAIN request.args /\ "prepared" \in DOMAIN request.args["item"])
  BY <1>2 DEF ArgsOf
<1>3. CASE "item" \in DOMAIN request.args /\ "prepared" \in DOMAIN request.args["item"]
  <2>1. ArgsOf(request) = [request.args EXCEPT !["item"] = new]
    BY <1>3 DEF ArgsOf
  <2> HIDE DEF new
  <2>2. DOMAIN ArgsOf(request) = DOMAIN request.args
        /\ ArgsOf(request)["item"] = new
        /\ \A k \in DOMAIN request.args : k # "item" => ArgsOf(request)[k] = request.args[k]
    BY <1>3, <2>1
  <2>3. {"str", "int", "list"} \intersect DOMAIN new = {}
    BY <1>1
  <2> QED
    BY <2>2, <2>3 DEF ArgumentsOK
<1> QED
  BY <1>2, <1>3

LEMMA DistinctAppend ==
  ASSUME NEW T, NEW s \in Seq(T), Distinct(s), NEW x \in T, x \notin ToSet(s)
  PROVE  /\ Append(s, x) \in Seq(T) /\ Distinct(Append(s, x))
         /\ ToSet(Append(s, x)) = ToSet(s) \union {x} /\ Append(s, x) # <<>>
         /\ Last(Append(s, x)) = x
<1>1. /\ Len(s) \in Nat /\ DOMAIN s = 1..Len(s) /\ Append(s, x) \in Seq(T)
      /\ DOMAIN Append(s, x) = 1..(Len(s) + 1) /\ Len(Append(s, x)) = Len(s) + 1
      /\ \A i \in 1..Len(s) : Append(s, x)[i] = s[i] /\ s[i] # x
      /\ Append(s, x)[Len(s) + 1] = x
  BY DEF ToSet
<1>2. 1..(Len(s) + 1) = (1..Len(s)) \union {Len(s) + 1}
  BY <1>1
<1>3. Distinct(Append(s, x))
  <2> SUFFICES ASSUME NEW i \in 1..(Len(s) + 1), NEW j \in 1..(Len(s) + 1),
                      Append(s, x)[i] = Append(s, x)[j]
               PROVE  i = j
    BY <1>1 DEF Distinct
  <2>1. CASE i \in 1..Len(s) /\ j \in 1..Len(s)
    BY <1>1, <2>1 DEF Distinct
  <2>2. CASE i = Len(s) + 1 \/ j = Len(s) + 1
    <3>1. ~(i \in 1..Len(s)) => i = Len(s) + 1
      BY <1>2
    <3>2. ~(j \in 1..Len(s)) => j = Len(s) + 1
      BY <1>2
    <3> QED
      BY <1>1, <2>2, <3>1, <3>2
  <2> QED
    BY <1>2, <2>1, <2>2
<1>4. ToSet(Append(s, x)) = ToSet(s) \union {x}
  BY <1>1, <1>2 DEF ToSet
<1>5. Append(s, x) # <<>> /\ Last(Append(s, x)) = x
  BY <1>1 DEF Last
<1> QED
  BY <1>1, <1>3, <1>4, <1>5

LEMMA TailMembers ==
  ASSUME NEW T, NEW s \in Seq(T), s # <<>>
  PROVE  Tail(s) \in Seq(T) /\ ToSet(s) = {Head(s)} \union ToSet(Tail(s)) /\ Head(s) \in T
<1>1. /\ Len(s) \in Nat \ {0} /\ DOMAIN s = 1..Len(s) /\ Tail(s) \in Seq(T)
      /\ DOMAIN Tail(s) = 1..(Len(s) - 1) /\ Head(s) = s[1] /\ Head(s) \in T
      /\ \A i \in 1..(Len(s) - 1) : Tail(s)[i] = s[i + 1]
  OBVIOUS
<1>2. \A i \in 1..Len(s) : i = 1 \/ (i - 1 \in 1..(Len(s) - 1) /\ (i - 1) + 1 = i)
  BY <1>1
<1>3. \A i \in 1..(Len(s) - 1) : i + 1 \in 1..Len(s)
  BY <1>1
<1>4. ASSUME NEW y \in ToSet(s) PROVE y \in {Head(s)} \union ToSet(Tail(s))
  <2>1. PICK i \in 1..Len(s) : y = s[i]
    BY <1>1 DEF ToSet
  <2>2. CASE i = 1
    BY <1>1, <2>1, <2>2
  <2>3. CASE i - 1 \in 1..(Len(s) - 1) /\ (i - 1) + 1 = i
    <3>1. y = Tail(s)[i - 1]
      BY <1>1, <2>1, <2>3
    <3> QED
      BY <1>1, <2>3, <3>1 DEF ToSet
  <2> QED
    BY <1>2, <2>2, <2>3
<1>5. ASSUME NEW y \in ToSet(Tail(s)) PROVE y \in ToSet(s)
  BY <1>1, <1>3 DEF ToSet
<1>6. Head(s) \in ToSet(s)
  BY <1>1 DEF ToSet
<1> QED
  BY <1>1, <1>4, <1>5, <1>6

-----------------------------------------------------------------------------
(* The invariant holds in the first state, and every step keeps it.        *)
LEMMA InitWhole == Init => WholeInv
<1> SUFFICES ASSUME Init PROVE WholeInv
  OBVIOUS
<1>1. pc = "called" /\ left = <<>> /\ asked = <<>> /\ sent = <<>> /\ saves = 0
      /\ reply = Error /\ outcome = Failed
  BY DEF Init
<1>2. CallInv
  <2>1. script \in Scripts /\ site = Sites[script.site] /\ step = 1
        /\ given = script.requests[1].args
    BY DEF Init
  <2>2. Len(script.requests) \in Nat \ {0} /\ DOMAIN script.requests = 1..Len(script.requests)
        /\ \A i \in DOMAIN script.requests : ArgumentsOK(script.requests[i].args)
    BY <2>1, SitesAssumption
  <2> QED
    BY <2>1, <2>2 DEF CallInv
<1>3. WorkInv
  <2>1. MaxSaves \in Nat
    BY SitesAssumption
  <2>2. ToSet(<<>>) = {} /\ Distinct(<<>>)
    BY DEF ToSet, Distinct
  <2> QED
    BY <1>1, <2>1, <2>2 DEF WorkInv, Pcs, Outcomes, Replies, Error, Failed
<1>4. EarlyInv /\ ReqInv /\ CoverInv /\ StatusInv
  BY <1>1 DEF EarlyInv, ReqInv, HasParsed, CoverInv, IsDirected, StatusInv
<1>5. SignatureInv
  BY <1>1 DEF SignatureInv, SignatureKeepsTheRest
<1> QED
  BY <1>2, <1>3, <1>4, <1>5 DEF WholeInv

LEMMA CallKept ==
  ASSUME CallInv, [Next]_vars
  PROVE  CallInv'
<1>1. UNCHANGED call \/ NextRequest
  BY DEF vars, Next, CallSteps, ProjectStatus, ListOperations, ParseCall, Dispatch,
         ValidateExpectation, SkipLanguage, NextLanguage, BeginRequest, RunOperation, Merge,
         FinishEdit, OthersSave, call
<1>2. CASE UNCHANGED call
  BY <1>2 DEF CallInv, call
<1>3. CASE NextRequest
  <2>1. /\ script' = script /\ site' = site /\ step' = step + 1
        /\ given' = ArgsOf(script.requests[step + 1]) /\ step < Len(script.requests)
    BY <1>3 DEF NextRequest, Fresh
  <2>2. step + 1 \in DOMAIN script.requests
    BY <2>1, CallFacts DEF CallInv
  <2>3. ArgumentsOK(given')
    BY <2>1, <2>2, CallFacts, ArgsKept
  <2> QED
    BY <2>1, <2>2, <2>3 DEF CallInv
<1> QED
  BY <1>1, <1>2, <1>3

(* What a call is directed to.                                             *)
LEMMA ChosenFacts ==
  ASSUME CallInv, Candidates # <<>>
  PROVE  /\ Chooses(Candidates, req.descriptor, Target.file, route(Request.name, Params), Chosen)
         /\ Chosen \in Seq(LanguageSet) /\ ToSet(Chosen) \subseteq ToSet(Candidates)
         /\ \A l \in ToSet(Chosen) : provider_of(l) \in Located
         /\ Request.name = "change-signature" =>
              \A l \in ToSet(Chosen) : provider_of(l) = "jdtls"
<1>1. Candidates \in Seq(LanguageSet)
      /\ ToSet(Candidates) = Having(Request.name, Project.languages)
  BY CallFacts
<1>2. Chooses(Candidates, req.descriptor, Target.file, route(Request.name, Params), Chosen)
  BY <1>1, DispatchLanguages DEF Chosen
<1>3. Chosen \in Seq(LanguageSet) /\ ToSet(Chosen) \subseteq ToSet(Candidates)
  BY <1>2 DEF Chooses
<1>4. \A l \in ToSet(Chosen) : l \in Having(Request.name, Project.languages)
  BY <1>1, <1>3
<1> QED
  BY <1>2, <1>3, <1>4, HavingFacts, SignedLanguages

LEMMA DispatchDirects ==
  ASSUME Dispatch
  PROVE  \/ pc' = "answered" /\ reply' = Error /\ UNCHANGED left
         \/ pc' = "validate" /\ left' = Chosen /\ Chosen # <<>> /\ UNCHANGED reply
<1>1. Direct(Chosen, resolve_workspace(given, Target.file))
  BY DEF Dispatch, Chosen
<1> QED
  BY <1>1 DEF Direct, Answer

LEMMA RunTakes ==
  ASSUME RunOperation
  PROVE  /\ outcome' = Ran.outcome /\ outcome'.kind \in Outcomes /\ sent' = sent \o Ran.asked
         /\ \/ outcome'.kind = "error" /\ pc' = "answered" /\ reply' = Error
            \/ outcome'.kind = "query" /\ pc' = "next" /\ UNCHANGED reply
            \/ outcome'.kind = "edit" /\ pc' = "finish" /\ UNCHANGED reply
         /\ UNCHANGED <<call, req, left, asked, saves>>
<1>1. Took(Ran) /\ UNCHANGED <<call, req, left, asked, saves>>
  BY DEF RunOperation
<1>2. Ran.outcome.kind \in Outcomes
  BY RunKind DEF Ran
<1>3. outcome' = Ran.outcome /\ sent' = sent \o Ran.asked
  BY <1>1 DEF Took
<1>4. \/ Ran.outcome.kind = "error" /\ pc' = "answered" /\ reply' = Error
      \/ Ran.outcome.kind = "query" /\ pc' = "next" /\ UNCHANGED reply
      \/ Ran.outcome.kind = "edit" /\ pc' = "finish" /\ UNCHANGED reply
  BY <1>1, <1>2 DEF Took, Answer, Outcomes
<1> QED
  BY <1>1, <1>2, <1>3, <1>4

LEMMA FinishAnswers ==
  ASSUME FinishEdit
  PROVE  pc = "finish" /\ pc' = "answered" /\ reply'.kind \in {"error", "preview", "applied"}
<1>1. Land(Landing) /\ pc = "finish"
  BY DEF FinishEdit
<1> QED
  BY <1>1 DEF Land, Applied, Answer, Error

LEMMA WorkKept ==
  ASSUME CallInv, ReqInv, WorkInv, [Next]_vars
  PROVE  WorkInv'
<1>1. CASE UNCHANGED vars
  BY <1>1 DEF WorkInv, vars, work
<1>2. CASE \/ ProjectStatus \/ ListOperations \/ ParseCall \/ ValidateExpectation
           \/ BeginRequest \/ Merge \/ FinishEdit
  <2>1. UNCHANGED <<left, asked, outcome, saves>>
    BY <1>2 DEF ProjectStatus, ListOperations, ParseCall, ValidateExpectation, BeginRequest, Merge,
                FinishEdit, work
  <2>2. pc' \in Pcs /\ reply'.kind \in Replies
    <3>1. CASE FinishEdit
      BY <3>1, FinishAnswers DEF Pcs, Replies
    <3>2. CASE ProjectStatus
      BY <3>2 DEF ProjectStatus, Answer, project_status, Status, Error, Pcs, Replies
    <3>3. CASE ListOperations
      BY <3>3 DEF ListOperations, Answer, Error, Pcs, Replies
    <3>4. CASE ParseCall
      BY <3>4 DEF ParseCall, Parse, Answer, Error, Pcs, Replies, WorkInv
    <3>5. CASE ValidateExpectation
      BY <3>5 DEF ValidateExpectation, Answer, Error, Pcs, Replies, WorkInv
    <3>6. CASE BeginRequest
      BY <3>6 DEF BeginRequest, Pcs, Replies, WorkInv
    <3>7. CASE Merge
      BY <3>7 DEF Merge, Answer, Pcs, Replies
    <3> QED
      BY <1>2, <3>1, <3>2, <3>3, <3>4, <3>5, <3>6, <3>7
  <2> QED
    BY <2>1, <2>2 DEF WorkInv
<1>3. CASE Dispatch
  <2>1. UNCHANGED <<asked, outcome, saves>> /\ pc = "parsed"
    BY <1>3 DEF Dispatch
  <2>2. Candidates # <<>>
    BY <2>1 DEF ReqInv, HasParsed
  <2>3. CASE pc' = "answered" /\ reply' = Error /\ UNCHANGED left
    BY <2>1, <2>3 DEF WorkInv, Pcs, Replies, Error
  <2>4. CASE pc' = "validate" /\ left' = Chosen /\ UNCHANGED reply
    BY <2>1, <2>2, <2>4, ChosenFacts DEF WorkInv, Pcs
  <2> QED
    BY <1>3, <2>3, <2>4, DispatchDirects
<1>4. CASE SkipLanguage
  <2>1. left # <<>> /\ left' = Tail(left) /\ UNCHANGED <<pc, asked, outcome, reply, saves>>
    BY <1>4 DEF SkipLanguage
  <2>2. left' \in Seq(LanguageSet) /\ ToSet(left') \subseteq ToSet(left)
    BY <2>1, TailMembers DEF WorkInv
  <2> QED
    BY <2>1, <2>2 DEF WorkInv
<1>5. CASE NextLanguage
  <2>1. /\ left # <<>> /\ left' = Tail(left) /\ UNCHANGED <<outcome, saves>>
        /\ provider_of(Head(left)) \notin ToSet(asked)
        /\ asked' = Append(asked, provider_of(Head(left)))
        /\ pc' \in Pcs /\ reply'.kind \in Replies
    BY <1>5 DEF NextLanguage, WasAsked, Answer, Error, Pcs, Replies, WorkInv
  <2>2. left' \in Seq(LanguageSet) /\ ToSet(left') \subseteq ToSet(left) /\ Head(left) \in ToSet(left)
    BY <2>1, TailMembers DEF WorkInv
  <2>3. provider_of(Head(left)) \in Located
    BY <2>2 DEF WorkInv
  <2>4. asked' \in Seq(Located) /\ Distinct(asked')
    BY <2>1, <2>3, DistinctAppend DEF WorkInv
  <2> QED
    BY <2>1, <2>2, <2>4 DEF WorkInv
<1>6. CASE RunOperation
  <2>1. UNCHANGED <<left, asked, saves>> /\ outcome'.kind \in Outcomes
        /\ pc' \in Pcs /\ reply'.kind \in Replies
    BY <1>6, RunTakes DEF WorkInv, Pcs, Replies, Error
  <2> QED
    BY <2>1 DEF WorkInv
<1>7. CASE NextRequest
  <2>1. left' = <<>> /\ asked' = <<>> /\ outcome' = Failed /\ pc' = "called"
        /\ UNCHANGED <<reply, saves>>
    BY <1>7 DEF NextRequest, Fresh
  <2>2. ToSet(<<>>) = {} /\ Distinct(<<>>)
    BY DEF ToSet, Distinct
  <2> QED
    BY <2>1, <2>2 DEF WorkInv, Pcs, Outcomes, Failed
<1>8. CASE OthersSave
  <2>1. saves < MaxSaves /\ saves' = saves + 1 /\ UNCHANGED <<pc, left, asked, outcome, reply>>
    BY <1>8 DEF OthersSave, work
  <2>2. saves' \in 0..MaxSaves
    BY <2>1, SitesAssumption DEF WorkInv
  <2> QED
    BY <2>1, <2>2 DEF WorkInv
<1> QED
  BY <1>1, <1>2, <1>3, <1>4, <1>5, <1>6, <1>7, <1>8 DEF Next, CallSteps

LEMMA EarlyKept ==
  ASSUME EarlyInv, [Next]_vars
  PROVE  EarlyInv'
<1>1. CASE UNCHANGED vars
  BY <1>1 DEF EarlyInv, vars, work
<1>2. CASE \/ ProjectStatus \/ ListOperations \/ ParseCall \/ Dispatch \/ ValidateExpectation
           \/ Merge \/ FinishEdit \/ OthersSave
  <2>1. UNCHANGED <<asked, sent>>
    BY <1>2 DEF ProjectStatus, ListOperations, ParseCall, Dispatch, ValidateExpectation, Merge,
                FinishEdit, OthersSave, work
  <2>2. pc \in {"called", "parsed", "validate"} \/ pc' = "answered" \/ pc' = pc
    BY <1>2 DEF ProjectStatus, ListOperations, ParseCall, Dispatch, ValidateExpectation, Merge,
                FinishEdit, Land, Applied, OthersSave, Answer
  <2> QED
    BY <2>1, <2>2 DEF EarlyInv
<1>3. CASE NextRequest
  BY <1>3 DEF NextRequest, Fresh, EarlyInv
<1>4. CASE SkipLanguage \/ NextLanguage \/ BeginRequest
  BY <1>4 DEF SkipLanguage, NextLanguage, BeginRequest, Answer, EarlyInv
<1>5. CASE RunOperation
  BY <1>5, RunTakes DEF EarlyInv
<1> QED
  BY <1>1, <1>2, <1>3, <1>4, <1>5 DEF Next, CallSteps

LEMMA ParsesWhatIsGiven ==
  ASSUME ParseCall
  PROVE  \/ pc' = "answered" /\ reply' = Error
         \/ /\ Candidates # <<>> /\ req'.descriptor = DescriptorOf
            /\ req'.params = operation_params(given)
            /\ DescriptorOf.target = "project" => req'.target.file = NoFile
<1>1. CASE ~Known("project") \/ Candidates = <<>>
  BY <1>1 DEF ParseCall, Answer
<1>2. CASE ~(~Known("project") \/ Candidates = <<>>)
  <2>1. Parse(DescriptorOf)
    BY <1>2 DEF ParseCall
  <2>2. CASE ~CanParse(given, DescriptorOf.target)
    BY <2>1, <2>2 DEF Parse, Answer
  <2>3. CASE CanParse(given, DescriptorOf.target)
    <3> DEFINE parsed == parse_target(given, DescriptorOf.target)
    <3>1. /\ req'.descriptor = DescriptorOf /\ req'.params = operation_params(given)
          /\ req'.target = remap_target_file(parse(site.path_map), parsed)
      BY <2>1, <2>3 DEF Parse
    <3>2. ASSUME DescriptorOf.target = "project" PROVE req'.target.file = NoFile
      <4>1. parsed.file = NoFile
        BY <3>2 DEF parse_target
      <4>2. ~IsAbsolute(NoFile)
        BY DEF IsAbsolute, NoFile
      <4>3. remap_target_file(parse(site.path_map), parsed) = parsed
        BY <4>1, <4>2 DEF remap_target_file
      <4> QED
        BY <3>1, <4>1, <4>3
    <3> QED
      BY <1>2, <3>1, <3>2
  <2> QED
    BY <2>2, <2>3
<1> QED
  BY <1>1, <1>2

LEMMA ReqKept ==
  ASSUME WorkInv, ReqInv, [Next]_vars
  PROVE  ReqInv'
<1> USE DEF ReqInv
<1>1. CASE UNCHANGED vars
  BY <1>1 DEF HasParsed, Candidates, DescriptorOf, Request, Project, vars, call, work
<1>2. CASE ProjectStatus \/ ListOperations
  <2>1. pc' = "answered" /\ reply'.kind \in {"error", "status", "operations"}
    BY <1>2 DEF ProjectStatus, ListOperations, Answer, project_status, Status, Error
  <2> QED
    BY <2>1 DEF HasParsed
<1>3. CASE ParseCall
  <2>1. UNCHANGED call
    BY <1>3 DEF ParseCall
  <2>2. CASE pc' = "answered" /\ reply' = Error
    BY <2>2 DEF HasParsed, Error
  <2>3. CASE /\ Candidates # <<>> /\ req'.descriptor = DescriptorOf
             /\ req'.params = operation_params(given)
             /\ DescriptorOf.target = "project" => req'.target.file = NoFile
    BY <2>1, <2>3 DEF Candidates, DescriptorOf, Request, Project, call
  <2> QED
    BY <1>3, <2>2, <2>3, ParsesWhatIsGiven
<1>4. CASE \/ Dispatch \/ ValidateExpectation \/ SkipLanguage \/ NextLanguage \/ BeginRequest
           \/ RunOperation \/ Merge \/ FinishEdit
  <2>1. UNCHANGED <<call, req>> /\ HasParsed
    BY <1>4 DEF Dispatch, ValidateExpectation, SkipLanguage, NextLanguage, BeginRequest,
                RunOperation, Merge, FinishEdit, work, HasParsed
  <2> QED
    BY <2>1 DEF Candidates, DescriptorOf, Request, Project, call
<1>5. CASE NextRequest
  BY <1>5 DEF NextRequest, Fresh, HasParsed
<1>6. CASE OthersSave
  <2>1. UNCHANGED <<call, req, pc, reply>>
    BY <1>6 DEF OthersSave, work
  <2> QED
    BY <2>1 DEF HasParsed, Candidates, DescriptorOf, Request, Project, call
<1> QED
  BY <1>1, <1>2, <1>3, <1>4, <1>5, <1>6 DEF Next, CallSteps

LEMMA ChosenStays ==
  ASSUME UNCHANGED <<call, req>>
  PROVE  Chosen' = Chosen
  BY DEF Chosen, Candidates, Target, Params, Request, Project, call

LEMMA ParseUndirects ==
  ASSUME ParseCall
  PROVE  pc' = "parsed" \/ (pc' = "answered" /\ reply' = Error)
  BY DEF ParseCall, Parse, Answer

LEMMA CoverKept ==
  ASSUME CallInv, WorkInv, EarlyInv, ReqInv, CoverInv, [Next]_vars
  PROVE  CoverInv'
<1>1. CASE UNCHANGED vars
  <2>1. UNCHANGED <<call, req, pc, reply, asked, left>>
    BY <1>1 DEF vars, work
  <2> QED
    BY <2>1, ChosenStays DEF CoverInv, IsDirected, Of
<1>2. CASE ProjectStatus \/ ListOperations \/ ParseCall \/ FinishEdit \/ NextRequest
  <2>1. ~IsDirected'
    <3>1. CASE FinishEdit
      BY <3>1, FinishAnswers DEF IsDirected
    <3>2. CASE ParseCall
      BY <3>2, ParseUndirects DEF IsDirected, Error
    <3>3. CASE ProjectStatus \/ ListOperations \/ NextRequest
      BY <3>3 DEF ProjectStatus, ListOperations, NextRequest, Fresh, Answer, project_status, Status,
                  Error, IsDirected
    <3> QED
      BY <1>2, <3>1, <3>2, <3>3
  <2> QED
    BY <2>1 DEF CoverInv
<1>3. CASE Dispatch
  <2>1. UNCHANGED <<call, req, asked>> /\ pc = "parsed"
    BY <1>3 DEF Dispatch
  <2>2. CASE pc' = "answered" /\ reply' = Error
    BY <2>2 DEF CoverInv, IsDirected, Error
  <2>3. CASE pc' = "validate" /\ left' = Chosen /\ Chosen # <<>>
    <3>1. asked' = <<>> /\ ToSet(asked') = {}
      BY <2>1 DEF EarlyInv, ToSet
    <3>2. Chosen' = Chosen
      BY <2>1, ChosenStays
    <3> QED
      BY <2>3, <3>1, <3>2 DEF CoverInv, Of
  <2> QED
    BY <1>3, <2>2, <2>3, DispatchDirects
<1>4. CASE ValidateExpectation
  <2>1. UNCHANGED <<call, req, asked, left>> /\ pc = "validate"
        /\ (pc' = "next" \/ (pc' = "answered" /\ reply' = Error))
    BY <1>4 DEF ValidateExpectation, Answer, work
  <2> QED
    BY <2>1, ChosenStays DEF CoverInv, IsDirected, Of, Error
<1>5. CASE SkipLanguage
  <2>1. /\ pc = "next" /\ left # <<>> /\ provider_of(Head(left)) \in ToSet(asked)
        /\ left' = Tail(left) /\ UNCHANGED <<call, pc, req, asked, reply>>
    BY <1>5 DEF SkipLanguage, WasAsked
  <2>2. Of(left) = {provider_of(Head(left))} \union Of(left')
    BY <2>1, TailMembers DEF WorkInv, Of
  <2>3. ToSet(asked) \union Of(left') = ToSet(asked) \union Of(left)
    BY <2>1, <2>2
  <2>4. Of(Chosen') = Of(Chosen) /\ Of(left)' = Of(left')
    BY <2>1, ChosenStays DEF Of
  <2>5. /\ Chosen # <<>> /\ ToSet(asked) \union Of(left) = Of(Chosen)
    BY <2>1 DEF CoverInv, IsDirected
  <2> QED
    BY <2>1, <2>3, <2>4, <2>5, ChosenStays DEF CoverInv, Of
<1>6. CASE NextLanguage
  <2>1. /\ pc = "next" /\ left # <<>> /\ provider_of(Head(left)) \notin ToSet(asked)
        /\ left' = Tail(left) /\ asked' = Append(asked, provider_of(Head(left)))
        /\ UNCHANGED <<call, req>>
        /\ (pc' = "begin" \/ (pc' = "answered" /\ reply' = Error))
    BY <1>6 DEF NextLanguage, WasAsked, Answer
  <2>2. Of(left) = {provider_of(Head(left))} \union Of(left') /\ Head(left) \in ToSet(left)
    BY <2>1, TailMembers DEF WorkInv, Of
  <2>3. provider_of(Head(left)) \in Located
    BY <2>2 DEF WorkInv
  <2>4. ToSet(asked') = ToSet(asked) \union {provider_of(Head(left))} /\ asked' # <<>>
    BY <2>1, <2>3, DistinctAppend DEF WorkInv
  <2>5. ToSet(asked') \union Of(left') = ToSet(asked) \union Of(left)
    BY <2>2, <2>4
  <2>6. Chosen # <<>> /\ ToSet(asked) \union Of(left) = Of(Chosen)
    BY <2>1 DEF CoverInv, IsDirected
  <2>7. Chosen' = Chosen
    BY <2>1, ChosenStays
  <2>8. CASE pc' = "begin"
    BY <2>4, <2>5, <2>6, <2>7, <2>8 DEF CoverInv, Of
  <2>9. CASE pc' = "answered" /\ reply' = Error
    BY <2>9 DEF CoverInv, IsDirected, Error
  <2> QED
    BY <2>1, <2>8, <2>9
<1>7. CASE BeginRequest
  <2>1. UNCHANGED <<call, req, asked, left>> /\ pc = "begin" /\ pc' = "run"
    BY <1>7 DEF BeginRequest
  <2> QED
    BY <2>1, ChosenStays DEF CoverInv, IsDirected, Of
<1>8. CASE RunOperation
  <2>1. /\ UNCHANGED <<call, req, asked, left>> /\ pc = "run"
        /\ pc' \in {"next", "finish"} \/ (pc' = "answered" /\ reply' = Error)
    BY <1>8, RunTakes DEF RunOperation
  <2> QED
    BY <2>1, ChosenStays DEF CoverInv, IsDirected, Of, Error
<1>9. CASE Merge
  <2>1. UNCHANGED <<call, req, asked, left>> /\ pc = "next" /\ pc' = "answered" /\ left = <<>>
    BY <1>9 DEF Merge, Answer, work
  <2> QED
    BY <2>1, ChosenStays DEF CoverInv, IsDirected, Of
<1>10. CASE OthersSave
  <2>1. UNCHANGED <<call, req, pc, reply, asked, left>>
    BY <1>10 DEF OthersSave, work
  <2> QED
    BY <2>1, ChosenStays DEF CoverInv, IsDirected, Of
<1> QED
  BY <1>1, <1>2, <1>3, <1>4, <1>5, <1>6, <1>7, <1>8, <1>9, <1>10 DEF Next, CallSteps

LEMMA StatusKept ==
  ASSUME StatusInv, [Next]_vars
  PROVE  StatusInv'
<1>1. CASE ProjectStatus
  <2>1. UNCHANGED call /\ (reply' = Error \/ reply' = project_status(Project))
    BY <1>1 DEF ProjectStatus, Answer
  <2>2. project_status(Project).host_path = reverse(parse(site.path_map), Project.root)
    BY DEF project_status, Status
  <2> QED
    BY <2>1, <2>2 DEF StatusInv, Error, Project, call
<1>2. CASE \/ ListOperations \/ ParseCall \/ Dispatch \/ ValidateExpectation \/ SkipLanguage
           \/ NextLanguage \/ BeginRequest \/ Merge
  BY <1>2, ParseUndirects, DispatchDirects
     DEF StatusInv, ListOperations, Answer, Error, ValidateExpectation, SkipLanguage,
         NextLanguage, BeginRequest, Merge
<1>3. CASE RunOperation
  BY <1>3, RunTakes DEF StatusInv, Error
<1>4. CASE FinishEdit
  BY <1>4, FinishAnswers DEF StatusInv
<1>5. CASE NextRequest
  BY <1>5 DEF NextRequest, Fresh, StatusInv
<1>6. CASE OthersSave \/ UNCHANGED vars
  BY <1>6 DEF OthersSave, vars, work, call, StatusInv, Project
<1> QED
  BY <1>1, <1>2, <1>3, <1>4, <1>5, <1>6 DEF Next, CallSteps

-----------------------------------------------------------------------------
(* A change of signature.                                                  *)
Keeps(args, info, want) ==
    /\ \A k \in {"name", "modifier", "return_type", "parameters"} \ DOMAIN args : want[k] = info[k]
    /\ Has(args, "parameters", "list") =>
        \A i \in DOMAIN want.parameters :
            args["parameters"].list[i].original_index = NoIndex =>
                want.parameters[i].original_index < 0

LEMMA SignatureKeeps ==
  ASSUME NEW args, ArgumentsOK(args), NEW info
  PROVE  Keeps(args, info, Signature(operation_params(args), info))
<1> DEFINE params == operation_params(args)
           want   == Signature(params, info)
<1>1. /\ DOMAIN params = DOMAIN args \ ENVELOPE_KEYS
      /\ \A k \in DOMAIN params : params[k] = args[k]
  BY DEF operation_params
<1>2. /\ want.name = OrCurrent(params, "name", info.name)
      /\ want.modifier = OrCurrent(params, "modifier", info.modifier)
      /\ want.return_type = OrCurrent(params, "return_type", info.return_type)
      /\ want.parameters = IF "parameters" \in DOMAIN params
                           THEN normalize_parameters(params["parameters"]) ELSE info.parameters
  BY DEF Signature
<1> HIDE DEF want, params
<1>3. ASSUME NEW k \in {"name", "modifier", "return_type", "parameters"}, k \notin DOMAIN args
      PROVE  want[k] = info[k]
  <2>1. k \notin DOMAIN params
    BY <1>1, <1>3
  <2> QED
    BY <1>2, <1>3, <2>1 DEF OrCurrent
<1>4. ASSUME Has(args, "parameters", "list"), NEW i \in DOMAIN want.parameters,
             args["parameters"].list[i].original_index = NoIndex
      PROVE  want.parameters[i].original_index < 0
  <2> DEFINE list == args["parameters"].list
  <2>1. "parameters" \in DOMAIN params /\ params["parameters"] = args["parameters"]
        /\ "list" \in DOMAIN args["parameters"] /\ "parameters" \in DOMAIN args
    BY <1>1, <1>4 DEF Has, ENVELOPE_KEYS
  <2>2. want.parameters = normalize_parameters(args["parameters"])
    BY <1>2, <2>1
  <2>3. want.parameters = [j \in DOMAIN list |->
            [list[j] EXCEPT !.original_index = IF @ = NoIndex THEN -1 ELSE @]]
    BY <2>1, <2>2 DEF normalize_parameters
  <2>4. i \in DOMAIN list /\ "original_index" \in DOMAIN list[i]
    BY <1>4, <2>1, <2>3 DEF ArgumentsOK
  <2> HIDE DEF list
  <2>5. want.parameters[i] = [list[i] EXCEPT !.original_index = IF @ = NoIndex THEN -1 ELSE @]
    BY <2>3, <2>4
  <2>6. list[i].original_index = NoIndex
    BY <1>4 DEF list
  <2>7. want.parameters[i].original_index = -1
    BY <2>4, <2>5, <2>6
  <2> QED
    BY <2>7
<1>5. Keeps(args, info, want)
  BY <1>3, <1>4 DEF Keeps
<1> QED
  BY <1>5 DEF want, params

InfoOf(session) == Reply(session, "henka.mcp.getChangeSignatureInfo")

Asks(session, r, sends) ==
    \/ sends = <<>>
    \/ \E x : sends = <<x>>
    \/ \E x, y : /\ sends = <<x, y>> /\ y.with = Signature(r.params, InfoOf(session).value)
                 /\ InfoOf(session).type = "ok"

LEMMA Paired ==
  ASSUME NEW x, NEW y
  PROVE  Append(<<x>>, y) = <<x, y>>
<1> DEFINE T == {x, y}
<1>1. <<x>> \in Seq(T) /\ <<x, y>> \in Seq(T) /\ y \in T
  OBVIOUS
<1>2. /\ Append(<<x>>, y) \in Seq(T) /\ Len(Append(<<x>>, y)) = 2
      /\ Append(<<x>>, y)[1] = x /\ Append(<<x>>, y)[2] = y
  BY <1>1
<1>3. Len(<<x, y>>) = 2 /\ <<x, y>>[1] = x /\ <<x, y>>[2] = y
  OBVIOUS
<1>4. \A i \in 1..2 : Append(<<x>>, y)[i] = <<x, y>>[i]
  <2>1. \A i \in 1..2 : i = 1 \/ i = 2
    OBVIOUS
  <2> QED
    BY <1>2, <1>3, <2>1
<1> HIDE DEF T
<1> QED
  BY <1>1, <1>2, <1>3, <1>4, SeqEqual

LEMMA SignatureAsks ==
  ASSUME NEW session, NEW r
  PROVE  Asks(session, r, change_signature(session, r).asked)
<1> DEFINE want == Signature(r.params, InfoOf(session).value)
           x    == [method |-> "henka.mcp.getChangeSignatureInfo", with |-> [pos |-> r.target.start]]
           y    == [method |-> "henka.mcp.getRefactorEdit", with |-> want]
<1>1. CASE ~CanOpen(session, r.target.file)
  BY <1>1 DEF change_signature, Refused, Done, Asks
<1>2. CASE CanOpen(session, r.target.file) /\ (InfoOf(session).type # "ok" \/ Told(InfoOf(session))
                                               \/ ~InfoOf(session).value.has_method)
  <2>1. change_signature(session, r).asked = <<x>>
    BY <1>2 DEF change_signature, Done, InfoOf
  <2> QED
    BY <2>1 DEF Asks
<1>3. CASE CanOpen(session, r.target.file) /\ ~(InfoOf(session).type # "ok" \/ Told(InfoOf(session))
                                                \/ ~InfoOf(session).value.has_method)
  <2>1. change_signature(session, r).asked = Append(<<x>>, y)
    BY <1>3 DEF change_signature, Done, InfoOf
  <2>2. y.with = want
    OBVIOUS
  <2> HIDE DEF x, y
  <2>3. Append(<<x>>, y) = <<x, y>>
    BY Paired
  <2> HIDE DEF want
  <2> QED
    BY <1>3, <2>1, <2>2, <2>3 DEF Asks, want
<1> QED
  BY <1>1, <1>2, <1>3

LEMMA SignatureOnce ==
  ASSUME CallInv, WorkInv, EarlyInv, ReqInv, CoverInv, SignatureInv, RunOperation,
         Request.name = "change-signature"
  PROVE  /\ pc' \in {"finish", "answered"}
         /\ Len(sent') = 2 =>
              Keeps(given, site.answers["jdtls"]["henka.mcp.getChangeSignatureInfo"].value,
                    Last(sent').with)
<1> DEFINE r == [target |-> Target, params |-> Params]
<1>1. pc = "run" /\ Ran = change_signature(Session, r)
  BY DEF RunOperation, Ran, run
<1>2. pc' \in {"finish", "answered"}
  <2>1. Ran.outcome.kind \in EditKinds
    BY <1>1, SignatureKind
  <2> QED
    BY <2>1, RunTakes DEF EditKinds
<1>3. Provider = "jdtls"
  <2>1. Candidates # <<>> /\ asked # <<>> /\ ToSet(asked) \subseteq Of(Chosen)
    BY <1>1 DEF ReqInv, HasParsed, CoverInv, IsDirected
  <2>2. \A p \in ToSet(asked) : p = "jdtls"
    BY <2>1, ChosenFacts DEF Of
  <2>3. Last(asked) \in ToSet(asked)
    BY <2>1 DEF WorkInv, Last, ToSet
  <2> QED
    BY <2>2, <2>3 DEF Provider
<1>4. Session.answers = site.answers["jdtls"]
  BY <1>3 DEF Session, AnswersOf
<1>5. r.params = operation_params(given)
  BY <1>1 DEF ReqInv, HasParsed, Params
<1>6. sent = <<>>
  BY <1>1 DEF SignatureInv
<1>7. Asks(Session, r, Ran.asked)
  BY <1>1, SignatureAsks
<1> HIDE DEF r
<1>8. CASE Ran.asked = <<>>
  <2>1. sent' = <<>>
    BY <1>6, <1>8, RunTakes
  <2> QED
    BY <1>2, <2>1
<1>9. CASE \E x : Ran.asked = <<x>>
  <2>1. PICK x : Ran.asked = <<x>>
    BY <1>9
  <2>2. sent' = <<>> \o <<x>>
    BY <1>6, <2>1, RunTakes
  <2>3. Len(<<>> \o <<x>>) = 1
    OBVIOUS
  <2> QED
    BY <1>2, <2>2, <2>3
<1>10. CASE \E x, y : /\ Ran.asked = <<x, y>>
                      /\ y.with = Signature(r.params, InfoOf(Session).value)
                      /\ InfoOf(Session).type = "ok"
  <2>1. PICK x, y : /\ Ran.asked = <<x, y>>
                    /\ y.with = Signature(r.params, InfoOf(Session).value)
                    /\ InfoOf(Session).type = "ok"
    BY <1>10
  <2>2. sent' = <<>> \o <<x, y>>
    BY <1>6, <2>1, RunTakes
  <2>3. Last(<<>> \o <<x, y>>) = y
    BY DEF Last
  <2>4. InfoOf(Session) = site.answers["jdtls"]["henka.mcp.getChangeSignatureInfo"]
    BY <1>4, <2>1 DEF InfoOf, Reply
  <2>5. Keeps(given, InfoOf(Session).value, Signature(operation_params(given), InfoOf(Session).value))
    BY SignatureKeeps DEF CallInv
  <2> QED
    BY <1>2, <1>5, <2>1, <2>2, <2>3, <2>4, <2>5
<1> QED
  BY <1>7, <1>8, <1>9, <1>10 DEF Asks

LEMMA SignatureKept ==
  ASSUME CallInv, WorkInv, EarlyInv, ReqInv, CoverInv, SignatureInv, [Next]_vars
  PROVE  SignatureInv'
<1>1. CASE RunOperation
  <2>1. UNCHANGED call
    BY <1>1 DEF RunOperation
  <2>2. CASE Request.name # "change-signature"
    BY <2>1, <2>2 DEF SignatureInv, SignatureKeepsTheRest, Request, call
  <2>3. CASE Request.name = "change-signature"
    <3>1. /\ pc' \in {"finish", "answered"}
          /\ Len(sent') = 2 =>
               Keeps(given, site.answers["jdtls"]["henka.mcp.getChangeSignatureInfo"].value,
                     Last(sent').with)
      BY <1>1, <2>3, SignatureOnce
    <3> QED
      BY <2>1, <3>1 DEF SignatureInv, SignatureKeepsTheRest, Keeps, call
  <2> QED
    BY <2>2, <2>3
<1>2. CASE NextRequest
  BY <1>2 DEF NextRequest, Fresh, SignatureInv, SignatureKeepsTheRest
<1>3. CASE \/ ProjectStatus \/ ListOperations \/ ParseCall \/ Dispatch \/ ValidateExpectation
           \/ SkipLanguage \/ NextLanguage \/ BeginRequest \/ Merge \/ FinishEdit \/ OthersSave
           \/ UNCHANGED vars
  <2>1. UNCHANGED <<call, sent>>
    BY <1>3 DEF ProjectStatus, ListOperations, ParseCall, Dispatch, ValidateExpectation,
                SkipLanguage, NextLanguage, BeginRequest, Merge, FinishEdit, OthersSave, vars, work
  <2>2. pc \in {"finish", "answered"} => pc' \in {"finish", "answered"}
    BY <1>3 DEF ProjectStatus, ListOperations, ParseCall, Dispatch, ValidateExpectation,
                SkipLanguage, NextLanguage, BeginRequest, Merge, FinishEdit, Land, Applied, Answer,
                OthersSave, vars
  <2> QED
    BY <2>1, <2>2 DEF SignatureInv, SignatureKeepsTheRest, Request, call
<1> QED
  BY <1>1, <1>2, <1>3 DEF Next, CallSteps

LEMMA WholeKept ==
  ASSUME WholeInv, [Next]_vars
  PROVE  WholeInv'
<1>1. CallInv /\ WorkInv /\ EarlyInv /\ ReqInv /\ CoverInv /\ SignatureInv /\ StatusInv
  BY DEF WholeInv
<1>2. CallInv' /\ EarlyInv' /\ ReqInv' /\ StatusInv'
  BY <1>1, CallKept, EarlyKept, ReqKept, StatusKept
<1>3. WorkInv' /\ CoverInv' /\ SignatureInv'
  BY <1>1, WorkKept, CoverKept, SignatureKept
<1> QED
  BY <1>2, <1>3 DEF WholeInv

LEMMA WholeAlways == Spec => []WholeInv
<1>1. WholeInv /\ [Next]_vars => WholeInv'
  BY WholeKept
<1> QED
  BY InitWhole, <1>1, PTL DEF Spec

LEMMA DistinctCounts ==
  ASSUME NEW T, IsFiniteSet(T), NEW s \in Seq(T), Distinct(s)
  PROVE  Len(s) = Cardinality(ToSet(s)) /\ Len(s) =< Cardinality(T)
<1> DEFINE n == Len(s)
<1>1. n \in Nat /\ DOMAIN s = 1..n /\ s \in [1..n -> ToSet(s)] /\ ToSet(s) \subseteq T
  BY DEF ToSet
<1>2. s \in Bijection(1..n, ToSet(s))
  <2>1. \A x, y \in 1..n : s[x] = s[y] => x = y
    BY <1>1 DEF Distinct
  <2>2. \A y \in ToSet(s) : \E x \in 1..n : s[x] = y
    BY <1>1 DEF ToSet
  <2>3. s \in [1..n -> ToSet(s)]
    BY <1>1
  <2> HIDE DEF n
  <2> QED
    BY <2>1, <2>2, <2>3, Fun_IsBij
<1>3. ExistsBijection(1..n, ToSet(s))
  BY <1>2 DEF ExistsBijection
<1>4. Cardinality(ToSet(s)) = n
  BY <1>1, <1>3, FS_CountingElements
<1>5. Cardinality(ToSet(s)) =< Cardinality(T)
  BY <1>1, FS_Subset
<1> QED
  BY <1>4, <1>5

LEMMA LocatedIsFinite == IsFiniteSet(Located)
<1>1. IsFiniteSet({"jdtls", "rust-analyzer", "tsserver"})
  <2>1. IsFiniteSet({}) /\ IsFiniteSet({} \union {"jdtls"})
    BY FS_EmptySet, FS_AddElement
  <2>2. IsFiniteSet(({} \union {"jdtls"}) \union {"rust-analyzer"})
    BY <2>1, FS_AddElement
  <2>3. IsFiniteSet((({} \union {"jdtls"}) \union {"rust-analyzer"}) \union {"tsserver"})
    BY <2>2, FS_AddElement
  <2>4. (({} \union {"jdtls"}) \union {"rust-analyzer"}) \union {"tsserver"}
          = {"jdtls", "rust-analyzer", "tsserver"}
    OBVIOUS
  <2> QED
    BY <2>3, <2>4
<1> QED
  BY <1>1, CatalogueAssumption, FS_Subset

-----------------------------------------------------------------------------
(* The theorems.                                                           *)

(* A call stays within its types: whoever is asked was located, and nobody *)
(* is asked more often than there are providers, however many languages a  *)
(* project lists and in whatever order: dispatch_operation, mcp.rs.        *)
THEOREM TypeCorrect == Spec => []TypeOK
<1>1. ASSUME WholeInv PROVE TypeOK
  <2>1. CallInv /\ WorkInv
    BY <1>1 DEF WholeInv
  <2>2. ToSet(left) \subseteq ToSet(Languages) /\ ToSet(asked) \subseteq Located
    BY <2>1 DEF WorkInv, LanguageSet, ToSet
  <2>3. Len(asked) <= Cardinality(Located)
    BY <2>1, DistinctCounts, LocatedIsFinite DEF WorkInv
  <2> QED
    BY <2>1, <2>2, <2>3 DEF TypeOK, CallInv, WorkInv, Pcs, Replies, Outcomes
<1> QED
  BY <1>1, WholeAlways, PTL

LEMMA OneAnswers ==
  ASSUME CallInv, WorkInv, NEW p, asked # <<>>, \A q \in ToSet(asked) : q = p
  PROVE  asked = <<p>>
<1>1. /\ Len(asked) \in Nat \ {0} /\ DOMAIN asked = 1..Len(asked) /\ asked \in Seq(Located)
      /\ \A i, j \in DOMAIN asked : asked[i] = asked[j] => i = j
  BY DEF WorkInv, Distinct
<1>2. \A i \in DOMAIN asked : asked[i] = p
  BY DEF ToSet
<1>3. 1 \in DOMAIN asked /\ Len(asked) \in DOMAIN asked
  BY <1>1
<1>4. Len(asked) = 1
  BY <1>1, <1>2, <1>3
<1>5. asked[1] = p /\ p \in Located
  BY <1>1, <1>2, <1>3
<1>6. <<p>> \in Seq(Located) /\ Len(<<p>>) = 1 /\ <<p>>[1] = p
  BY <1>5
<1>7. \A i \in 1..1 : asked[i] = <<p>>[i]
  BY <1>5, <1>6
<1> QED
  BY <1>1, <1>4, <1>6, <1>7, SeqEqual

(* However the languages are ordered, skipped and shared between providers,*)
(* a call on a file is answered by the provider of its language alone, and *)
(* a search by that of every language of the project, each once.           *)
THEOREM OwnersAnswer == Spec => []AnsweredByOwner
<1>1. ASSUME WholeInv,
             pc \in {"run", "finish"} \/ (pc = "answered" /\ reply.kind = "result")
      PROVE  /\ Len(asked) = Cardinality(ToSet(asked))
             /\ Target.file # NoFile /\ LanguageOfName(Last(Target.file)) # NoLanguage =>
                  asked = <<provider_of(LanguageOfName(Last(Target.file)))>>
             /\ reply.kind = "result" /\ pc = "answered" /\ Request.name = "symbol-search" =>
                  ToSet(asked) = {provider_of(l) : l \in ToSet(Project.languages)} \ {NoProvider}
  <2>1. CallInv /\ WorkInv /\ ReqInv /\ CoverInv
    BY <1>1 DEF WholeInv
  <2>2. /\ Candidates # <<>> /\ req.descriptor = DescriptorOf
        /\ req.params = operation_params(given)
        /\ req.descriptor.target = "project" => Target.file = NoFile
    BY <1>1, <2>1 DEF ReqInv, HasParsed, Target
  <2>3. /\ Chosen # <<>> /\ ToSet(asked) \union Of(left) = Of(Chosen)
        /\ pc \in {"run", "finish"} => asked # <<>>
        /\ pc = "answered" => left = <<>>
    BY <1>1, <2>1 DEF CoverInv, IsDirected
  <2>4. /\ Chooses(Candidates, req.descriptor, Target.file, route(Request.name, Params), Chosen)
        /\ Chosen \in Seq(LanguageSet)
    BY <2>1, <2>2, ChosenFacts
  <2>5. pc = "answered" => ToSet(asked) = Of(Chosen)
    <3>1. Of(<<>>) = {}
      BY DEF Of, ToSet
    <3> QED
      BY <2>3, <3>1
  <2>6. asked # <<>>
    <3>1. CASE pc = "answered"
      <4>1. provider_of(Head(Chosen)) \in Of(Chosen)
        BY <2>3, <2>4, TailMembers DEF Of
      <4>2. ToSet(<<>>) = {}
        BY DEF ToSet
      <4> QED
        BY <2>5, <3>1, <4>1, <4>2
    <3> QED
      BY <1>1, <2>3, <3>1
  <2>7. Len(asked) = Cardinality(ToSet(asked))
    BY <2>1, DistinctCounts, LocatedIsFinite DEF WorkInv
  <2>8. ASSUME Target.file # NoFile, LanguageOfName(Last(Target.file)) # NoLanguage
        PROVE  asked = <<provider_of(LanguageOfName(Last(Target.file)))>>
    <3>1. from_path(Target.file) = LanguageOfName(Last(Target.file))
      BY FromItsName
    <3>2. \A c \in ToSet(Chosen) : provider_of(c) = provider_of(LanguageOfName(Last(Target.file)))
      BY <2>4, <2>8, <3>1 DEF Chooses
    <3>3. \A q \in ToSet(asked) : q = provider_of(LanguageOfName(Last(Target.file)))
      BY <2>3, <3>2 DEF Of
    <3> QED
      BY <2>1, <2>6, <3>3, OneAnswers
  <2>9. ASSUME reply.kind = "result", pc = "answered", Request.name = "symbol-search"
        PROVE  ToSet(asked) = {provider_of(l) : l \in ToSet(Project.languages)} \ {NoProvider}
    <3>1. req.descriptor.target = "project" /\ req.descriptor.kind = "query"
      <4>1. PICK r \in Offers : r.descriptor = DescriptorOf /\ r.descriptor.id = "symbol-search"
        BY <2>1, <2>2, <2>9, CallFacts
      <4> QED
        BY <2>2, <4>1, OfferFacts DEF GoodFor
    <3>2. route(Request.name, Params) = "unspecified"
      BY <2>9 DEF route
    <3>3. Chosen = Candidates
      BY <2>2, <2>4, <3>1, <3>2 DEF Chooses
    <3>4. ToSet(Chosen) = {l \in ToSet(Project.languages) : provider_of(l) # NoProvider}
      BY <2>1, <2>9, <3>3, CallFacts, SearchedLanguages
    <3> QED
      BY <2>5, <2>9, <3>4 DEF Of
  <2> QED
    BY <2>7, <2>8, <2>9
<1>2. WholeInv => AnsweredByOwner
  BY <1>1 DEF AnsweredByOwner
<1> QED
  BY <1>2, WholeAlways, PTL

(* For every path map, nested mounts and mounts of equal paths included,   *)
(* the host path of a status leads back to the project unless a mount      *)
(* hides it: reverse and map, pathmap.rs.                                  *)
THEOREM StatusLeadsBack == Spec => []HostPathLeadsBack
<1>1. ASSUME WholeInv PROVE HostPathLeadsBack
  <2> DEFINE entries == parse(site.path_map)
  <2> SUFFICES ASSUME pc = "answered", reply.kind = "status", reply.host_path # NoPath,
                      ~Hidden(entries, Project.root)
               PROVE  map(entries, reply.host_path) = Project.root
    BY DEF HostPathLeadsBack
  <2>1. CallInv /\ reply.host_path = reverse(entries, Project.root)
    BY <1>1 DEF WholeInv, StatusInv
  <2>2. entries \in Seq(Mounts) /\ IsPath(Project.root)
    BY <2>1, CallFacts
  <2> HIDE DEF entries
  <2>3. Matches(entries, "container", Project.root)
    BY <2>1 DEF reverse
  <2> QED
    BY <2>1, <2>2, <2>3, LeadsBack
<1> QED
  BY <1>1, WholeAlways, PTL

LEMMA HonouredByAll ==
  ASSUME ArgumentsOK(given), NEW p, NEW d, GoodFor(p, d)
  PROVE  Honours(d)
<1> SUFFICES ASSUME MeetsSchema(given, d),
                    \A k \in DOMAIN given \cap Coordinates : given[k].int <= U32Max
             PROVE  /\ CanParse(given, d.target)
                    /\ \A k \in DOMAIN given \cap d.params :
                        k \in DOMAIN operation_params(given) /\ operation_params(given)[k] = given[k]
  BY DEF Honours
<1>1. d.target \in {"position", "selection", "file", "project"}
      /\ d.params \intersect ENVELOPE_KEYS = {}
  BY CatalogueAssumption DEF GoodFor, TargetKeys
<1>2. TargetKeys[d.target] \subseteq Coordinates \union {"file"}
  BY <1>1 DEF TargetKeys, Coordinates
<1>3. TargetKeys[d.target] \subseteq build_input_schema(d).required
      /\ TargetKeys[d.target] \subseteq build_input_schema(d).properties
  BY DEF build_input_schema
<1>4. ASSUME NEW k \in TargetKeys[d.target]
      PROVE  IF k = "file" THEN Has(given, k, "str") ELSE IsU32(given, k)
  <2>1. k \in DOMAIN given /\ k \in build_input_schema(d).properties
    BY <1>3, <1>4 DEF MeetsSchema
  <2>2. CASE k = "file"
    BY <2>1, <2>2 DEF MeetsSchema
  <2>3. CASE k # "file"
    <3>1. k \in Coordinates
      BY <1>2, <1>4, <2>3
    <3>2. Has(given, k, "int") /\ given[k].int >= 0 /\ given[k].int <= U32Max
      BY <2>1, <3>1 DEF MeetsSchema
    <3>3. given[k].int \in Int
      BY <2>1, <3>2 DEF ArgumentsOK, Has
    <3> QED
      BY <2>3, <3>2, <3>3, U32Assumption DEF IsU32
  <2> QED
    BY <2>2, <2>3
<1>5. ASSUME NEW k \in DOMAIN given \cap d.params
      PROVE  k \in DOMAIN operation_params(given) /\ operation_params(given)[k] = given[k]
  BY <1>1, <1>5 DEF operation_params
<1> QED
  BY <1>4, <1>5 DEF CanParse

(* Every operation of the catalogue reads every call that its published    *)
(* schema admits, and none of its parameters is taken for the envelope's.  *)
THEOREM SchemasAreHonoured == Spec => []SchemaIsHonoured
<1>1. ASSUME WholeInv PROVE SchemaIsHonoured
  <2> SUFFICES ASSUME pc = "called", Candidates # <<>> PROVE Honours(DescriptorOf)
    BY DEF SchemaIsHonoured
  <2>1. CallInv /\ ArgumentsOK(given)
    BY <1>1 DEF WholeInv, CallInv
  <2>2. PICK r \in Offers : r.descriptor = DescriptorOf
    BY <2>1, CallFacts
  <2> QED
    BY <2>1, <2>2, OfferFacts, HonouredByAll
<1> QED
  BY <1>1, WholeAlways, PTL

(* A change of signature is asked of the Java server once in a call, and   *)
(* what is asked keeps the rest: whatever the arguments and the answers.   *)
THEOREM SignaturesKeepTheRest == Spec => []SignatureKeepsTheRest
<1>1. WholeInv => SignatureKeepsTheRest
  BY DEF WholeInv, SignatureInv
<1> QED
  BY <1>1, WholeAlways, PTL
=============================================================================
