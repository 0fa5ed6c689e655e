------------------------ MODULE ToolCallAnswers_proofs ------------------------
(* What the answers of ToolCall say of the sites they are about, for every  *)
(* site and every script: what a search tells of how much it found.         *)
EXTENDS ToolCall_proofs

-----------------------------------------------------------------------------
(* As many are kept as there are places that hold one to keep.             *)
Holding(s, S, i) == {j \in 1..i : s[j] \in S}

Numbered(q, H) == q \in Nat /\ IsFiniteSet(H) /\ Cardinality(H) = q

LEMMA ThoseCounted ==
  ASSUME NEW T, NEW s \in Seq(T), NEW S
  PROVE  Numbered(Len(Those(s, S)), Holding(s, S, Len(s)))
<1> DEFINE m == Len(s)
<1>1. PICK p : Kepts(s, T, S, p)
  BY ThoseSteps
<1>2. m \in Nat /\ DOMAIN s = 1..m /\ \A i \in 1..m : s[i] \in T
  OBVIOUS
<1>3. /\ \A i \in 0..m : p[i] \in Seq(T)
      /\ p[0] = <<>>
      /\ \A i \in 1..m : p[i] = IF s[i] \in S THEN Append(p[i - 1], s[i]) ELSE p[i - 1]
      /\ p[m] = Those(s, S)
  BY <1>1 DEF Kepts
<1> HIDE DEF m
<1> DEFINE right == {i \in Nat : i =< m => Numbered(Len(p[i]), Holding(s, S, i))}
<1>4. 0 \in right
  <2>1. Holding(s, S, 0) = {} /\ Len(p[0]) = 0
    BY <1>3 DEF Holding
  <2>2. Numbered(0, {})
    BY FS_EmptySet DEF Numbered
  <2> QED
    BY <2>1, <2>2
<1>5. ASSUME NEW i \in right PROVE i + 1 \in right
  <2> SUFFICES ASSUME i + 1 =< m
               PROVE  Numbered(Len(p[i + 1]), Holding(s, S, i + 1))
    OBVIOUS
  <2>1. i \in Nat /\ i \in 0..m /\ i + 1 \in 1..m /\ (i + 1) - 1 = i
    BY <1>2
  <2>2. /\ s[i + 1] \in T /\ p[i] \in Seq(T)
        /\ p[i + 1] = IF s[i + 1] \in S THEN Append(p[i], s[i + 1]) ELSE p[i]
    BY <1>2, <1>3, <2>1
  <2>3. Len(p[i]) \in Nat /\ IsFiniteSet(Holding(s, S, i)) /\ Cardinality(Holding(s, S, i)) = Len(p[i])
    BY <2>1 DEF Numbered
  <2>4. 1..(i + 1) = (1..i) \union {i + 1} /\ i + 1 \notin 1..i
    BY <2>1
  <2>5. CASE s[i + 1] \in S
    <3>1. Holding(s, S, i + 1) = Holding(s, S, i) \union {i + 1} /\ i + 1 \notin Holding(s, S, i)
      BY <2>4, <2>5 DEF Holding
    <3>2. /\ IsFiniteSet(Holding(s, S, i) \union {i + 1})
          /\ Cardinality(Holding(s, S, i) \union {i + 1}) = Len(p[i]) + 1
      BY <2>3, <3>1, FS_AddElement
    <3>3. Len(p[i + 1]) = Len(p[i]) + 1
      BY <2>2, <2>5
    <3>4. Numbered(Len(p[i]) + 1, Holding(s, S, i) \union {i + 1})
      BY <2>3, <3>2 DEF Numbered
    <3> QED
      BY <3>1, <3>3, <3>4
  <2>6. CASE s[i + 1] \notin S
    <3>1. Holding(s, S, i + 1) = Holding(s, S, i)
      BY <2>4, <2>6 DEF Holding
    <3> QED
      BY <2>1, <2>2, <2>6, <3>1
  <2> QED
    BY <2>5, <2>6
<1>6. right = Nat
  <2> HIDE DEF right
  <2>1. right \in SUBSET Nat
    BY DEF right
  <2> QED
    BY <1>4, <1>5, <2>1, SetInduction
<1>7. Numbered(Len(p[m]), Holding(s, S, m))
  BY <1>2, <1>6
<1> QED
  BY <1>3, <1>7 DEF m

-----------------------------------------------------------------------------
(* What the answers that are merged have in common: they tell how many     *)
(* there are, list as many at most, and say so if they list fewer.         *)
AnswerKeys == {"count", "symbols", "truncated"}

Honest(v, n) ==
    /\ v = [x \in DOMAIN v |-> v[x]]
    /\ {"count", "symbols"} \subseteq DOMAIN v /\ DOMAIN v \subseteq AnswerKeys
    /\ v["count"] = [num |-> n]
    /\ v["symbols"] = [list |-> v["symbols"].list]
    /\ v["symbols"].list \in Seq(ToSet(v["symbols"].list))
    /\ Len(v["symbols"].list) =< n
    /\ "truncated" \in DOMAIN v => v["truncated"] = [flag |-> TRUE]
    /\ ("truncated" \in DOMAIN v) <=> Len(v["symbols"].list) < n

LEMMA HonestMerge ==
  ASSUME NEW v, NEW w, NEW n \in Nat, NEW k \in Nat, Honest(v, n), Honest(w, k)
  PROVE  Honest(merge(v, w), n + k)
<1> DEFINE z == merge(v, w)
           a == v["symbols"].list
           b == w["symbols"].list
           T == ToSet(a) \union ToSet(b)
<1>1. a \in Seq(T) /\ b \in Seq(T)
  <2>1. a \in Seq(ToSet(a)) /\ b \in Seq(ToSet(b))
    BY DEF Honest
  <2> QED
    BY <2>1
<1>2. a \o b \in Seq(T) /\ Len(a \o b) = Len(a) + Len(b) /\ Len(a) \in Nat /\ Len(b) \in Nat
  <2> HIDE DEF T, a, b
  <2> QED
    BY <1>1
<1>3. /\ DOMAIN z = DOMAIN v \union DOMAIN w
      /\ \A x \in DOMAIN z : z[x] = IF x \notin DOMAIN v THEN w[x]
                                    ELSE IF x \notin DOMAIN w THEN v[x] ELSE merge_values(v[x], w[x])
  BY DEF merge
<1>13. z = [x \in DOMAIN z |-> z[x]]
  BY DEF merge
<1> HIDE DEF z
<1>4. z["count"] = [num |-> n + k]
  <2>1. z["count"] = merge_values([num |-> n], [num |-> k])
    BY <1>3 DEF Honest
  <2> QED
    BY <2>1 DEF merge_values
<1>5. z["symbols"] = [list |-> a \o b]
  <2>1. z["symbols"] = merge_values([list |-> a], [list |-> b])
    BY <1>3 DEF Honest
  <2> HIDE DEF a, b
  <2> QED
    BY <2>1 DEF merge_values
<1>6. z["symbols"].list = a \o b
  <2> DEFINE c == a \o b
  <2>1. z["symbols"] = [list |-> c]
    BY <1>5
  <2> HIDE DEF c
  <2>2. z["symbols"].list = c
    BY <2>1
  <2> QED
    BY <2>2 DEF c
<1>7. "truncated" \in DOMAIN z => z["truncated"] = [flag |-> TRUE]
  <2>1. merge_values([flag |-> TRUE], [flag |-> TRUE]) = [flag |-> TRUE]
    BY DEF merge_values
  <2> QED
    BY <1>3, <2>1 DEF Honest
<1>8. /\ Len(a) =< n /\ Len(b) =< k
      /\ ("truncated" \in DOMAIN v) <=> Len(a) < n
      /\ ("truncated" \in DOMAIN w) <=> Len(b) < k
  BY DEF Honest
<1> HIDE DEF a, b, T
<1>9. Len(a \o b) =< n + k /\ (("truncated" \in DOMAIN z) <=> Len(a \o b) < n + k)
  BY <1>2, <1>3, <1>8
<1>10. a \o b \in Seq(ToSet(a \o b))
  BY <1>2, SeqOfItsOwn
<1>11. {"count", "symbols"} \subseteq DOMAIN z /\ DOMAIN z \subseteq AnswerKeys
  BY <1>3 DEF Honest
<1>12. Honest(z, n + k)
  BY <1>4, <1>5, <1>6, <1>7, <1>9, <1>10, <1>11, <1>13 DEF Honest
<1> QED
  BY <1>12 DEF z

LEMMA HonestCap ==
  ASSUME NEW v, NEW n \in Nat, NEW limit \in Nat, Honest(v, n)
  PROVE  /\ Honest(cap_lists(v, limit), n)
         /\ Len(cap_lists(v, limit)["symbols"].list) =< limit
<1> DEFINE z    == cap_lists(v, limit)
           a    == v["symbols"].list
           long == {x \in DOMAIN v : IsLong(v[x], limit)}
<1>1. a \in Seq(ToSet(a)) /\ Len(a) \in Nat /\ Len(a) =< n
  <2>1. a \in Seq(ToSet(a)) /\ Len(a) =< n
    BY DEF Honest
  <2> QED
    BY <2>1
<1>2. long = IF Len(a) > limit THEN {"symbols"} ELSE {}
  <2>1. IsLong(v["symbols"], limit) <=> Len(a) > limit
    <3>1. v["symbols"] = [list |-> a]
      BY DEF Honest
    <3> HIDE DEF a
    <3> QED
      BY <3>1 DEF IsLong
  <2>2. ~IsLong(v["count"], limit)
    <3>1. v["count"] = [num |-> n]
      BY DEF Honest
    <3> QED
      BY <3>1 DEF IsLong
  <2>3. "truncated" \in DOMAIN v => ~IsLong(v["truncated"], limit)
    <3>1. "truncated" \in DOMAIN v => v["truncated"] = [flag |-> TRUE]
      BY DEF Honest
    <3> QED
      BY <3>1 DEF IsLong
  <2>4. DOMAIN v \subseteq AnswerKeys /\ "symbols" \in DOMAIN v
    BY DEF Honest
  <2> HIDE DEF a
  <2> QED
    BY <2>1, <2>2, <2>3, <2>4 DEF AnswerKeys
<1>3. /\ DOMAIN z = DOMAIN v \union (IF long = {} THEN {} ELSE {"truncated"})
      /\ \A x \in DOMAIN z :
           z[x] = IF x = "truncated" /\ long # {} THEN [flag |-> TRUE]
                  ELSE IF x \in long THEN [list |-> SubSeq(v[x].list, 1, limit)] ELSE v[x]
  BY DEF cap_lists
<1>6. z = [x \in DOMAIN z |-> z[x]]
  BY DEF cap_lists
<1> HIDE DEF z, long
<1>4. CASE Len(a) > limit
  <2>1. /\ z["count"] = v["count"] /\ z["symbols"] = [list |-> SubSeq(a, 1, limit)]
        /\ z["truncated"] = [flag |-> TRUE] /\ DOMAIN z = DOMAIN v \union {"truncated"}
    BY <1>2, <1>3, <1>4 DEF Honest
  <2> DEFINE b == SubSeq(a, 1, limit)
  <2>2. b \in Seq(ToSet(a)) /\ Len(b) = limit
    BY <1>1, <1>4
  <2>3. z["symbols"].list = b
    BY <2>1
  <2> HIDE DEF b
  <2>4. b \in Seq(ToSet(b))
    BY <2>2, SeqOfItsOwn
  <2>5. Len(b) < n
    BY <1>1, <1>4, <2>2
  <2>6. z["symbols"] = [list |-> b]
    BY <2>1 DEF b
  <2>7. {"count", "symbols"} \subseteq DOMAIN z /\ DOMAIN z \subseteq AnswerKeys
        /\ z["count"] = [num |-> n] /\ "truncated" \in DOMAIN z
    BY <2>1 DEF Honest, AnswerKeys
  <2>8. Len(b) =< n
    BY <1>1, <1>4, <2>2
  <2>9. Honest(z, n)
    <3>1. z["symbols"].list \in Seq(ToSet(z["symbols"].list)) /\ z["symbols"] = [list |-> z["symbols"].list]
          /\ Len(z["symbols"].list) =< n /\ Len(z["symbols"].list) < n
      BY <2>3, <2>4, <2>5, <2>6, <2>8
    <3> QED
      BY <1>6, <2>1, <2>7, <3>1 DEF Honest
  <2> QED
    BY <2>2, <2>3, <2>9 DEF z
<1>5. CASE ~(Len(a) > limit)
  <2>1. DOMAIN z = DOMAIN v /\ \A x \in DOMAIN v : z[x] = v[x]
    BY <1>2, <1>3, <1>5
  <2>2. z["symbols"].list = a /\ "symbols" \in DOMAIN v /\ "count" \in DOMAIN v
    BY <2>1 DEF Honest
  <2>3. Honest(z, n)
    BY <1>6, <2>1, <2>2 DEF Honest
  <2> QED
    BY <1>1, <1>5, <2>2, <2>3 DEF z
<1> QED
  BY <1>4, <1>5

-----------------------------------------------------------------------------
(* What one server finds, and what is told of it.                          *)
SymbolsOf(p)   == site.answers[p]["workspace/symbol"]
Placed(answer) == {s \in ToSet(answer.value) : s.range # NoRange}

LEMMA FoundIsCounted ==
  ASSUME CallInv, NEW p \in Located
  PROVE  /\ Found(p) \in Nat /\ IsListOrNone(SymbolsOf(p))
         /\ SymbolsOf(p).type = "ok"
              => Len(Those(SymbolsOf(p).value, Placed(SymbolsOf(p)))) = Found(p)
         /\ SymbolsOf(p).type # "ok" => Found(p) = 0
<1> DEFINE answer == SymbolsOf(p)
           value  == answer.value
<1>1. IsListOrNone(answer)
  <2>1. site = Sites[script.site] /\ script.site \in DOMAIN Sites
    BY SitesAssumption DEF CallInv
  <2>2. AnswersOK(site.answers[p])
    BY <2>1, SitesAssumption
  <2> QED
    BY <2>2 DEF AnswersOK, SymbolsOf
<1>2. CASE answer.type # "ok"
  BY <1>1, <1>2 DEF Found, SymbolsOf
<1>3. CASE answer.type = "ok"
  <2>1. value \in Seq(ToSet(value)) /\ DOMAIN value = 1..Len(value)
    <3>1. value \in Seq(ToSet(value))
      BY <1>1, <1>3 DEF IsListOrNone
    <3> HIDE DEF value
    <3> QED
      BY <3>1, SeqOfItsOwn
  <2>2. Holding(value, Placed(answer), Len(value)) = {i \in DOMAIN value : value[i].range # NoRange}
    BY <2>1 DEF Holding, Placed, ToSet
  <2>3. Found(p) = Cardinality({i \in DOMAIN value : value[i].range # NoRange})
    BY <1>3 DEF Found, SymbolsOf
  <2>4. Numbered(Len(Those(value, Placed(answer))), Holding(value, Placed(answer), Len(value)))
    <3> HIDE DEF value
    <3> QED
      BY <2>1, ThoseCounted
  <2> QED
    BY <1>1, <1>3, <2>2, <2>3, <2>4 DEF Numbered
<1> QED
  BY <1>2, <1>3

LEMMA SearchIsHonest ==
  ASSUME CallInv, NEW p \in Located, NEW src, NEW limit \in Nat,
         symbols_to_query(SymbolsOf(p), src, limit).kind = "query"
  PROVE  Honest(symbols_to_query(SymbolsOf(p), src, limit).value, Found(p))
<1> DEFINE answer  == SymbolsOf(p)
           matched == Those(answer.value, Placed(answer))
           n       == Len(matched)
           shown   == SubSeq(matched, 1, Min({limit, n}))
           listed  == [i \in DOMAIN shown |-> Entry(src, shown[i].uri, shown[i].range)]
           said    == IF n > limit THEN {"truncated"} ELSE {}
           value   == symbols_to_query(answer, src, limit).value
<1>1. answer.type \in {"null", "ok"}
  BY DEF symbols_to_query, Failed
<1>2. CASE answer.type = "null"
  <2>1. value = [k \in {"count", "symbols"} |-> IF k = "count" THEN [num |-> Len(<<>>)]
                                                ELSE [list |-> <<>>]]
    BY <1>2 DEF symbols_to_query, Listed, Queried
  <2>2. Found(p) = 0
    BY <1>2, FoundIsCounted
  <2> HIDE DEF value
  <2>3. /\ DOMAIN value = {"count", "symbols"} /\ value["count"] = [num |-> 0]
        /\ value["symbols"] = [list |-> <<>>] /\ value["symbols"].list = <<>>
        /\ value = [x \in DOMAIN value |-> value[x]]
    BY <2>1
  <2>4. <<>> \in Seq(ToSet(<<>>)) /\ Len(<<>>) = 0
    OBVIOUS
  <2>5. Honest(value, 0)
    BY <2>3, <2>4 DEF Honest, AnswerKeys
  <2> QED
    BY <2>2, <2>5 DEF value
<1>3. CASE answer.type = "ok"
  <2>1. value = [k \in {"count", "symbols"} \union said |->
                    CASE k = "count"     -> [num |-> n]
                      [] k = "symbols"   -> [list |-> listed]
                      [] k = "truncated" -> [flag |-> TRUE]]
    BY <1>3 DEF symbols_to_query, Queried, Placed
  <2>2. n = Found(p) /\ Found(p) \in Nat /\ matched \in Seq(ToSet(answer.value))
    <3>1. answer.value \in Seq(ToSet(answer.value))
      BY <1>3, FoundIsCounted DEF IsListOrNone
    <3>2. matched \in Seq(ToSet(answer.value))
      BY <3>1, ThoseMembers
    <3> QED
      BY <1>3, <3>2, FoundIsCounted
  <2> HIDE DEF matched, value, answer
  <2>3. /\ Min({limit, n}) \in Nat /\ Min({limit, n}) =< n
        /\ Min({limit, n}) = IF n > limit THEN limit ELSE n
    <3>1. {limit, n} \in SUBSET Nat /\ {limit, n} # {}
      BY <2>2
    <3>2. Min({limit, n}) \in {limit, n} /\ \A y \in {limit, n} : Min({limit, n}) =< y
      BY <3>1, MinFacts
    <3> QED
      BY <2>2, <3>2
  <2> DEFINE q == Min({limit, n})
  <2>4. DOMAIN shown = 1..q
    BY <2>2, <2>3
  <2>5. DOMAIN listed = 1..q /\ \A i \in 1..q : listed[i] = Entry(src, shown[i].uri, shown[i].range)
    BY <2>4
  <2>6. listed = [i \in 1..q |-> Entry(src, shown[i].uri, shown[i].range)]
    BY <2>4
  <2>7. listed \in Seq({Entry(src, shown[i].uri, shown[i].range) : i \in 1..q}) /\ Len(listed) = q
    <3> HIDE DEF listed, shown, q, n
    <3> DEFINE entry(i) == Entry(src, shown[i].uri, shown[i].range)
    <3>1. q \in Nat
      BY <2>3 DEF q
    <3>2. listed = [i \in 1..q |-> entry(i)]
      BY <2>6
    <3> HIDE DEF entry
    <3>3. listed \in Seq({entry(i) : i \in 1..q}) /\ Len(listed) = q
      BY <3>1, <3>2
    <3> QED
      BY <3>3 DEF entry
  <2> HIDE DEF listed, q
  <2>8. listed \in Seq(ToSet(listed))
    BY <2>7, SeqOfItsOwn
  <2>9. /\ DOMAIN value = {"count", "symbols"} \union said /\ value["count"] = [num |-> n]
        /\ value["symbols"] = [list |-> listed] /\ value["symbols"].list = listed
        /\ "truncated" \in DOMAIN value => value["truncated"] = [flag |-> TRUE]
        /\ value = [x \in DOMAIN value |-> value[x]]
    <3> HIDE DEF n, said
    <3> DEFINE field(k) == CASE k = "count"     -> [num |-> n]
                             [] k = "symbols"   -> [list |-> listed]
                             [] k = "truncated" -> [flag |-> TRUE]
               keys == {"count", "symbols"} \union said
    <3>1. value = [k \in keys |-> field(k)]
      BY <2>1
    <3>2. /\ field("count") = [num |-> n] /\ field("symbols") = [list |-> listed]
          /\ field("truncated") = [flag |-> TRUE] /\ "count" \in keys /\ "symbols" \in keys
      OBVIOUS
    <3> HIDE DEF field
    <3>3. DOMAIN value = keys /\ \A k \in keys : value[k] = field(k)
      BY <3>1
    <3>4. value = [x \in DOMAIN value |-> value[x]]
      <4> HIDE DEF keys
      <4> QED
        BY <3>1
    <3>5. /\ value["count"] = [num |-> n] /\ value["symbols"] = [list |-> listed]
          /\ "truncated" \in DOMAIN value => value["truncated"] = [flag |-> TRUE]
      <4> HIDE DEF keys
      <4> QED
        BY <3>2, <3>3
    <3>6. value["symbols"].list = listed
      BY <3>5
    <3> QED
      BY <3>3, <3>4, <3>5, <3>6
  <2>10. said \subseteq AnswerKeys /\ ("truncated" \in said <=> n > limit)
    BY DEF AnswerKeys
  <2>11. Len(listed) =< n /\ (Len(listed) < n <=> n > limit)
    BY <2>2, <2>3, <2>7 DEF q
  <2>12. {"count", "symbols"} \subseteq DOMAIN value /\ DOMAIN value \subseteq AnswerKeys
         /\ ("truncated" \in DOMAIN value <=> n > limit)
    BY <2>9, <2>10 DEF AnswerKeys
  <2> HIDE DEF said
  <2>13. Honest(value, n)
    BY <2>8, <2>9, <2>11, <2>12 DEF Honest
  <2> QED
    BY <2>2, <2>13 DEF value, answer
<1> QED
  BY <1>1, <1>2, <1>3

-----------------------------------------------------------------------------
(* The merging of several answers, one after the other.                    *)
Values(E)  == [num : Nat] \union [flag : BOOLEAN] \union [list : Seq(E)]
Answers(E) == UNION {[D -> Values(E)] : D \in SUBSET AnswerKeys}

LEMMA MergedType ==
  ASSUME NEW E, NEW v \in Answers(E), NEW w \in Answers(E)
  PROVE  merge(v, w) \in Answers(E)
<1>1. ASSUME NEW x \in Values(E), NEW y \in Values(E) PROVE merge_values(x, y) \in Values(E)
  <2>1. CASE x \in [list : Seq(E)] /\ y \in [list : Seq(E)]
    <3>1. merge_values(x, y) = [list |-> x.list \o y.list]
      BY <2>1 DEF merge_values
    <3>2. x.list \o y.list \in Seq(E)
      BY <2>1
    <3> QED
      BY <3>1, <3>2 DEF Values
  <2>2. CASE x \in [flag : BOOLEAN] /\ y \in [flag : BOOLEAN]
    <3>1. merge_values(x, y) = [flag |-> x.flag \/ y.flag]
      BY <2>2 DEF merge_values
    <3> QED
      BY <3>1 DEF Values
  <2>3. CASE x \in [num : Nat] /\ y \in [num : Nat]
    <3>1. merge_values(x, y) = [num |-> x.num + y.num]
      BY <2>3 DEF merge_values
    <3>2. x.num + y.num \in Nat
      BY <2>3
    <3> QED
      BY <3>1, <3>2 DEF Values
  <2>4. \A z \in Values(E) : /\ z \in [num : Nat] => DOMAIN z = {"num"}
                             /\ z \in [flag : BOOLEAN] => DOMAIN z = {"flag"}
                             /\ z \in [list : Seq(E)] => DOMAIN z = {"list"}
    OBVIOUS
  <2>5. CASE ~(\/ x \in [list : Seq(E)] /\ y \in [list : Seq(E)]
               \/ x \in [flag : BOOLEAN] /\ y \in [flag : BOOLEAN]
               \/ x \in [num : Nat] /\ y \in [num : Nat])
    <3>1. merge_values(x, y) = x
      <4>1. /\ ~(DOMAIN x = {"list"} /\ DOMAIN y = {"list"})
            /\ ~(DOMAIN x = {"flag"} /\ DOMAIN y = {"flag"})
            /\ ~(DOMAIN x = {"num"} /\ DOMAIN y = {"num"})
        BY <2>4, <2>5 DEF Values
      <4> QED
        BY <4>1 DEF merge_values
    <3> QED
      BY <3>1
  <2> QED
    BY <2>1, <2>2, <2>3, <2>5
<1> DEFINE z == merge(v, w)
<1>2. PICK D \in SUBSET AnswerKeys : v \in [D -> Values(E)]
  BY DEF Answers
<1>3. PICK G \in SUBSET AnswerKeys : w \in [G -> Values(E)]
  BY DEF Answers
<1>4. z = [k \in D \union G |-> IF k \notin D THEN w[k] ELSE IF k \notin G THEN v[k]
                               ELSE merge_values(v[k], w[k])]
  BY <1>2, <1>3 DEF merge
<1>5. \A k \in D \union G : (IF k \notin D THEN w[k] ELSE IF k \notin G THEN v[k]
                              ELSE merge_values(v[k], w[k])) \in Values(E)
  <2>1. \A k \in D : v[k] \in Values(E)
    BY <1>2
  <2>2. \A k \in G : w[k] \in Values(E)
    BY <1>3
  <2> QED
    BY <1>1, <2>1, <2>2
<1> HIDE DEF z
<1>6. z \in [D \union G -> Values(E)]
  BY <1>4, <1>5
<1>7. z \in Answers(E)
  BY <1>2, <1>3, <1>6 DEF Answers
<1> QED
  BY <1>7 DEF z

Merges(results, E, p) ==
    /\ p \in [0..Len(Tail(results)) -> Answers(E)]
    /\ p[0] = Head(results)
    /\ \A i \in 1..Len(Tail(results)) : p[i] = merge(p[i - 1], Tail(results)[i])
    /\ p[Len(Tail(results))] = FoldLeft(merge, Head(results), Tail(results))

LEMMA MergeSteps ==
  ASSUME NEW E, NEW results \in Seq(Answers(E)), results # <<>>
  PROVE  \E p : Merges(results, E, p)
<1> DEFINE s == Tail(results)
           base == Head(results)
           m == Len(s)
           I == 1..m
           V == Answers(E)
           put(i, acc) == merge(acc, s[i])
           unfold(w) == [x \in SUBSET I |-> IF x = {} THEN base
                                            ELSE put(Max(x), w[x \ {Max(x)}])]
           op   == [x \in I \X V |-> put(x[1], x[2])]
<1>1. m \in Nat /\ DOMAIN s = I /\ (\A i \in I : s[i] \in V) /\ base \in V
  OBVIOUS
<1>4. FoldLeft(merge, base, s) = (CHOOSE w : w = unfold(w))[I]
  BY <1>1 DEF FoldLeft, MapThenFoldSet
<1> HIDE DEF s, base, V, m
<1>2. \A i \in I, acc \in V : put(i, acc) \in V
  BY <1>1, MergedType DEF V
<1>5. op \in [I \X V -> V] /\ \A i \in I, acc \in V : op[<<i, acc>>] = put(i, acc)
  <2> HIDE DEF put, I
  <2> QED
    BY <1>2
<1> HIDE DEF put, op
<1>6. /\ Ends(m, GoesLeft(m))
      /\ \A x \in SUBSET I : x # {} => GoesLeft(m)[x] = Max(x) /\ Max(x) \in I
  BY <1>1, EndsAreElements DEF GoesLeft, Ends
<1>7. PICK it \in [SUBSET I -> V] : Folded(m, V, base, op, GoesLeft(m), it)
  BY <1>1, <1>5, <1>6, FoldedExists
<1>8. it = unfold(it)
  <2>1. it[{}] = base
    BY <1>7 DEF Folded
  <2>2. \A x \in SUBSET I : x # {} => it[x] = put(Max(x), it[x \ {Max(x)}])
    BY <1>5, <1>6, <1>7 DEF Folded
  <2>3. \A x \in SUBSET I : it[x] = unfold(it)[x]
    BY <2>1, <2>2
  <2> QED
    BY <1>7, <2>3
<1> DEFINE w == CHOOSE w : w = unfold(w)
<1>9. w = unfold(w)
  <2> HIDE DEF unfold
  <2> QED
    BY <1>8
<1>10. FoldLeft(merge, base, s) = w[I]
  BY <1>4
<1> HIDE DEF w
<1>11. w[{}] = base /\ \A x \in SUBSET I : x # {} => w[x] = put(Max(x), w[x \ {Max(x)}])
  BY <1>9
<1>12. Folded(m, V, base, op, GoesLeft(m), w)
  BY <1>5, <1>6, <1>11 DEF Folded
<1>13. PICK p : Leftwards(m, V, base, op, w[I], p)
  BY <1>1, <1>5, <1>12, LeftSteps
<1>14. p \in [0..m -> V] /\ p[0] = base /\ p[m] = FoldLeft(merge, base, s)
  BY <1>10, <1>13 DEF Leftwards
<1>15. \A i \in 1..m : p[i] = put(i, p[i - 1])
  <2> SUFFICES ASSUME NEW i \in 1..m PROVE p[i] = put(i, p[i - 1])
    OBVIOUS
  <2>1. i - 1 \in 0..m
    BY <1>1
  <2>2. p[i - 1] \in V
    BY <1>14, <2>1
  <2> QED
    BY <1>5, <1>13, <2>2 DEF Leftwards
<1>16. Merges(results, E, p)
  BY <1>14, <1>15 DEF Merges, m, V, put, s, base
<1> QED
  BY <1>16

-----------------------------------------------------------------------------
(* What all the servers that were asked found.                             *)
Total(S) == MapThenSumSet(Found, S)

Counts == [p \in Located |-> Found(p)]

Part(c, p, S) == IF p \in S THEN c[p] ELSE 0

Adds(c, S) == Part(c, "jdtls", S) + Part(c, "rust-analyzer", S) + Part(c, "tsserver", S)

LEMMA TotalOfParts ==
  ASSUME CallInv, NEW S \in SUBSET Located
  PROVE  Total(S) = Adds(Counts, S)
<1> DEFINE total(s) == Adds(Counts, s)
           some(s) == CHOOSE x \in s : TRUE
           unfold(w) == [s \in SUBSET S |-> IF s = {} THEN 0 ELSE Found(some(s)) + w[s \ {some(s)}]]
           it == [s \in SUBSET S |-> total(s)]
<1>1. Total(S) = (CHOOSE w : w = unfold(w))[S]
  BY DEF Total, MapThenSumSet, MapThenFoldSet
<1>2. Located \subseteq {"jdtls", "rust-analyzer", "tsserver"} /\ IsFiniteSet(S)
  BY CatalogueAssumption, LocatedIsFinite, FS_Subset
<1>3. \A s \in SUBSET S : s # {} => some(s) \in s
  OBVIOUS
<1>4. \A p \in Located : Found(p) \in Nat /\ Counts[p] = Found(p)
  BY FoundIsCounted DEF Counts
<1>5. total({}) = 0
  BY DEF Part, Adds
<1>6. \A s \in SUBSET S : \A p \in s : total(s) = Found(p) + total(s \ {p}) /\ total(s \ {p}) \in Nat
  <2> SUFFICES ASSUME NEW s \in SUBSET S, NEW p \in s
               PROVE  total(s) = Found(p) + total(s \ {p}) /\ total(s \ {p}) \in Nat
    OBVIOUS
  <2> DEFINE t == s \ {p}
  <2>1. Part(Counts, "jdtls", t) \in Nat /\ Part(Counts, "rust-analyzer", t) \in Nat /\ Part(Counts, "tsserver", t) \in Nat
    BY <1>4 DEF Part
  <2>2. p \notin t /\ \A q : q # p => Part(Counts, q, t) = Part(Counts, q, s)
    BY DEF Part
  <2>3. Part(Counts, p, t) = 0 /\ Part(Counts, p, s) = Found(p) /\ Found(p) \in Nat
    BY <1>4 DEF Part
  <2> HIDE DEF t
  <2>4. p \in {"jdtls", "rust-analyzer", "tsserver"}
    BY <1>2
  <2>5. total(s) = Found(p) + total(t) /\ total(t) \in Nat
    BY <2>1, <2>2, <2>3, <2>4 DEF Adds
  <2> QED
    BY <2>5 DEF t
<1> HIDE DEF some, total
<1>7. it = unfold(it)
  <2>1. ASSUME NEW s \in SUBSET S PROVE it[s] = unfold(it)[s]
    <3>1. CASE s = {}
      BY <1>5, <3>1
    <3>2. CASE s # {}
      <4>1. some(s) \in s /\ s \ {some(s)} \in SUBSET S
        BY <1>3, <3>2
      <4> QED
        BY <1>6, <3>2, <4>1
    <3> QED
      BY <3>1, <3>2
  <2> QED
    BY <2>1
<1> DEFINE w == CHOOSE w : w = unfold(w)
<1>8. w = unfold(w)
  <2> HIDE DEF unfold, it
  <2> QED
    BY <1>7
<1>9. Total(S) = w[S]
  BY <1>1
<1> HIDE DEF w
<1>10. w[{}] = 0 /\ \A s \in SUBSET S : s # {} => w[s] = Found(some(s)) + w[s \ {some(s)}]
  BY <1>8
<1> DEFINE V    == {<<s, total(s)>> : s \in SUBSET S}
           pair == [s \in SUBSET S |-> <<s, w[s]>>]
           pick == [s \in SUBSET S |-> some(s)]
<1>11. \A s \in SUBSET S : pair[s] \in V
  <2>1. pair[{}] \in V
    BY <1>5, <1>10
  <2>2. \A s \in SUBSET S : s # {} => pick[s] \in s
    BY <1>3
  <2>3. ASSUME NEW s \in SUBSET S, s # {}, pair[s \ {pick[s]}] \in V PROVE pair[s] \in V
    <3>1. pick[s] = some(s) /\ some(s) \in s /\ s \ {some(s)} \in SUBSET S
      BY <1>3, <2>3
    <3>2. w[s \ {some(s)}] = total(s \ {some(s)})
      BY <2>3, <3>1
    <3>3. w[s] = total(s)
      BY <1>6, <1>10, <2>3, <3>1, <3>2
    <3> QED
      BY <3>3
  <2> HIDE DEF pair, pick, V
  <2> QED
    BY <1>2, <2>1, <2>2, <2>3, FoldStays
<1>12. w[S] = total(S)
  BY <1>11
<1> QED
  BY <1>9, <1>12 DEF total

LEMMA AddsGrow ==
  ASSUME NEW c \in [Located -> Nat], NEW S \in SUBSET Located, NEW p \in Located, p \notin S
  PROVE  Adds(c, S) \in Nat /\ Adds(c, S \union {p}) = Adds(c, S) + c[p] /\ Adds(c, {}) = 0
<1>1. p \in {"jdtls", "rust-analyzer", "tsserver"} /\ c[p] \in Nat
  BY CatalogueAssumption
<1>2. /\ Part(c, "jdtls", S) \in Nat /\ Part(c, "rust-analyzer", S) \in Nat
      /\ Part(c, "tsserver", S) \in Nat
  BY DEF Part
<1>3. \A q : q # p => Part(c, q, S \union {p}) = Part(c, q, S)
  BY DEF Part
<1>4. Part(c, p, S) = 0 /\ Part(c, p, S \union {p}) = c[p]
  BY DEF Part
<1>5. Adds(c, S) \in Nat
  BY <1>2 DEF Adds
<1>6. Adds(c, {}) = 0
  BY DEF Adds, Part
<1>7. Adds(c, S \union {p}) = Adds(c, S) + c[p]
  <2>1. CASE p = "jdtls"
    <3>1. /\ Part(c, "rust-analyzer", S \union {p}) = Part(c, "rust-analyzer", S)
          /\ Part(c, "tsserver", S \union {p}) = Part(c, "tsserver", S)
          /\ Part(c, "jdtls", S \union {p}) = c[p] /\ Part(c, "jdtls", S) = 0
      BY <1>3, <1>4, <2>1
    <3> QED
      BY <1>1, <1>2, <3>1 DEF Adds
  <2>2. CASE p = "rust-analyzer"
    <3>1. /\ Part(c, "jdtls", S \union {p}) = Part(c, "jdtls", S)
          /\ Part(c, "tsserver", S \union {p}) = Part(c, "tsserver", S)
          /\ Part(c, "rust-analyzer", S \union {p}) = c[p] /\ Part(c, "rust-analyzer", S) = 0
      BY <1>3, <1>4, <2>2
    <3> QED
      BY <1>1, <1>2, <3>1 DEF Adds
  <2>3. CASE p = "tsserver"
    <3>1. /\ Part(c, "jdtls", S \union {p}) = Part(c, "jdtls", S)
          /\ Part(c, "rust-analyzer", S \union {p}) = Part(c, "rust-analyzer", S)
          /\ Part(c, "tsserver", S \union {p}) = c[p] /\ Part(c, "tsserver", S) = 0
      BY <1>3, <1>4, <2>3
    <3> QED
      BY <1>1, <1>2, <3>1 DEF Adds
  <2> QED
    BY <1>1, <2>1, <2>2, <2>3
<1> QED
  BY <1>5, <1>6, <1>7

-----------------------------------------------------------------------------
(* Answers of servers that found so many each, merged.                     *)
Tells(qs, whom, c) ==
    /\ qs \in Seq(ToSet(qs))
    /\ \A i \in DOMAIN qs : i \in DOMAIN whom /\ Honest(qs[i], c[whom[i]])

LEMMA MergeTells ==
  ASSUME NEW c \in [Located -> Nat], NEW whom \in Seq(Located), Distinct(whom),
         NEW qs, Tells(qs, whom, c), Len(qs) = Len(whom), qs # <<>>
  PROVE  Honest(FoldLeft(merge, Head(qs), Tail(qs)), Adds(c, ToSet(whom)))
<1> DEFINE E == UNION {ToSet(qs[i]["symbols"].list) : i \in DOMAIN qs}
           m == Len(Tail(qs))
<1>1. qs \in Seq(ToSet(qs)) /\ DOMAIN qs = 1..Len(qs) /\ Len(qs) \in Nat /\ Len(qs) # 0
  <2>1. qs \in Seq(ToSet(qs))
    BY DEF Tells
  <2> HIDE DEF m, E
  <2>2. DOMAIN qs = 1..Len(qs) /\ Len(qs) \in Nat
    BY <2>1, SeqOfItsOwn
  <2>3. Len(qs) # 0
    BY <2>1, SeqPlain
  <2> QED
    BY <2>1, <2>2, <2>3
<1>2. \A i \in DOMAIN qs : qs[i] \in Answers(E)
  <2> SUFFICES ASSUME NEW i \in DOMAIN qs PROVE qs[i] \in Answers(E)
    OBVIOUS
  <2> DEFINE v == qs[i]
             n == c[whom[i]]
             list == v["symbols"].list
  <2>1. Honest(v, n) /\ i \in DOMAIN whom
    BY DEF Tells
  <2>2. n \in Nat
    <3> HIDE DEF v, list
    <3>1. whom[i] \in Located
      BY <2>1, SeqPlain
    <3> QED
      BY <3>1
  <2>3. list \in Seq(ToSet(list)) /\ ToSet(list) \subseteq E
    BY <2>1 DEF Honest
  <2>4. list \in Seq(E)
    <3> HIDE DEF list, E
    <3> QED
      BY <2>3
  <2>5. v = [x \in DOMAIN v |-> v[x]] /\ DOMAIN v \subseteq AnswerKeys
    BY <2>1 DEF Honest
  <2>6. \A x \in DOMAIN v : v[x] = [num |-> n] \/ v[x] = [list |-> list] \/ v[x] = [flag |-> TRUE]
    BY <2>1 DEF Honest, AnswerKeys
  <2> HIDE DEF v, n, list, E
  <2>7. [num |-> n] \in Values(E) /\ [list |-> list] \in Values(E) /\ [flag |-> TRUE] \in Values(E)
    BY <2>2, <2>4 DEF Values
  <2>8. v \in [DOMAIN v -> Values(E)]
    BY <2>5, <2>6, <2>7
  <2>9. v \in Answers(E)
    BY <2>5, <2>8 DEF Answers
  <2> QED
    BY <2>9 DEF v
<1> HIDE DEF E
<1> HIDE DEF m
<1>3. qs \in Seq(Answers(E))
  <2> DEFINE k == Len(qs)
             T == Answers(E)
  <2>1. qs = [i \in 1..k |-> qs[i]]
    BY <1>1, SeqPlain
  <2>2. k \in Nat /\ \A i \in 1..k : qs[i] \in T
    BY <1>1, <1>2
  <2> HIDE DEF k, T
  <2>3. qs \in Seq(T)
    BY <2>1, <2>2, SeqBuilt
  <2> QED
    BY <2>3 DEF T
<1>4. PICK p : Merges(qs, E, p)
  BY <1>3, MergeSteps
<1>5. /\ m \in Nat /\ Len(qs) = m + 1 /\ Head(qs) = qs[1]
      /\ \A i \in 1..m : Tail(qs)[i] = qs[i + 1] /\ i + 1 \in 1..(m + 1)
  BY <1>1, <1>3 DEF m
<1>6. /\ p[0] = qs[1] /\ p[m] = FoldLeft(merge, Head(qs), Tail(qs))
      /\ \A i \in 1..m : p[i] = merge(p[i - 1], qs[i + 1])
  BY <1>4, <1>5 DEF Merges, m
<1>7. /\ DOMAIN whom = 1..(m + 1) /\ \A i \in 1..(m + 1) : whom[i] \in Located /\ c[whom[i]] \in Nat
      /\ \A i \in 1..(m + 1) : Honest(qs[i], c[whom[i]])
  <2>1. DOMAIN whom = 1..(m + 1) /\ DOMAIN qs = 1..(m + 1)
    <3>1. Len(whom) = m + 1 /\ DOMAIN whom = 1..Len(whom)
      BY <1>5, SeqPlain
    <3> QED
      BY <1>1, <1>5, <3>1
  <2>2. \A i \in 1..(m + 1) : whom[i] \in Located
    BY <2>1, SeqPlain
  <2>3. \A i \in 1..(m + 1) : c[whom[i]] \in Nat
    BY <2>2
  <2>4. \A i \in 1..(m + 1) : Honest(qs[i], c[whom[i]])
    BY <2>1 DEF Tells
  <2> QED
    BY <2>1, <2>2, <2>3, <2>4
<1>8. \A i \in 0..(m + 1) : MembersUpto(whom, i) \in SUBSET Located
  <2>1. \A i \in 0..(m + 1) : \A j \in 1..i : j \in 1..(m + 1)
    BY <1>5
  <2> QED
    BY <1>7, <2>1 DEF MembersUpto
<1>9. \A i \in 0..m : /\ MembersUpto(whom, i + 1) = MembersUpto(whom, i) \union {whom[i + 1]}
                       /\ whom[i + 1] \notin MembersUpto(whom, i)
  <2> SUFFICES ASSUME NEW i \in 0..m
               PROVE  /\ MembersUpto(whom, i + 1) = MembersUpto(whom, i) \union {whom[i + 1]}
                      /\ whom[i + 1] \notin MembersUpto(whom, i)
    OBVIOUS
  <2>1. /\ 1..(i + 1) = (1..i) \union {i + 1} /\ i + 1 \in 1..(m + 1)
        /\ \A j \in 1..i : j \in 1..(m + 1) /\ j # i + 1
    BY <1>5
  <2>2. \A j \in 1..i : whom[j] # whom[i + 1]
    BY <1>7, <2>1 DEF Distinct
  <2> QED
    BY <2>1, <2>2 DEF MembersUpto
<1> DEFINE right == {i \in Nat : i =< m => Honest(p[i], Adds(c, MembersUpto(whom, i + 1)))}
<1>10. \A i \in 0..m : /\ Adds(c, MembersUpto(whom, i)) \in Nat
                        /\ Adds(c, MembersUpto(whom, i + 1)) = Adds(c, MembersUpto(whom, i)) + c[whom[i + 1]]
  <2> SUFFICES ASSUME NEW i \in 0..m
               PROVE  /\ Adds(c, MembersUpto(whom, i)) \in Nat
                      /\ Adds(c, MembersUpto(whom, i + 1)) = Adds(c, MembersUpto(whom, i)) + c[whom[i + 1]]
    OBVIOUS
  <2>1. i \in 0..(m + 1) /\ i + 1 \in 1..(m + 1)
    BY <1>5
  <2> QED
    BY <1>7, <1>8, <1>9, <2>1, AddsGrow
<1>11. 0 \in right
  <2>1. 0 \in 0..m /\ 0 + 1 = 1 /\ 1 \in 1..(m + 1) /\ MembersUpto(whom, 0) = {}
    BY <1>5 DEF MembersUpto
  <2>2. Adds(c, {}) = 0
    BY DEF Adds, Part
  <2> HIDE DEF right
  <2>5. Adds(c, MembersUpto(whom, 0 + 1)) = Adds(c, MembersUpto(whom, 0)) + c[whom[0 + 1]]
    BY <1>10, <2>1
  <2>6. c[whom[1]] \in Nat /\ Honest(qs[1], c[whom[1]])
    BY <1>7, <2>1
  <2>3. Adds(c, MembersUpto(whom, 0 + 1)) = c[whom[1]]
    <3>1. Adds(c, MembersUpto(whom, 0 + 1)) = 0 + c[whom[1]]
      BY <2>1, <2>2, <2>5
    <3> DEFINE k == c[whom[1]]
    <3>2. k \in Nat /\ 0 + k = k
      BY <2>6
    <3> QED
      BY <3>1, <3>2
  <2>4. Honest(p[0], Adds(c, MembersUpto(whom, 0 + 1)))
    BY <1>6, <2>3, <2>6
  <2> QED
    BY <2>4 DEF right
<1>12. ASSUME NEW i \in right PROVE i + 1 \in right
  <2>0. i \in Nat /\ (i =< m => Honest(p[i], Adds(c, MembersUpto(whom, i + 1))))
    OBVIOUS
  <2>00. i + 1 \in Nat
    BY <2>0
  <2> HIDE DEF right
  <2> SUFFICES ASSUME i + 1 =< m PROVE Honest(p[i + 1], Adds(c, MembersUpto(whom, (i + 1) + 1)))
    BY <2>00 DEF right
  <2>1. /\ i \in Nat /\ i + 1 \in 1..m /\ (i + 1) - 1 = i /\ i \in 0..m /\ i + 1 \in 0..m
        /\ (i + 1) + 1 \in 1..(m + 1)
    BY <1>5, <2>0
  <2>6. i =< m
    BY <1>5, <2>0
  <2>2. Honest(p[i], Adds(c, MembersUpto(whom, i + 1)))
    BY <2>0, <2>6
  <2>3. p[i + 1] = merge(p[i], qs[(i + 1) + 1])
    BY <1>6, <2>1
  <2>4. Honest(qs[(i + 1) + 1], c[whom[(i + 1) + 1]]) /\ c[whom[(i + 1) + 1]] \in Nat
    BY <1>7, <2>1
  <2>5. /\ Adds(c, MembersUpto(whom, i + 1)) \in Nat
        /\ Adds(c, MembersUpto(whom, (i + 1) + 1))
              = Adds(c, MembersUpto(whom, i + 1)) + c[whom[(i + 1) + 1]]
    BY <1>10, <2>1
  <2> QED
    BY <2>2, <2>3, <2>4, <2>5, HonestMerge
<1>13. right = Nat
  <2> HIDE DEF right
  <2>1. right \in SUBSET Nat
    BY DEF right
  <2> QED
    BY <1>11, <1>12, <2>1, SetInduction
<1>14. Honest(p[m], Adds(c, MembersUpto(whom, m + 1)))
  <2>1. m \in right
    BY <1>5, <1>13
  <2>2. m =< m
    BY <1>5
  <2> QED
    BY <2>1, <2>2
<1>15. MembersUpto(whom, m + 1) = ToSet(whom)
  BY <1>7 DEF MembersUpto, ToSet
<1> QED
  BY <1>6, <1>14, <1>15

LEMMA TellsNothing ==
  ASSUME NEW c, NEW whom
  PROVE  Tells(<<>>, whom, c)
<1>1. <<>> \in Seq(ToSet(<<>>)) /\ DOMAIN <<>> = {}
  OBVIOUS
<1> QED
  BY <1>1 DEF Tells

LEMMA TellsMore ==
  ASSUME NEW c, NEW whom \in Seq(Located), NEW p \in Located, NEW qs, Tells(qs, whom, c)
  PROVE  Tells(qs, Append(whom, p), c)
<1>1. \A i \in DOMAIN whom : i \in DOMAIN Append(whom, p) /\ Append(whom, p)[i] = whom[i]
  OBVIOUS
<1> QED
  BY <1>1 DEF Tells

LEMMA TellsNext ==
  ASSUME NEW c, NEW whom \in Seq(Located), NEW qs, Tells(qs, whom, c), Len(whom) = Len(qs) + 1,
         NEW v, Honest(v, c[Last(whom)])
  PROVE  Tells(Append(qs, v), whom, c) /\ Len(Append(qs, v)) = Len(whom)
<1> DEFINE z == Append(qs, v)
           T == ToSet(qs) \union {v}
           n == Len(qs)
<1>1. qs \in Seq(ToSet(qs)) /\ \A i \in DOMAIN qs : i \in DOMAIN whom /\ Honest(qs[i], c[whom[i]])
  BY DEF Tells
<1>2. DOMAIN qs = 1..n /\ n \in Nat
  BY <1>1, SeqPlain
<1>3. z \in Seq(T) /\ Len(z) = n + 1 /\ z[n + 1] = v /\ \A i \in 1..n : z[i] = qs[i]
  <2> DEFINE S == ToSet(qs)
  <2>1. qs \in Seq(S)
    BY <1>1
  <2> HIDE DEF S
  <2>2. qs \in Seq(S \union {v}) /\ v \in S \union {v}
    BY <2>1
  <2>3. z \in Seq(S \union {v}) /\ Len(z) = n + 1 /\ z[n + 1] = v /\ \A i \in 1..n : z[i] = qs[i]
    BY <2>2
  <2> QED
    BY <2>3 DEF S
<1> HIDE DEF z
<1>4. z \in Seq(ToSet(z)) /\ DOMAIN z = 1..(n + 1)
  BY <1>3, SeqOfItsOwn
<1>5. DOMAIN whom = 1..(n + 1) /\ Last(whom) = whom[n + 1]
  BY SeqPlain DEF Last
<1>6. ASSUME NEW i \in DOMAIN z PROVE i \in DOMAIN whom /\ Honest(z[i], c[whom[i]])
  <2>1. CASE i \in 1..n
    BY <1>1, <1>2, <1>3, <2>1
  <2>2. CASE i = n + 1
    BY <1>2, <1>3, <1>5, <2>2
  <2> QED
    BY <1>2, <1>4, <2>1, <2>2
<1>7. Tells(z, whom, c)
  BY <1>4, <1>6 DEF Tells
<1> QED
  BY <1>3, <1>7 DEF z

-----------------------------------------------------------------------------
(* A search in progress: every answer so far tells of the server that was  *)
(* asked for it, in the same order.                                        *)
ToldAll ==
    /\ Honest(reply.value, Adds(Counts, ToSet(asked)))
    /\ Has(given, "limit", "int") /\ given["limit"].int >= 0 =>
            Len(reply.value["symbols"].list) =< given["limit"].int

Gathers ==
    /\ pc \in {"called", "parsed", "validate"} => queries = <<>>
    /\ pc \in {"next", "begin", "run"} =>
            /\ Tells(queries, asked, Counts)
            /\ Len(asked) = Len(queries) + (IF pc = "next" THEN 0 ELSE 1)
    /\ pc = "answered" /\ reply.kind = "result" => ToldAll

GatherInv == Request.name = "symbol-search" => Gathers

LEMMA CountsAreKept ==
  ASSUME CallInv, UNCHANGED site
  PROVE  Counts' = Counts /\ Counts \in [Located -> Nat]
<1>1. Counts' = Counts
  BY DEF Counts, Found
<1>2. Counts \in [Located -> Nat]
  BY FoundIsCounted DEF Counts
<1> QED
  BY <1>1, <1>2

(* The answer of one more server.                                          *)
LEMMA SearchGathers ==
  ASSUME CallInv, WorkInv, ReqInv, GatherInv, RunOperation, Request.name = "symbol-search",
         outcome'.kind = "query"
  PROVE  /\ Tells(queries', asked, Counts) /\ Len(queries') = Len(asked)
         /\ pc' = "next"
<1> DEFINE r   == [target |-> Target, params |-> Params]
           src == SourceOf(Session, r)
           own == own_limit(Params)
           ran == symbols_to_query(SymbolsOf(Provider), src, own)
<1>1. pc = "run" /\ Ran = symbol_search(Session, r) /\ outcome' = Ran.outcome
  BY RunTakes DEF RunOperation, Ran, run
<1>2. Tells(queries, asked, Counts) /\ Len(asked) = Len(queries) + 1 /\ asked \in Seq(Located)
  BY <1>1 DEF GatherInv, Gathers, WorkInv
<1>3. Provider \in Located
  <2>1. queries \in Seq(ToSet(queries))
    BY <1>2 DEF Tells
  <2>2. Len(queries) \in Nat
    BY <2>1, SeqPlain
  <2>3. Len(asked) \in DOMAIN asked /\ \A i \in DOMAIN asked : asked[i] \in Located
    BY <1>2, <2>2, SeqPlain
  <2> QED
    BY <2>3 DEF Provider, Last
<1>4. own \in Nat
  <2>1. Params = operation_params(given)
    BY <1>1 DEF ReqInv, HasParsed, Params
  <2>2. ASSUME Has(Params, "limit", "int") PROVE Params["limit"].int \in Int
    <3>1. "limit" \in DOMAIN given /\ Params["limit"] = given["limit"]
          /\ "int" \in DOMAIN given["limit"]
      BY <2>1, <2>2 DEF operation_params, Has
    <3> QED
      BY <3>1 DEF CallInv, ArgumentsOK
  <2>3. DefaultLimit \in Nat
    BY CatalogueAssumption
  <2> QED
    BY <2>2, <2>3 DEF own_limit
<1>5. Ran.outcome = ran /\ ran.kind = "query"
  <2>1. Session.answers = site.answers[Provider]
    BY DEF Session, AnswersOf
  <2> HIDE DEF r, own
  <2>2. Ran.outcome.kind = "query"
    BY <1>1
  <2>3. Ran.outcome = symbols_to_query(Reply(Session, "workspace/symbol"), src, own_limit(r.params))
    BY <1>1, <2>2 DEF symbol_search, Refused, Done, Failed
  <2>4. own_limit(r.params) = own
    BY DEF r, own
  <2>5. CASE "workspace/symbol" \notin DOMAIN Session.answers
    <3>1. Reply(Session, "workspace/symbol").type = "error"
      BY <2>5 DEF Reply
    <3>2. symbols_to_query(Reply(Session, "workspace/symbol"), src, own).kind = "error"
      BY <3>1 DEF symbols_to_query, Failed
    <3> QED
      BY <2>2, <2>3, <2>4, <3>2
  <2>6. CASE "workspace/symbol" \in DOMAIN Session.answers
    <3>1. Reply(Session, "workspace/symbol") = SymbolsOf(Provider)
      BY <2>1, <2>6 DEF Reply, SymbolsOf
    <3> QED
      BY <2>2, <2>3, <2>4, <3>1
  <2> QED
    BY <2>5, <2>6
<1>6. queries' = Append(queries, ran.value) /\ pc' = "next"
  <2> HIDE DEF ran
  <2>1. Took(Ran)
    BY DEF RunOperation
  <2> QED
    BY <1>5, <2>1 DEF Took
<1>7. Honest(ran.value, Found(Provider))
  <2> HIDE DEF src, own
  <2> QED
    BY <1>3, <1>4, <1>5, SearchIsHonest
<1> HIDE DEF ran
<1>8. Honest(ran.value, Counts[Last(asked)])
  BY <1>3, <1>7 DEF Counts, Provider
<1>9. Tells(Append(queries, ran.value), asked, Counts) /\ Len(Append(queries, ran.value)) = Len(asked)
  BY <1>2, <1>8, TellsNext
<1> QED
  BY <1>6, <1>9

(* The limit that a caller gives is the one that its answer is cut at.     *)
LEMMA LimitOfTheCall ==
  ASSUME CallInv, ReqInv, pc = "next"
  PROVE  /\ result_limit(Params, req.descriptor) \in Nat \union {NoLimit}
         /\ Has(given, "limit", "int") /\ given["limit"].int >= 0 =>
              result_limit(Params, req.descriptor) = given["limit"].int
<1>1. Candidates # <<>> /\ req.descriptor = DescriptorOf /\ Params = operation_params(given)
  BY DEF ReqInv, HasParsed, Params
<1>2. PICK o \in Offers : o.descriptor = DescriptorOf
  BY <1>1, CallFacts
<1>3. req.descriptor.limit \in Nat
  BY <1>1, <1>2, OfferFacts DEF GoodFor
<1>4. \A k \in DOMAIN Params : k \in DOMAIN given /\ Params[k] = given[k]
  BY <1>1 DEF operation_params
<1>5. "limit" \in DOMAIN given => "limit" \in DOMAIN Params
  BY <1>1 DEF operation_params, ENVELOPE_KEYS
<1>6. Has(Params, "limit", "int") <=> Has(given, "limit", "int")
  BY <1>4, <1>5 DEF Has
<1>7. Has(given, "limit", "int") => given["limit"].int \in Int
  BY DEF Has, CallInv, ArgumentsOK
<1>8. Has(given, "limit", "int") => "limit" \in DOMAIN Params /\ Params["limit"] = given["limit"]
  BY <1>4, <1>5 DEF Has
<1> QED
  BY <1>3, <1>6, <1>7, <1>8 DEF result_limit

LEMMA MergeTellsAll ==
  ASSUME CallInv, WorkInv, ReqInv, CoverInv, GatherInv, Merge, Request.name = "symbol-search"
  PROVE  /\ Honest(reply'.value, Adds(Counts, ToSet(asked)))
         /\ Has(given, "limit", "int") /\ given["limit"].int >= 0 =>
              Len(reply'.value["symbols"].list) =< given["limit"].int
<1> DEFINE limit  == result_limit(Params, req.descriptor)
           merged == FoldLeft(merge, Head(queries), Tail(queries))
           n      == Adds(Counts, ToSet(asked))
<1>1. pc = "next" /\ left = <<>> /\ reply'.value = merge_query_results(queries, limit)
  BY DEF Merge, Answer
<1>2. Tells(queries, asked, Counts) /\ Len(asked) = Len(queries) + 0
      /\ asked \in Seq(Located) /\ Distinct(asked)
  BY <1>1 DEF GatherInv, Gathers, WorkInv
<1>3. asked # <<>>
  <2>1. Chosen # <<>> /\ ToSet(asked) \union Of(left) = Of(Chosen) /\ Candidates # <<>>
    BY <1>1 DEF CoverInv, IsDirected, ReqInv, HasParsed
  <2>2. Of(<<>>) = {} /\ ToSet(<<>>) = {}
    BY DEF Of, ToSet
  <2>3. Chosen \in Seq(LanguageSet)
    BY <2>1, ChosenFacts
  <2>4. provider_of(Head(Chosen)) \in Of(Chosen)
    BY <2>1, <2>3, TailMembers DEF Of
  <2> QED
    BY <1>1, <2>1, <2>2, <2>4
<1>4. Len(queries) = Len(asked) /\ queries # <<>>
  <2>1. Len(asked) \in Nat \ {0}
    BY <1>2, <1>3, SeqPlain
  <2>2. queries \in Seq(ToSet(queries))
    BY <1>2 DEF Tells
  <2>3. Len(queries) \in Nat
    BY <2>2, SeqPlain
  <2>4. Len(<<>>) = 0
    OBVIOUS
  <2> QED
    BY <1>2, <2>1, <2>3, <2>4
<1>5. Counts \in [Located -> Nat]
  BY FoundIsCounted DEF Counts
<1>6. n \in Nat
  <2>1. \A p : Part(Counts, p, ToSet(asked)) \in Nat
    <3>1. ToSet(asked) \subseteq Located
      BY <1>2, SeqPlain DEF ToSet
    <3> QED
      BY <1>5, <3>1 DEF Part
  <2> QED
    BY <2>1 DEF Adds
<1>7. Honest(merged, n)
  BY <1>2, <1>4, <1>5, MergeTells
<1>8. merge_query_results(queries, limit) = IF limit = NoLimit THEN merged ELSE cap_lists(merged, limit)
  BY <1>4 DEF merge_query_results
<1>9. /\ limit \in Nat \union {NoLimit}
      /\ Has(given, "limit", "int") /\ given["limit"].int >= 0 => limit = given["limit"].int
  BY <1>1, LimitOfTheCall
<1> HIDE DEF merged, n, limit
<1>10. CASE limit = NoLimit
  <2>1. ~(Has(given, "limit", "int") /\ given["limit"].int >= 0)
    BY <1>9, <1>10 DEF NoLimit
  <2> QED
    BY <1>1, <1>7, <1>8, <1>10, <2>1 DEF n
<1>11. CASE limit # NoLimit
  <2>1. limit \in Nat
    BY <1>9, <1>11
  <2>2. Honest(cap_lists(merged, limit), n) /\ Len(cap_lists(merged, limit)["symbols"].list) =< limit
    BY <1>6, <1>7, <2>1, HonestCap
  <2> QED
    BY <1>1, <1>8, <1>9, <1>11, <2>2 DEF n
<1> QED
  BY <1>10, <1>11

LEMMA InitGathers == Init => GatherInv
  BY DEF Init, GatherInv, Gathers

LEMMA GatherKept ==
  ASSUME CallInv, WorkInv, EarlyInv, ReqInv, CoverInv, GatherInv, [Next]_vars
  PROVE  GatherInv'
<1>1. CASE \/ ProjectStatus \/ ListOperations \/ ParseCall \/ FinishEdit
  <2>1. UNCHANGED <<call, queries>> /\ pc \in {"called", "finish"}
    BY <1>1 DEF ProjectStatus, ListOperations, ParseCall, FinishEdit, work
  <2>2. (pc' = "answered" /\ reply'.kind # "result") \/ (pc = "called" /\ pc' = "parsed")
    <3>1. CASE FinishEdit
      BY <3>1, FinishAnswers
    <3>2. CASE ParseCall
      BY <3>2, ParseUndirects DEF ParseCall, Error
    <3>3. CASE ProjectStatus \/ ListOperations
      BY <3>3 DEF ProjectStatus, ListOperations, Answer, project_status, Status, Error
    <3> QED
      BY <1>1, <3>1, <3>2, <3>3
  <2> QED
    BY <2>1, <2>2 DEF GatherInv, Gathers, Request, call
<1>2. CASE Dispatch
  <2>1. UNCHANGED <<call, queries>> /\ pc = "parsed"
    BY <1>2 DEF Dispatch
  <2> QED
    BY <1>2, <2>1, DispatchDirects DEF GatherInv, Gathers, Request, call, Error
<1>3. CASE ValidateExpectation
  <2>1. UNCHANGED <<call, asked, queries>> /\ pc = "validate"
        /\ (pc' = "next" \/ (pc' = "answered" /\ reply' = Error))
    BY <1>3 DEF ValidateExpectation, Answer, work
  <2>2. asked = <<>> /\ Len(<<>>) = 0
    BY <2>1 DEF EarlyInv
  <2>3. Tells(<<>>, asked', Counts')
    BY TellsNothing
  <2> QED
    BY <2>1, <2>2, <2>3 DEF GatherInv, Gathers, Request, call, Error
<1>4. CASE SkipLanguage \/ BeginRequest \/ OthersSave \/ UNCHANGED vars
  <2>1. UNCHANGED <<call, asked, queries, reply>>
        /\ (pc' = pc \/ (pc = "begin" /\ pc' = "run"))
    BY <1>4 DEF SkipLanguage, BeginRequest, OthersSave, vars, work
  <2>2. Counts' = Counts
    BY <2>1, CountsAreKept DEF call
  <2>3. Tells(queries, asked, Counts) => Tells(queries', asked', Counts')
    BY <2>1, <2>2
  <2>4. ToldAll => ToldAll'
    BY <2>1, <2>2 DEF ToldAll, call
  <2> QED
    BY <2>1, <2>3, <2>4 DEF GatherInv, Gathers, Request, call
<1>5. CASE NextLanguage
  <2>1. /\ pc = "next" /\ left # <<>> /\ asked' = Append(asked, provider_of(Head(left)))
        /\ UNCHANGED <<call, queries>>
        /\ (pc' = "begin" \/ (pc' = "answered" /\ reply' = Error))
    BY <1>5 DEF NextLanguage, Answer
  <2>2. provider_of(Head(left)) \in Located /\ asked \in Seq(Located)
    BY <2>1, TailMembers DEF WorkInv
  <2>3. Counts' = Counts
    BY <2>1, CountsAreKept DEF call
  <2>4. Tells(queries, asked, Counts) => Tells(queries', asked', Counts')
    BY <2>1, <2>2, <2>3, TellsMore
  <2>5. Len(asked') = Len(asked) + 1 /\ Len(asked) \in Nat
    BY <2>1, <2>2
  <2>6. Request.name = "symbol-search" =>
          Tells(queries, asked, Counts) /\ Len(asked) = Len(queries) + 0
    BY <2>1 DEF GatherInv, Gathers
  <2>7. Len(asked) = Len(queries) + 0 => Len(asked') = Len(queries') + 1
    <3>1. Len(asked) = Len(queries) + 0 /\ Tells(queries, asked, Counts) => Len(queries) \in Nat
      BY SeqPlain DEF Tells
    <3> QED
      BY <2>1, <2>5, <3>1
  <2> QED
    BY <2>1, <2>4, <2>6, <2>7 DEF GatherInv, Gathers, Request, call, Error
<1>6. CASE RunOperation
  <2>1. UNCHANGED <<call, asked>> /\ pc = "run"
    BY <1>6 DEF RunOperation
  <2>2. Counts' = Counts
    BY <2>1, CountsAreKept DEF call
  <2>3. CASE outcome'.kind # "query"
    BY <1>6, <2>1, <2>3, RunTakes DEF GatherInv, Gathers, Error
  <2>4. CASE outcome'.kind = "query" /\ Request.name = "symbol-search"
    <3>1. /\ Tells(queries', asked, Counts) /\ Len(queries') = Len(asked)
          /\ pc' = "next"
      BY <1>6, <2>4, SearchGathers
    <3>2. Tells(queries', asked', Counts')
      BY <2>1, <2>2, <3>1
    <3>3. Len(asked') = Len(queries') + 0
      <4>1. Len(asked) \in Nat
        BY SeqPlain DEF WorkInv
      <4> QED
        BY <2>1, <3>1, <4>1
    <3> QED
      BY <3>1, <3>2, <3>3 DEF GatherInv, Gathers
  <2>5. CASE Request.name # "symbol-search"
    BY <2>1, <2>5 DEF GatherInv, Request, call
  <2> QED
    BY <2>3, <2>4, <2>5
<1>7. CASE Merge
  <2>1. UNCHANGED <<call, asked, queries>> /\ pc' = "answered"
    BY <1>7 DEF Merge, Answer, work
  <2>2. Counts' = Counts
    BY <2>1, CountsAreKept DEF call
  <2>3. Request.name = "symbol-search" => ToldAll'
    BY <1>7, <2>1, <2>2, MergeTellsAll DEF ToldAll, call
  <2> QED
    BY <2>1, <2>3 DEF GatherInv, Gathers, Request, call
<1>8. CASE NextRequest
  BY <1>8 DEF NextRequest, Fresh, GatherInv, Gathers
<1> QED
  BY <1>1, <1>2, <1>3, <1>4, <1>5, <1>6, <1>7, <1>8 DEF Next, CallSteps

(* However many languages a search asks, and however many symbols their    *)
(* servers find: the count is of all of them, the list keeps within the    *)
(* caller's limit, and it says so exactly when something is left out:      *)
(* merge_query_results, cap_lists, ops.rs.                                 *)
THEOREM MergesAreHonest == Spec => []MergedIsHonest
<1>1. ASSUME WholeInv, GatherInv PROVE MergedIsHonest
  <2> SUFFICES ASSUME reply.kind = "result", pc = "answered", Request.name = "symbol-search"
               PROVE  LET count == reply.value["count"].num
                          shown == Len(reply.value["symbols"].list)
                      IN  /\ count = Total(ToSet(asked))
                          /\ Has(given, "limit", "int") /\ given["limit"].int >= 0 =>
                                shown <= given["limit"].int
                          /\ ("truncated" \in DOMAIN reply.value) <=> shown < count
    BY DEF MergedIsHonest, Total
  <2> DEFINE n == Adds(Counts, ToSet(asked))
  <2>1. ToldAll
    BY <1>1 DEF GatherInv, Gathers
  <2>2. Total(ToSet(asked)) = n
    <3>1. ToSet(asked) \in SUBSET Located
      BY <1>1, SeqPlain DEF WholeInv, WorkInv, ToSet
    <3> QED
      BY <1>1, <3>1, TotalOfParts DEF WholeInv
  <2> HIDE DEF n
  <2>3. Honest(reply.value, n)
    BY <2>1 DEF ToldAll, n
  <2>4. reply.value["count"] = [num |-> n]
    BY <2>3 DEF Honest
  <2>5. reply.value["count"].num = n
    BY <2>4
  <2>6. ("truncated" \in DOMAIN reply.value) <=> Len(reply.value["symbols"].list) < n
    BY <2>3 DEF Honest
  <2> QED
    BY <2>1, <2>2, <2>5, <2>6 DEF ToldAll
<1>2. WholeInv /\ GatherInv /\ [Next]_vars => GatherInv'
  BY GatherKept DEF WholeInv
<1>3. Spec => []GatherInv
  BY InitGathers, <1>2, WholeAlways, PTL DEF Spec
<1> QED
  BY <1>1, <1>3, WholeAlways, PTL
=============================================================================
