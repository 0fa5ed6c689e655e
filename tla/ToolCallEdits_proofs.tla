-------------------------- MODULE ToolCallEdits_proofs --------------------------
(* Where the edits of ToolCall land, for every site and every script, and   *)
(* what a status therefore tells of the files that were edited.             *)
EXTENDS ToolCall_proofs

-----------------------------------------------------------------------------
(* Paths of whatever components.                                           *)
IsSeq(s) == s \in Seq(ToSet(s))

LEMMA SeqIs ==
  ASSUME NEW T, NEW s \in Seq(T)
  PROVE  IsSeq(s)
BY SeqOfItsOwn DEF IsSeq

LEMMA InOne ==
  ASSUME NEW p, NEW q, IsSeq(p), IsSeq(q)
  PROVE  \E T : p \in Seq(T) /\ q \in Seq(T)
<1> DEFINE T == ToSet(p) \union ToSet(q)
<1>1. p \in Seq(ToSet(p)) /\ q \in Seq(ToSet(q))
  BY DEF IsSeq
<1>2. p \in Seq(T) /\ q \in Seq(T)
  BY <1>1
<1> HIDE DEF T
<1> QED
  BY <1>2

LEMMA JoinsUp ==
  ASSUME NEW p, NEW q, IsSeq(p), IsSeq(q)
  PROVE  IsSeq(p \o q) /\ IsSeq(Join(p, q)) /\ StartsWith(p \o q, p)
<1>1. PICK T : p \in Seq(T) /\ q \in Seq(T)
  BY InOne
<1>2. p \o q \in Seq(T)
  BY <1>1
<1>3. IsSeq(p \o q)
  BY <1>2, SeqIs
<1>4. StartsWith(p \o q, p)
  BY <1>1, StartsOf
<1> QED
  BY <1>3, <1>4 DEF Join

LEMMA Strips ==
  ASSUME NEW p, NEW q, IsSeq(p), IsSeq(q), StartsWith(p, q)
  PROVE  IsSeq(StripPrefix(p, q)) /\ p = q \o StripPrefix(p, q)
<1>1. PICK T : p \in Seq(T) /\ q \in Seq(T)
  BY InOne
<1>2. StripPrefix(p, q) \in Seq(T)
  BY <1>1, PrefixesOf
<1>3. p = q \o StripPrefix(p, q)
  BY <1>1, SplitOf
<1> QED
  BY <1>2, <1>3, SeqIs

LEMMA StrippedOf ==
  ASSUME NEW T, NEW p \in Seq(T), NEW q \in Seq(T), StartsWith(p, q)
  PROVE  /\ StripPrefix(p, q) \in Seq(T)
         /\ Len(StripPrefix(p, q)) = Len(p) - Len(q)
         /\ \A k \in 1..(Len(p) - Len(q)) : StripPrefix(p, q)[k] = p[Len(q) + k]
  BY PrefixesOf

LEMMA Unjoins ==
  ASSUME NEW p, NEW q, IsSeq(p), IsSeq(q)
  PROVE  StripPrefix(p \o q, p) = q
<1>1. PICK T : p \in Seq(T) /\ q \in Seq(T)
  BY InOne
<1> DEFINE whole == p \o q
<1> DEFINE r == StripPrefix(whole, p)
<1>2. StartsWith(whole, p) /\ whole \in Seq(T) /\ Len(whole) = Len(p) + Len(q)
      /\ Len(p) \in Nat /\ Len(q) \in Nat
      /\ \A k \in 1..Len(q) : whole[Len(p) + k] = q[k]
  BY <1>1, StartsOf
<1> HIDE DEF whole
<1>3. /\ r \in Seq(T)
      /\ Len(r) = Len(whole) - Len(p)
      /\ \A k \in 1..(Len(whole) - Len(p)) : r[k] = whole[Len(p) + k]
  <2>1. p \in Seq(T) /\ whole \in Seq(T) /\ StartsWith(whole, p)
    BY ONLY <1>1, <1>2
  <2> QED
    BY ONLY <2>1, StrippedOf, Zenon
<1> HIDE DEF r
<1>4. Len(r) = Len(q) /\ r \in Seq(T)
  BY ONLY <1>2, <1>3
<1>5. \A k \in 1..Len(q) : r[k] = q[k]
  BY ONLY <1>2, <1>3
<1>6. r = q
  BY ONLY <1>1, <1>4, <1>5, SeqEqual
<1> QED
  BY <1>6 DEF r, whole

LEMMA InsideJoins ==
  ASSUME NEW p, NEW w, IsSeq(p), IsSeq(w), inside(p, w)
  PROVE  IsSeq(resolve_path(p, w)) /\ StartsWith(resolve_path(p, w), w)
<1>1. CASE IsAbsolute(p)
  BY <1>1 DEF inside, resolve_path
<1>2. CASE ~IsAbsolute(p)
  BY <1>2, JoinsUp DEF resolve_path, Join
<1> QED
  BY <1>1, <1>2

LEMMA Retargets ==
  ASSUME NEW p, NEW from, NEW to, IsSeq(p), IsSeq(from), IsSeq(to)
  PROVE  IsSeq(retarget_path(p, from, to))
BY Strips, JoinsUp DEF retarget_path

-----------------------------------------------------------------------------
(* Links.                                                                  *)
LinkOf(p) == CHOOSE l \in DOMAIN World.link : StartsWith(p, l)

LEMMA Follows ==
  ASSUME NEW p
  PROVE  /\ (\E l \in DOMAIN World.link : StartsWith(p, l)) =>
              /\ LinkOf(p) \in DOMAIN World.link /\ StartsWith(p, LinkOf(p))
              /\ canonicalize(p) = World.link[LinkOf(p)] \o StripPrefix(p, LinkOf(p))
         /\ ~(\E l \in DOMAIN World.link : StartsWith(p, l)) => canonicalize(p) = p
BY DEF LinkOf, canonicalize, Follow

LEMMA LinksAreSeqs ==
  ASSUME NEW l \in DOMAIN World.link
  PROVE  IsSeq(l) /\ IsSeq(World.link[l]) /\ l \in Seq(STRING) /\ World.link[l] \in Seq(STRING)
         /\ Len(l) \in Nat \ {0}
<1>1. l \in Seq(STRING) /\ World.link[l] \in Seq(STRING) /\ IsAbsolute(l)
  BY WorldAssumption DEF IsPath
<1>2. Len(l) \in Nat \ {0}
  BY <1>1 DEF IsAbsolute
<1> QED
  BY <1>1, <1>2, SeqIs

(* A file lies at a path that leads to where it is.                        *)
LEMMA LeadsThere ==
  ASSUME NEW q, IsSeq(q)
  PROVE  q \in Aliases(canonicalize(q))
<1> DEFINE p == canonicalize(q)
<1>1. CASE ~\E l \in DOMAIN World.link : StartsWith(q, l)
  BY <1>1, Follows DEF Aliases
<1>2. CASE \E l \in DOMAIN World.link : StartsWith(q, l)
  <2>1. PICK l \in DOMAIN World.link :
           StartsWith(q, l) /\ p = World.link[l] \o StripPrefix(q, l)
    BY <1>2, Follows
  <2>2. IsSeq(l) /\ IsSeq(World.link[l])
    BY LinksAreSeqs
  <2>3. IsSeq(StripPrefix(q, l)) /\ q = l \o StripPrefix(q, l)
    BY <2>1, <2>2, Strips
  <2>4. StartsWith(p, World.link[l]) /\ StripPrefix(p, World.link[l]) = StripPrefix(q, l)
    <3> HIDE DEF p
    <3> QED
      BY <2>1, <2>2, <2>3, JoinsUp, Unjoins
  <2>5. l \o StripPrefix(p, World.link[l]) \in Aliases(p)
    BY <2>4 DEF Aliases
  <2> QED
    BY <2>3, <2>4, <2>5
<1> QED
  BY <1>1, <1>2

LEMMA Concats ==
  ASSUME NEW T, NEW t \in Seq(T), NEW r \in Seq(T)
  PROVE  /\ t \o r \in Seq(T) /\ Len(t \o r) = Len(t) + Len(r)
         /\ \A k \in 1..Len(t) : (t \o r)[k] = t[k]
         /\ \A k \in 1..Len(r) : (t \o r)[Len(t) + k] = r[k]
OBVIOUS

-----------------------------------------------------------------------------
(* The working copies around a file.                                       *)
Upto(f, n) == SubSeq(f, 1, n)

LEMMA UptoFacts ==
  ASSUME NEW f \in Seq(STRING), NEW n \in 0..Len(f), NEW q \in Seq(STRING)
  PROVE  /\ Upto(f, n) \in Seq(STRING) /\ Len(Upto(f, n)) = n
         /\ StartsWith(Upto(f, n), q) <=> StartsWith(f, q) /\ Len(q) =< n
<1>1. /\ Upto(f, n) \in Seq(STRING) /\ Len(Upto(f, n)) = n
      /\ \A k \in 1..n : Upto(f, n)[k] = f[k]
  BY DEF Upto
<1>2. Len(f) \in Nat /\ n \in Nat /\ n =< Len(f) /\ Len(q) \in Nat
  OBVIOUS
<1>3. StartsWith(f, q) <=> Len(q) =< Len(f) /\ \A k \in 1..Len(q) : q[k] = f[k]
  BY PrefixFacts
<1>4. StartsWith(Upto(f, n), q) <=> Len(q) =< n /\ \A k \in 1..Len(q) : q[k] = Upto(f, n)[k]
  BY <1>1, PrefixFacts
<1>5. ASSUME Len(q) =< n PROVE \A k \in 1..Len(q) : Upto(f, n)[k] = f[k]
  BY <1>1, <1>2, <1>5
<1> QED
  BY <1>1, <1>2, <1>3, <1>4, <1>5

LEMMA OneLink ==
  ASSUME NEW f \in Seq(STRING), NEW l \in DOMAIN World.link, StartsWith(f, l)
  PROVE  \A k \in DOMAIN World.link : StartsWith(f, k) => k = l
<1> SUFFICES ASSUME NEW k \in DOMAIN World.link, StartsWith(f, k) PROVE k = l
  OBVIOUS
<1>1. l \in Seq(STRING) /\ k \in Seq(STRING) /\ Len(l) \in Nat /\ Len(k) \in Nat
  BY LinksAreSeqs
<1>2. /\ Len(l) =< Len(f) /\ \A i \in 1..Len(l) : l[i] = f[i]
      /\ Len(k) =< Len(f) /\ \A i \in 1..Len(k) : k[i] = f[i]
  BY <1>1, PrefixFacts
<1>3. CASE Len(k) =< Len(l)
  <2>1. \A i \in 1..Len(k) : k[i] = l[i]
    BY <1>1, <1>2, <1>3
  <2>2. StartsWith(l, k)
    BY <1>1, <1>3, <2>1, PrefixFacts
  <2> QED
    BY <2>2, WorldAssumption DEF StartsWith
<1>4. CASE Len(l) =< Len(k)
  <2>1. \A i \in 1..Len(l) : l[i] = k[i]
    BY <1>1, <1>2, <1>4
  <2>2. StartsWith(k, l)
    BY <1>1, <1>4, <2>1, PrefixFacts
  <2> QED
    BY <2>2, WorldAssumption DEF StartsWith
<1> QED
  BY <1>1, <1>3, <1>4

(* Where a part of a path that goes through a link leads.                  *)
LEMMA PartThrough ==
  ASSUME NEW f \in Seq(STRING), NEW l \in DOMAIN World.link, StartsWith(f, l),
         NEW n \in Len(l)..Len(f)
  PROVE  /\ canonicalize(Upto(f, n)) = World.link[l] \o StripPrefix(Upto(f, n), l)
         /\ canonicalize(Upto(f, n)) \in Seq(STRING)
         /\ Len(canonicalize(Upto(f, n))) = Len(World.link[l]) + (n - Len(l))
         /\ \A k \in 1..Len(World.link[l]) : canonicalize(Upto(f, n))[k] = World.link[l][k]
         /\ \A k \in 1..(n - Len(l)) :
              canonicalize(Upto(f, n))[Len(World.link[l]) + k] = f[Len(l) + k]
<1> DEFINE a == Upto(f, n)
           t == World.link[l]
           r == StripPrefix(a, l)
<1>1. l \in Seq(STRING) /\ t \in Seq(STRING) /\ Len(l) \in Nat /\ Len(t) \in Nat /\ Len(f) \in Nat
  BY LinksAreSeqs
<1>2. n \in 0..Len(f) /\ Len(l) =< n /\ n \in Nat
  BY <1>1
<1>3. a \in Seq(STRING) /\ Len(a) = n /\ StartsWith(a, l)
  BY <1>1, <1>2, UptoFacts
<1>4. LinkOf(a) = l
  <2>1. LinkOf(a) \in DOMAIN World.link /\ StartsWith(a, LinkOf(a))
    BY <1>3, Follows
  <2> QED
    BY <1>3, <2>1, OneLink
<1>5. canonicalize(a) = t \o r
  BY <1>3, <1>4, Follows
<1>6. /\ r \in Seq(STRING) /\ Len(r) = n - Len(l)
      /\ \A k \in 1..(n - Len(l)) : r[k] = a[Len(l) + k]
  BY <1>1, <1>3, PrefixFacts
<1>7. \A k \in 1..(n - Len(l)) : a[Len(l) + k] = f[Len(l) + k]
  <2>1. \A k \in 1..n : a[k] = f[k]
    BY <1>2 DEF Upto
  <2>2. \A k \in 1..(n - Len(l)) : Len(l) + k \in 1..n
    BY <1>1, <1>2
  <2> QED
    BY <2>1, <2>2
<1> HIDE DEF a, t, r
<1>8. /\ t \o r \in Seq(STRING) /\ Len(t \o r) = Len(t) + Len(r)
      /\ \A k \in 1..Len(t) : (t \o r)[k] = t[k]
      /\ \A k \in 1..Len(r) : (t \o r)[Len(t) + k] = r[k]
  <2>1. t \in Seq(STRING)
    BY <1>1
  <2>2. r \in Seq(STRING)
    BY <1>6
  <2> QED
    BY <2>1, <2>2, Concats
<1>9. canonicalize(a) = t \o r /\ canonicalize(a) \in Seq(STRING) /\ Len(canonicalize(a)) = Len(t) + (n - Len(l))
  BY <1>5, <1>6, <1>8
<1>10. \A k \in 1..Len(t) : canonicalize(a)[k] = t[k]
  BY <1>5, <1>8
<1>11. \A k \in 1..(n - Len(l)) : canonicalize(a)[Len(t) + k] = f[Len(l) + k]
  BY <1>5, <1>6, <1>7, <1>8
<1> QED
  BY <1>9, <1>10, <1>11 DEF a, t, r

LEMMA PartAsItIs ==
  ASSUME NEW f \in Seq(STRING), ~\E l \in DOMAIN World.link : StartsWith(f, l),
         NEW n \in 0..Len(f)
  PROVE  canonicalize(Upto(f, n)) = Upto(f, n)
<1>1. \A l \in DOMAIN World.link : ~StartsWith(Upto(f, n), l)
  BY UptoFacts, LinksAreSeqs
<1> QED
  BY <1>1, Follows

Covers(f, d, n) ==
    /\ n \in 1..(Len(f) - 1)
    /\ canonicalize(Upto(f, n)) = d
    /\ \A i \in n..Len(f) : Len(d) =< Len(canonicalize(Upto(f, i)))

LEMMA CopiesArePaths ==
  ASSUME NEW d \in DOMAIN World.copies
  PROVE  d \in Seq(STRING) /\ Len(d) \in Nat \ {0} /\ World.copies[d].marks # {}
<1>1. d \in Seq(STRING) /\ IsAbsolute(d) /\ World.copies[d].marks # {}
  BY WorldAssumption DEF IsPath
<1> QED
  BY <1>1 DEF IsAbsolute

LEMMA AroundIsAbove ==
  ASSUME NEW f \in Seq(STRING), NEW d \in CopiesAround(f)
  PROVE  \E n : Covers(f, d, n)
<1> DEFINE c == canonicalize(f)
<1>1. /\ d \in DOMAIN World.copies /\ StartsWith(c, d) /\ d # c
      /\ d \in Seq(STRING) /\ Len(d) \in Nat \ {0} /\ Len(f) \in Nat
  BY CopiesArePaths DEF CopiesAround
<1>2. Upto(f, Len(f)) = f
  BY DEF Upto
<1>3. CASE ~\E l \in DOMAIN World.link : StartsWith(f, l)
  <2>1. c = f
    BY <1>3, Follows
  <2>2. Len(d) =< Len(f) /\ \A k \in 1..Len(d) : d[k] = f[k]
    BY <1>1, <2>1, PrefixFacts
  <2>3. Len(d) # Len(f)
    BY <1>1, <2>1, <2>2, SeqEqual
  <2>4. Upto(f, Len(d)) = d
    <3>1. Len(d) \in 0..Len(f)
      BY <1>1, <2>2
    <3>2. Upto(f, Len(d)) \in Seq(STRING) /\ Len(Upto(f, Len(d))) = Len(d)
      BY <1>1, <3>1, UptoFacts
    <3>3. \A k \in 1..Len(d) : Upto(f, Len(d))[k] = f[k]
      BY <3>1 DEF Upto
    <3> QED
      BY <1>1, <2>2, <3>2, <3>3, SeqEqual
  <2>5. \A i \in 0..Len(f) : canonicalize(Upto(f, i)) = Upto(f, i) /\ Len(Upto(f, i)) = i
    BY <1>1, <1>3, PartAsItIs, UptoFacts
  <2>6. Len(d) \in 1..(Len(f) - 1) /\ \A i \in Len(d)..Len(f) : i \in 0..Len(f) /\ Len(d) =< i
    BY <1>1, <2>2, <2>3
  <2>7. Covers(f, d, Len(d))
    <3>1. Len(d) \in 0..Len(f)
      BY <1>1, <2>2
    <3>2. canonicalize(Upto(f, Len(d))) = d
      BY <2>4, <2>5, <3>1
    <3>3. \A i \in Len(d)..Len(f) : Len(d) =< Len(canonicalize(Upto(f, i)))
      BY <2>5, <2>6
    <3> QED
      BY <2>6, <3>2, <3>3 DEF Covers
  <2> QED
    BY <2>7
<1>4. CASE \E l \in DOMAIN World.link : StartsWith(f, l)
  <2>1. PICK l \in DOMAIN World.link : StartsWith(f, l)
    BY <1>4
  <2> DEFINE t == World.link[l]
             n == (Len(l) + Len(d)) - Len(t)
  <2>2. l \in Seq(STRING) /\ t \in Seq(STRING) /\ Len(l) \in Nat \ {0} /\ Len(t) \in Nat
        /\ Len(l) =< Len(f)
    BY <2>1, LinksAreSeqs, PrefixFacts
  <2>3. /\ c \in Seq(STRING) /\ Len(c) = Len(t) + (Len(f) - Len(l))
        /\ \A k \in 1..Len(t) : c[k] = t[k]
        /\ \A k \in 1..(Len(f) - Len(l)) : c[Len(t) + k] = f[Len(l) + k]
    <3>1. Len(f) \in Len(l)..Len(f)
      BY <1>1, <2>2
    <3>2. /\ canonicalize(Upto(f, Len(f))) \in Seq(STRING)
          /\ Len(canonicalize(Upto(f, Len(f)))) = Len(t) + (Len(f) - Len(l))
          /\ \A k \in 1..Len(t) : canonicalize(Upto(f, Len(f)))[k] = t[k]
          /\ \A k \in 1..(Len(f) - Len(l)) :
               canonicalize(Upto(f, Len(f)))[Len(t) + k] = f[Len(l) + k]
      BY <2>1, <3>1, PartThrough
    <3> HIDE DEF t
    <3> QED
      BY <1>2, <3>2
  <2>4. Len(d) =< Len(c) /\ \A k \in 1..Len(d) : d[k] = c[k]
    <3> HIDE DEF c
    <3> QED
      BY <1>1, <2>3, PrefixFacts
  <2>5. Len(d) # Len(c)
    <3> HIDE DEF c
    <3> QED
      BY <1>1, <2>3, <2>4, SeqEqual
  <2>6. Len(t) =< Len(d)
    <3> SUFFICES ASSUME Len(d) =< Len(t), Len(d) # Len(t) PROVE FALSE
      BY <1>1, <2>2
    <3>1. \A k \in 1..Len(d) : k \in 1..Len(t)
      BY <1>1, <2>2
    <3>2. \A k \in 1..Len(d) : d[k] = t[k]
      BY <2>3, <2>4, <3>1
    <3>3. StartsWith(t, d) /\ t # d
      BY <1>1, <2>2, <3>2, PrefixFacts
    <3> QED
      BY <2>1, <3>3 DEF CopiesAround
  <2> HIDE DEF c, t
  <2>7. n \in 1..(Len(f) - 1) /\ n \in Len(l)..Len(f) /\ n \in Nat
    BY <1>1, <2>2, <2>3, <2>4, <2>5, <2>6
  <2>8. \A i \in n..Len(f) : i \in Len(l)..Len(f) /\ Len(d) =< Len(t) + (i - Len(l))
    BY <1>1, <2>2, <2>7
  <2> DEFINE e == canonicalize(Upto(f, n))
  <2>9. /\ e \in Seq(STRING) /\ Len(e) = Len(t) + (n - Len(l))
        /\ \A k \in 1..Len(t) : e[k] = t[k]
        /\ \A k \in 1..(n - Len(l)) : e[Len(t) + k] = f[Len(l) + k]
    BY <2>1, <2>7, PartThrough DEF t
  <2> HIDE DEF e
  <2>10. Len(e) = Len(d)
    BY <1>1, <2>2, <2>7, <2>9
  <2>11. \A k \in 1..Len(d) : e[k] = d[k]
    <3> SUFFICES ASSUME NEW k \in 1..Len(d) PROVE e[k] = c[k]
      BY <2>4
    <3>1. CASE k =< Len(t)
      BY <2>2, <2>3, <2>9, <3>1
    <3>2. CASE ~(k =< Len(t))
      <4> DEFINE j == k - Len(t)
      <4>1. j \in 1..(n - Len(l)) /\ j \in 1..(Len(f) - Len(l)) /\ Len(t) + j = k
        BY <1>1, <2>2, <2>7, <3>2
      <4> HIDE DEF j, n
      <4> QED
        BY <2>3, <2>9, <4>1
    <3> QED
      BY <3>1, <3>2
  <2>12. e = d
    BY <1>1, <2>9, <2>10, <2>11, SeqEqual
  <2>13. \A i \in n..Len(f) : Len(canonicalize(Upto(f, i))) = Len(t) + (i - Len(l))
    BY <2>1, <2>8, PartThrough DEF t
  <2>14. Covers(f, d, n)
    <3> HIDE DEF n
    <3>1. \A i \in n..Len(f) : Len(d) =< Len(canonicalize(Upto(f, i)))
      BY <2>8, <2>13
    <3> QED
      BY <2>7, <2>12, <3>1 DEF Covers, e
  <2> QED
    BY <2>14
<1> QED
  BY <1>3, <1>4

LEMMA AncestorFacts ==
  ASSUME NEW f \in Seq(STRING)
  PROVE  /\ \A i \in DOMAIN Ancestors(f) : /\ Len(f) - i \in 1..(Len(f) - 1) /\ i \in Nat
                                           /\ Ancestors(f)[i] = Upto(f, Len(f) - i)
         /\ \A n \in 1..(Len(f) - 1) : Len(f) - n \in DOMAIN Ancestors(f)
<1>1. Len(f) \in Nat
  OBVIOUS
<1> DEFINE T == {Len(f) - 1, 0}
<1>2. DOMAIN Ancestors(f) = 1..Max(T)
      /\ \A i \in DOMAIN Ancestors(f) : Ancestors(f)[i] = Upto(f, Len(f) - i)
  BY DEF Ancestors, Upto
<1>3. CASE Len(f) = 0
  <2>1. Max(T) = 0
    <3>1. T = {-1, 0}
      BY <1>3
    <3>2. \E x \in {-1, 0} : \A y \in {-1, 0} : x >= y
      OBVIOUS
    <3>3. \A x \in {-1, 0} : (\A y \in {-1, 0} : x >= y) => x = 0
      OBVIOUS
    <3> QED
      BY <3>1, <3>2, <3>3 DEF Max
  <2> QED
    BY <1>1, <1>2, <1>3, <2>1
<1>4. CASE Len(f) # 0
  <2>1. T \in SUBSET (0..Len(f)) /\ T # {} /\ Len(f) - 1 \in T
    BY <1>1, <1>4
  <2>2. Max(T) \in T /\ Len(f) - 1 =< Max(T)
    <3> HIDE DEF T
    <3> QED
      BY <1>1, <2>1, MaxFacts
  <2>3. Max(T) = Len(f) - 1
    BY <1>1, <1>4, <2>2
  <2>4. DOMAIN Ancestors(f) = 1..(Len(f) - 1)
    BY <1>2, <2>3
  <2>5. \A i \in 1..(Len(f) - 1) : Len(f) - i \in 1..(Len(f) - 1) /\ i \in Nat
    BY <1>1, <1>4
  <2> HIDE DEF T
  <2> QED
    BY <1>2, <2>4, <2>5
<1> QED
  BY <1>3, <1>4

LEMMA NearestCopy ==
  ASSUME NEW f \in Seq(STRING), IsAbsolute(f)
  PROVE  /\ IsSeq(working_copy_root_containing(f))
         /\ \A d \in CopiesAround(f) :
              /\ working_copy_root_containing(f) # NoPath
              /\ Len(d) =< Len(canonicalize(working_copy_root_containing(f)))
<1>1. /\ \A i \in DOMAIN Ancestors(f) : /\ Len(f) - i \in 1..(Len(f) - 1) /\ i \in Nat
                                        /\ Ancestors(f)[i] = Upto(f, Len(f) - i)
      /\ \A n \in 1..(Len(f) - 1) : Len(f) - n \in DOMAIN Ancestors(f)
  BY AncestorFacts
<1>2. Marked(f) \in SUBSET Nat /\ Marked(f) \subseteq DOMAIN Ancestors(f)
  BY <1>1 DEF Marked
<1>3. Len(f) \in Nat
  OBVIOUS
<1> DEFINE w == working_copy_root_containing(f)
           i == Min(Marked(f))
<1>4. ASSUME Marked(f) # {}
      PROVE  /\ i \in Marked(f) /\ \A j \in Marked(f) : i =< j
             /\ w = Upto(f, Len(f) - i) /\ IsSeq(w) /\ Len(f) - i \in 1..(Len(f) - 1) /\ i \in Nat
  <2>1. i \in Marked(f) /\ \A j \in Marked(f) : i =< j
    BY <1>2, <1>4, MinFacts
  <2>2. w = Ancestors(f)[i]
    BY <1>4 DEF working_copy_root_containing
  <2>3. Len(f) - i \in 0..Len(f) /\ w = Upto(f, Len(f) - i) /\ Len(f) - i \in 1..(Len(f) - 1) /\ i \in Nat
    <3> HIDE DEF i, w
    <3> QED
      BY <1>1, <1>2, <1>3, <2>1, <2>2
  <2>4. Upto(f, Len(f) - i) \in Seq(STRING)
    <3> HIDE DEF i, w
    <3> QED
      BY <2>3 DEF Upto
  <2> QED
    BY <2>1, <2>3, <2>4, SeqIs
<1>5. IsSeq(w)
  <2>1. CASE Marked(f) = {}
    <3>1. NoPath \in Seq({"none"})
      BY DEF NoPath
    <3> QED
      BY <2>1, <3>1, SeqIs DEF working_copy_root_containing
  <2> QED
    BY <1>4, <2>1
<1>6. ASSUME NEW d \in CopiesAround(f)
      PROVE  w # NoPath /\ Len(d) =< Len(canonicalize(w))
  <2>1. PICK n : Covers(f, d, n)
    BY AroundIsAbove
  <2>2. /\ n \in 1..(Len(f) - 1) /\ canonicalize(Upto(f, n)) = d
        /\ \A k \in n..Len(f) : Len(d) =< Len(canonicalize(Upto(f, k)))
    BY <2>1 DEF Covers
  <2>3. d \in DOMAIN World.copies /\ World.copies[d].marks # {}
    BY CopiesArePaths DEF CopiesAround
  <2>4. Marks(Upto(f, n)) # {}
    BY <2>2, <2>3 DEF Marks, CopyAt, Held
  <2>5. Len(f) - n \in Marked(f)
    <3>1. Len(f) - n \in DOMAIN Ancestors(f) /\ Len(f) - (Len(f) - n) = n
      BY <1>1, <1>3, <2>2
    <3>2. Ancestors(f)[Len(f) - n] = Upto(f, n)
      BY <1>1, <3>1
    <3> QED
      BY <2>4, <3>1, <3>2 DEF Marked
  <2>6. i \in Marked(f) /\ i =< Len(f) - n /\ w = Upto(f, Len(f) - i) /\ i \in Nat
        /\ Len(f) - i \in 1..(Len(f) - 1)
    BY <1>4, <2>5
  <2> HIDE DEF i
  <2>7. Len(f) - i \in n..Len(f)
    BY <1>3, <2>2, <2>6
  <2>8. Len(d) =< Len(canonicalize(w))
    BY <2>2, <2>6, <2>7
  <2>9. w # NoPath
    <3>1. w[1] = f[1] /\ f[1] = Root
      BY <1>3, <2>6 DEF Upto, IsAbsolute
    <3>2. NoPath[1] = "none" /\ Root = "/"
      BY DEF NoPath, Root
    <3> QED
      BY <3>1, <3>2
  <2> QED
    BY <2>8, <2>9
<1> QED
  BY <1>5, <1>6

-----------------------------------------------------------------------------
(* Sets in some order.                                                     *)
LEMMA InOrder ==
  ASSUME NEW S, IsFiniteSet(S)
  PROVE  SetToSeq(S) \in Seq(S) /\ ToSet(SetToSeq(S)) = S
<1> DEFINE n == Cardinality(S)
           s == SetToSeq(S)
<1>1. n \in Nat /\ ExistsBijection(1..n, S)
  BY FS_CardinalityType
<1>2. PICK g \in Bijection(1..n, S) : TRUE
  BY <1>1 DEF ExistsBijection
<1>3. g \in [1..n -> S] /\ IsInjective(g)
  <2> HIDE DEF n
  <2> QED
    BY <1>2 DEF Bijection, Injection
<1>4. s \in [1..n -> S] /\ IsInjective(s)
  BY <1>3 DEF SetToSeq
<1>5. s \in Injection(1..n, S)
  BY <1>4 DEF IsInjective, Injection
<1>6. IsFiniteSet(1..n) /\ Cardinality(1..n) = Cardinality(S)
  <2>1. IsFiniteSet(1..n) /\ Cardinality(1..n) = n
    <3> HIDE DEF n
    <3> QED
      BY <1>1, FS_Interval
  <2> QED
    BY <2>1
<1>7. s \in Surjection(1..n, S)
  <2> HIDE DEF n, s
  <2> QED
    BY <1>5, <1>6, FS_Injection
<1>8. \A y \in S : \E i \in 1..n : s[i] = y
  <2> HIDE DEF n, s
  <2> QED
    BY <1>7 DEF Surjection
<1> HIDE DEF s, n
<1>9. s \in Seq(S)
  BY <1>1, <1>4
<1>10. ToSet(s) = S
  BY <1>4, <1>8 DEF ToSet
<1> QED
  BY <1>9, <1>10 DEF s

-----------------------------------------------------------------------------
(* Edits whose paths are sequences.                                        *)
PlainOp(o) ==
    /\ o.op \in {"create", "delete", "rename"} /\ {"op", "path"} \subseteq DOMAIN o
    /\ IsSeq(o.path)
    /\ o.op = "rename" => "to" \in DOMAIN o /\ IsSeq(o.to)

PlainFile(f) == "path" \in DOMAIN f /\ IsSeq(f.path)

Plain(e) ==
    /\ IsSeq(e.files) /\ IsSeq(e.ops)
    /\ \A i \in DOMAIN e.files : PlainFile(e.files[i])
    /\ \A i \in DOMAIN e.ops : PlainOp(e.ops[i])

PlainOutcome(o) == o.kind = "edit" => Plain(o.edit)

PlainChange(c) ==
    /\ c.kind \in {"edits", "create", "delete", "rename"}
    /\ \A u \in Uris(c) : IsSeq(u)

PlainAnswer(a) ==
    a.type = "ok" =>
        /\ IsSeq(a.value.changes) /\ IsSeq(a.value.documentChanges)
        /\ \A c \in ToSet(a.value.changes) : IsSeq(c.uri)
        /\ \A c \in ToSet(a.value.documentChanges) : PlainChange(c)

LEMMA ManyFacts ==
  ASSUME NEW s, IsSeq(s)
  PROVE  /\ Len(s) \in Nat /\ DOMAIN s = 1..Len(s)
         /\ \A i \in DOMAIN s : s[i] \in ToSet(s)
BY DEF IsSeq, ToSet

LEMMA MadeSeq ==
  ASSUME NEW n \in Nat, NEW s, s = [i \in 1..n |-> s[i]]
  PROVE  IsSeq(s) /\ DOMAIN s = 1..n /\ Len(s) = n
<1> DEFINE T == {s[i] : i \in 1..n}
<1>1. s \in [1..n -> T]
  OBVIOUS
<1>2. s \in Seq(T) /\ DOMAIN s = 1..n /\ Len(s) = n
  <2> HIDE DEF T
  <2> QED
    BY <1>1
<1> HIDE DEF T
<1> QED
  BY <1>2, SeqIs

LEMMA UriPaths ==
  ASSUME NEW u, IsSeq(u)
  PROVE  IsSeq(uri_to_path(u))
<1> DEFINE p == uri_to_path(u)
<1>1. Len(u) \in Nat /\ DOMAIN u = 1..Len(u)
  BY ManyFacts
<1>2. p = [i \in 1..Len(u) |-> p[i]]
  BY <1>1 DEF uri_to_path
<1> HIDE DEF p
<1>3. IsSeq(p)
  BY <1>1, <1>2, MadeSeq
<1> QED
  BY <1>3 DEF p

LEMMA EmptyIsPlain == PlainOutcome(Edited(EmptyEdit)) /\ PlainOutcome(Failed)
<1>1. Edited(EmptyEdit).edit = EmptyEdit /\ EmptyEdit.files = <<>> /\ EmptyEdit.ops = <<>>
  BY DEF Edited, EmptyEdit
<1>2. <<>> \in Seq({}) /\ DOMAIN <<>> = {}
  OBVIOUS
<1>3. IsSeq(<<>>)
  BY <1>2, SeqIs
<1>4. Plain(EmptyEdit)
  BY <1>1, <1>2, <1>3 DEF Plain
<1> QED
  BY <1>1, <1>4 DEF PlainOutcome, Failed

LEMMA ResourcePlain ==
  ASSUME NEW c, PlainChange(c), IsOperation(c)
  PROVE  PlainOp(resource_op(c))
<1>1. CASE c.kind = "rename"
  <2>1. IsSeq(c.old) /\ IsSeq(c.new)
    BY <1>1 DEF PlainChange, Uris
  <2>2. IsSeq(uri_to_path(c.old)) /\ IsSeq(uri_to_path(c.new))
    BY <2>1, UriPaths
  <2>3. resource_op(c) = [op |-> "rename", path |-> uri_to_path(c.old), to |-> uri_to_path(c.new)]
    BY <1>1 DEF resource_op
  <2> QED
    BY <2>2, <2>3 DEF PlainOp
<1>2. CASE c.kind # "rename"
  <2>1. c.kind \in {"create", "delete"}
    BY <1>2 DEF IsOperation
  <2>2. IsSeq(c.uri)
    BY <2>1 DEF PlainChange, Uris
  <2>3. IsSeq(uri_to_path(c.uri))
    BY <2>2, UriPaths
  <2>4. resource_op(c) = [op |-> c.kind, path |-> uri_to_path(c.uri)]
    BY <1>2 DEF resource_op
  <2> QED
    BY <2>1, <2>3, <2>4 DEF PlainOp
<1> QED
  BY <1>1, <1>2

LEMMA FiniteImage ==
  ASSUME NEW S, IsFiniteSet(S), NEW f
  PROVE  IsFiniteSet({f[x] : x \in S})
<1> DEFINE T == {f[x] : x \in S}
           g == [x \in S |-> f[x]]
<1>1. g \in Surjection(S, T)
  <2>1. g \in [S -> T] /\ \A y \in T : \E x \in S : g[x] = y
    OBVIOUS
  <2> HIDE DEF g, T
  <2> QED
    BY <2>1 DEF Surjection
<1> HIDE DEF g, T
<1>2. IsFiniteSet(T)
  BY <1>1, FS_Surjection
<1> QED
  BY <1>2 DEF T

LEMMA ConvertsPlain ==
  ASSUME NEW a, PlainAnswer(a)
  PROVE  PlainOutcome(to_core_workspace_edit(a))
<1>1. CASE a.type # "ok"
  BY <1>1, EmptyIsPlain DEF to_core_workspace_edit
<1>2. CASE a.type = "ok"
  <2> DEFINE changes == a.value.documentChanges
             edits   == {c \in ToSet(changes) : c.kind = "edits"}
             more    == Those(changes, edits)
             listed  == a.value.changes \o more
             of      == [i \in DOMAIN listed |-> listed[i].uri]
             its     == {listed[i].uri : i \in DOMAIN listed}
             uris    == SetToSeq(its)
             ops     == {c \in ToSet(changes) : IsOperation(c)}
             others  == Those(changes, ops)
             e       == [files |-> [i \in DOMAIN uris |->
                                       [path |-> uri_to_path(uris[i]), edits |-> EditsOf(listed, uris[i])]],
                         ops   |-> [i \in DOMAIN others |-> resource_op(others[i])]]
  <2>1. to_core_workspace_edit(a) = Edited(e)
    BY <1>2 DEF to_core_workspace_edit
  <2>2. /\ changes \in Seq(ToSet(changes)) /\ a.value.changes \in Seq(ToSet(a.value.changes))
        /\ \A c \in ToSet(a.value.changes) : IsSeq(c.uri)
        /\ \A c \in ToSet(changes) : PlainChange(c)
    BY <1>2 DEF PlainAnswer, IsSeq
  <2> HIDE DEF changes
  <2>3. more \in Seq(ToSet(changes)) /\ ToSet(more) = edits
    <3>1. ToSet(changes) \intersect edits = edits
      OBVIOUS
    <3> HIDE DEF edits
    <3> QED
      BY <2>2, <3>1, ThoseMembers
  <2> DEFINE T == ToSet(a.value.changes) \union edits
  <2>4. listed \in Seq(T)
    <3>1. a.value.changes \in Seq(T)
      BY <2>2
    <3>2. more \in Seq(edits)
      BY <2>3, SeqOfItsOwn
    <3>3. more \in Seq(T)
      BY <3>2
    <3> HIDE DEF T, more
    <3> QED
      BY <3>1, <3>3
  <2>5. \A c \in T : IsSeq(c.uri)
    BY <2>2 DEF PlainChange, Uris
  <2> HIDE DEF T, listed
  <2>6. Len(listed) \in Nat /\ DOMAIN listed = 1..Len(listed) /\ \A i \in DOMAIN listed : listed[i] \in T
    BY <2>4
  <2>7. IsFiniteSet(its)
    <3>1. IsFiniteSet(DOMAIN listed)
      BY <2>6, FS_Interval
    <3>2. its = {of[i] : i \in DOMAIN listed}
      OBVIOUS
    <3> HIDE DEF of, its
    <3> QED
      BY <3>1, <3>2, FiniteImage
  <2>8. \A u \in its : IsSeq(u)
    BY <2>5, <2>6
  <2> HIDE DEF its
  <2>9. uris \in Seq(its)
    BY <2>7, InOrder
  <2> HIDE DEF uris
  <2>10. Len(uris) \in Nat /\ DOMAIN uris = 1..Len(uris) /\ \A i \in DOMAIN uris : IsSeq(uris[i])
    BY <2>8, <2>9
  <2>11. others \in Seq(ToSet(changes)) /\ ToSet(others) = ops
    <3>1. ToSet(changes) \intersect ops = ops
      OBVIOUS
    <3> HIDE DEF ops
    <3> QED
      BY <2>2, <3>1, ThoseMembers
  <2>12. \A c \in ops : PlainOp(resource_op(c))
    BY <2>2, ResourcePlain
  <2> HIDE DEF ops, others
  <2>13. Len(others) \in Nat /\ DOMAIN others = 1..Len(others) /\ \A i \in DOMAIN others : others[i] \in ops
    BY <2>11 DEF ToSet
  <2>14. IsSeq(e.files) /\ DOMAIN e.files = DOMAIN uris
    <3> DEFINE s == e.files
    <3>1. s = [i \in 1..Len(uris) |-> s[i]]
      BY <2>10
    <3> HIDE DEF s
    <3> QED
      BY <2>10, <3>1, MadeSeq DEF s
  <2>15. IsSeq(e.ops) /\ DOMAIN e.ops = DOMAIN others
    <3> DEFINE s == e.ops
    <3>1. s = [i \in 1..Len(others) |-> s[i]]
      BY <2>13
    <3> HIDE DEF s
    <3> QED
      BY <2>13, <3>1, MadeSeq DEF s
  <2>16. \A i \in DOMAIN e.files : PlainFile(e.files[i])
    <3>1. \A i \in DOMAIN e.files : /\ e.files[i] = [path |-> uri_to_path(uris[i]), edits |-> EditsOf(listed, uris[i])]
                                    /\ IsSeq(uri_to_path(uris[i]))
      BY <2>10, <2>14, UriPaths
    <3>2. \A p, q : IsSeq(p) => PlainFile([path |-> p, edits |-> q])
      BY DEF PlainFile
    <3> HIDE DEF e
    <3> QED
      BY <3>1, <3>2
  <2>17. \A i \in DOMAIN e.ops : PlainOp(e.ops[i])
    BY <2>12, <2>13, <2>15
  <2>18. Plain(e)
    <3> HIDE DEF e
    <3> QED
      BY <2>14, <2>15, <2>16, <2>17 DEF Plain
  <2> HIDE DEF e
  <2> QED
    BY <2>1, <2>18 DEF PlainOutcome, Edited
<1> QED
  BY <1>1, <1>2

-----------------------------------------------------------------------------
(* What operations return of edits, when what the server answers is plain. *)
PlainAnswers(answers) ==
    /\ \A m \in Okay(answers, {"textDocument/codeAction"}) : IsListOrNone(answers[m])
    /\ \A e \in EditsIn(answers) : PlainAnswer(e)

PlainSession(session) ==
    /\ session.provider \in {"jdtls", "rust-analyzer", "tsserver"}
    /\ PlainAnswers(session.answers) /\ PlainAnswer(session.pushed)

LEMMA NullIsPlain ==
  ASSUME NEW e, PlainAnswer(e)
  PROVE  PlainAnswer(NullIfAbsent(e))
BY DEF PlainAnswer, NullIfAbsent, NullAnswer

LEMMA RepliesPlain ==
  ASSUME NEW s, PlainSession(s)
  PROVE  /\ PlainAnswer(Reply(s, "textDocument/rename"))
         /\ \A m \in {"codeAction/resolve", "henka.mcp.move", "henka.mcp.getRefactorEdit"} :
              Reply(s, m).type = "ok" => PlainAnswer(Reply(s, m).value.edit)
         /\ LET answer == Reply(s, "textDocument/codeAction")
            IN  answer.type = "ok" => /\ answer.value \in Seq(ToSet(answer.value))
                                      /\ \A a \in ToSet(answer.value) : PlainAnswer(a.edit)
<1>1. \A m : Reply(s, m).type = "ok" => m \in Okay(s.answers, {m}) /\ Reply(s, m) = s.answers[m]
  BY DEF Reply, Okay
<1>2. \A e \in EditsIn(s.answers) : PlainAnswer(e)
  BY DEF PlainSession, PlainAnswers
<1>3. PlainAnswer(Reply(s, "textDocument/rename"))
  <2>1. CASE Reply(s, "textDocument/rename").type = "ok"
    <3>1. Reply(s, "textDocument/rename") \in EditsIn(s.answers)
      BY <1>1, <2>1 DEF EditsIn
    <3> QED
      BY <1>2, <3>1
  <2>2. CASE Reply(s, "textDocument/rename").type # "ok"
    BY <2>2 DEF PlainAnswer
  <2> QED
    BY <2>1, <2>2
<1>4. ASSUME NEW m \in {"codeAction/resolve", "henka.mcp.move", "henka.mcp.getRefactorEdit"},
             Reply(s, m).type = "ok"
      PROVE  PlainAnswer(Reply(s, m).value.edit)
  <2>1. m \in Okay(s.answers, {"codeAction/resolve", "henka.mcp.move", "henka.mcp.getRefactorEdit"})
    BY <1>1, <1>4 DEF Okay
  <2>2. Reply(s, m).value.edit \in EditsIn(s.answers)
    BY <1>1, <1>4, <2>1 DEF EditsIn
  <2> QED
    BY <1>2, <2>2
<1>5. ASSUME NEW answer, answer = Reply(s, "textDocument/codeAction"), answer.type = "ok"
      PROVE  /\ answer.value \in Seq(ToSet(answer.value))
             /\ \A a \in ToSet(answer.value) : PlainAnswer(a.edit)
  <2> DEFINE m == "textDocument/codeAction"
  <2>1. m \in Okay(s.answers, {m}) /\ answer = s.answers[m]
    BY <1>1, <1>5
  <2>2. IsListOrNone(answer)
    BY <2>1 DEF PlainSession, PlainAnswers
  <2>3. ASSUME NEW a \in ToSet(answer.value) PROVE PlainAnswer(a.edit)
    <3>1. a \in Offered(s.answers)
      BY <2>1, <2>3 DEF Offered
    <3>2. a.edit \in EditsIn(s.answers)
      BY <3>1 DEF EditsIn
    <3> QED
      BY <1>2, <3>2
  <2> QED
    BY <1>5, <2>2, <2>3 DEF IsListOrNone
<1> QED
  BY <1>3, <1>4, <1>5

LEMMA ChoicesOffered ==
  ASSUME NEW s, PlainSession(s), NEW actions, actions \in Seq(ToSet(actions)), NEW want,
         action_choices(s, actions, want) # <<>>
  PROVE  Head(action_choices(s, actions, want)) \in ToSet(actions)
<1> DEFINE T == ToSet(actions)
<1>1. \A S : Those(actions, S) \in Seq(T)
  BY ThoseMembers
<1>2. java_choices(actions, want) \in Seq(T)
  BY <1>1 DEF java_choices
<1>3. rust_choices(actions, want) \in Seq(T) /\ ts_choices(actions, want) \in Seq(T)
  BY <1>1 DEF rust_choices, ts_choices
<1>4. action_choices(s, actions, want) \in Seq(T)
  BY <1>2, <1>3 DEF action_choices, PlainSession
<1> HIDE DEF T
<1>5. \A c \in Seq(T) : c # <<>> => Head(c) \in T
  OBVIOUS
<1> QED
  BY <1>4, <1>5 DEF T

LEMMA ActionPlain ==
  ASSUME NEW s, PlainSession(s), NEW r, NEW want
  PROVE  PlainOutcome(code_action(s, r, want).outcome)
<1> DEFINE answer  == Reply(s, "textDocument/codeAction")
           choices == IF answer.type = "ok" THEN action_choices(s, answer.value, want) ELSE <<>>
           chosen  == Head(choices)
<1>1. \A asked_, o : Done(asked_, o).outcome = o
  BY DEF Done
<1>2. PlainOutcome(Edited(EmptyEdit)) /\ PlainOutcome(Failed)
  BY EmptyIsPlain
<1>3. ASSUME choices # <<>> PROVE PlainAnswer(chosen.edit)
  <2>1. answer.type = "ok"
    BY <1>3
  <2>2. answer.value \in Seq(ToSet(answer.value))
        /\ \A a \in ToSet(answer.value) : PlainAnswer(a.edit)
    BY <2>1, RepliesPlain
  <2>3. Head(action_choices(s, answer.value, want)) \in ToSet(answer.value)
    BY <1>3, <2>1, <2>2, ChoicesOffered
  <2> QED
    BY <2>1, <2>2, <2>3
<1>4. \A command : PlainOutcome(execute_capturing_edit(s, command))
  BY <1>2, ConvertsPlain DEF execute_capturing_edit, PlainSession
<1>5. Reply(s, "codeAction/resolve").type = "ok" => PlainAnswer(Reply(s, "codeAction/resolve").value.edit)
  BY RepliesPlain
<1>6. ASSUME NEW a, PlainAnswer(a.edit) PROVE PlainOutcome(inline_or_resolved(s, r, a).outcome)
  <2>1. PlainOutcome(to_core_workspace_edit(a.edit))
    BY <1>6, ConvertsPlain
  <2>2. ASSUME Reply(s, "codeAction/resolve").type = "ok"
        PROVE  PlainOutcome(to_core_workspace_edit(NullIfAbsent(Reply(s, "codeAction/resolve").value.edit)))
    BY <1>5, <2>2, NullIsPlain, ConvertsPlain
  <2> QED
    BY <1>1, <1>2, <2>1, <2>2 DEF inline_or_resolved
<1>7. ASSUME NEW a, PlainAnswer(a.edit) PROVE PlainOutcome(edit_or_command(s, r, a).outcome)
  <2> DEFINE finish(x) == IF x.edit.type \notin {"absent", "null"} THEN to_core_workspace_edit(x.edit)
                          ELSE IF x.command.type # "absent" THEN execute_capturing_edit(s, x.command)
                               ELSE Edited(EmptyEdit)
             lazy     == a.edit.type = "absent" /\ a.command.type = "absent"
             resolved == Reply(s, "codeAction/resolve")
             o == CASE ~lazy                           -> finish(a)
                    [] lazy /\ resolved.type = "ok"    -> finish(resolved.value)
                    [] lazy /\ resolved.type = "error" -> Failed
                    [] OTHER                           -> Edited(EmptyEdit)
  <2>1. ASSUME NEW x, PlainAnswer(x.edit) PROVE PlainOutcome(finish(x))
    BY <1>2, <1>4, <2>1, ConvertsPlain
  <2>2. edit_or_command(s, r, a).outcome = o
    BY <1>1 DEF edit_or_command
  <2>3. PlainOutcome(finish(a))
    BY <1>7, <2>1
  <2>4. resolved.type = "ok" => PlainOutcome(finish(resolved.value))
    BY <1>5, <2>1
  <2> HIDE DEF finish, lazy, resolved
  <2>5. PlainOutcome(o)
    BY <1>2, <2>3, <2>4
  <2> QED
    BY <2>2, <2>5
<1>8. choices # <<>> => /\ PlainOutcome(inline_or_resolved(s, r, chosen).outcome)
                        /\ PlainOutcome(edit_or_command(s, r, chosen).outcome)
  BY <1>3, <1>6, <1>7
<1> QED
  BY <1>1, <1>2, <1>8 DEF code_action, Refused

LEMMA QueriesPlain ==
  ASSUME NEW o, o.kind \in QueryKinds
  PROVE  PlainOutcome(o)
BY DEF PlainOutcome, QueryKinds

LEMMA RunPlain ==
  ASSUME NEW id, NEW s, PlainSession(s), NEW r
  PROVE  PlainOutcome(run(id, s, r).outcome)
<1>1. Refused.outcome = Failed /\ \A asked_, o : Done(asked_, o).outcome = o
  BY DEF Refused, Done
<1>2. PlainOutcome(Edited(EmptyEdit)) /\ PlainOutcome(Failed)
  BY EmptyIsPlain
<1>3. ASSUME NEW method, NEW with, NEW o, PlainOutcome(o)
      PROVE  PlainOutcome(Ask(s, r, method, with, o).outcome)
  BY <1>1, <1>2, <1>3 DEF Ask
<1>4. ASSUME NEW method, NEW o, PlainOutcome(o)
      PROVE  PlainOutcome(AskOfItem(s, r, method, o).outcome)
  BY <1>1, <1>2, <1>4 DEF AskOfItem
<1>5. PlainOutcome(rename(s, r).outcome)
  <2>1. PlainOutcome(to_core_workspace_edit(Reply(s, "textDocument/rename")))
    BY RepliesPlain, ConvertsPlain
  <2> QED
    BY <1>1, <1>2, <1>3, <2>1 DEF rename
<1>6. PlainOutcome(symbol_search(s, r).outcome)
  BY <1>1, <1>2, QueryKind, QueriesPlain DEF symbol_search
<1>7. \A method, key : PlainOutcome(goto_query(s, r, method, key).outcome)
  BY <1>3, QueryKind, QueriesPlain DEF goto_query
<1>8. PlainOutcome(describe_symbol(s, r).outcome)
  BY <1>3, QueryKind, QueriesPlain DEF describe_symbol
<1>9. PlainOutcome(file_outline(s, r).outcome)
  BY <1>3, QueryKind, QueriesPlain DEF file_outline
<1>10. PlainOutcome(prepare_call_hierarchy(s, r).outcome)
  BY <1>3, QueryKind, QueriesPlain DEF prepare_call_hierarchy
<1>11. PlainOutcome(find_usages(s, r).outcome)
  BY <1>3, QueryKind, QueriesPlain DEF find_usages
<1>12. PlainOutcome(incoming_calls(s, r).outcome)
  BY <1>4, QueryKind, QueriesPlain DEF incoming_calls, incoming_calls_to_query
<1>13. PlainOutcome(outgoing_calls(s, r).outcome)
  BY <1>4, QueryKind, QueriesPlain DEF outgoing_calls, outgoing_calls_to_query
<1>14. ASSUME NEW m \in {"henka.mcp.move", "henka.mcp.getRefactorEdit"}
       PROVE  PlainOutcome(EditOf(Reply(s, m)))
  <2>1. Reply(s, m).type = "ok" =>
          PlainOutcome(to_core_workspace_edit(NullIfAbsent(Reply(s, m).value.edit)))
    BY RepliesPlain, NullIsPlain, ConvertsPlain
  <2> QED
    BY <1>2, <2>1 DEF EditOf
<1>15. PlainOutcome(change_signature(s, r).outcome)
  BY <1>1, <1>2, <1>14 DEF change_signature
<1>16. PlainOutcome(move(s, r).outcome)
  <2>1. \A o : PlainOutcome(o) => PlainOutcome(relocation(o))
    BY <1>2 DEF relocation
  <2>2. PlainOutcome(relocation(EditOf(Reply(s, "henka.mcp.move"))))
    BY <1>14, <2>1
  <2> QED
    BY <1>1, <1>2, <2>2 DEF move
<1>17. \A want : PlainOutcome(code_action(s, r, want).outcome)
  BY ActionPlain
<1> QED
  BY <1>5, <1>6, <1>7, <1>8, <1>9, <1>10, <1>11, <1>12, <1>13, <1>15, <1>16, <1>17 DEF run

-----------------------------------------------------------------------------
(* The sessions of a call are plain.                                       *)
LEMMA OkIsPlain ==
  ASSUME NEW a, IsEditOrNone(a)
  PROVE  PlainAnswer(a)
<1> SUFFICES ASSUME a.type = "ok"
             PROVE  /\ IsSeq(a.value.changes) /\ IsSeq(a.value.documentChanges)
                    /\ \A c \in ToSet(a.value.changes) : IsSeq(c.uri)
                    /\ \A c \in ToSet(a.value.documentChanges) : PlainChange(c)
  BY DEF PlainAnswer
<1>1. /\ a.value.changes \in Seq(ToSet(a.value.changes))
      /\ a.value.documentChanges \in Seq(ToSet(a.value.documentChanges))
      /\ \A c \in ToSet(a.value.changes) : c.uri \in Seq(STRING)
      /\ \A c \in ToSet(a.value.documentChanges) :
          /\ c.kind \in {"edits", "create", "delete", "rename"}
          /\ \A u \in Uris(c) : u \in Seq(STRING)
  BY DEF IsEditOrNone
<1> QED
  BY <1>1, SeqIs DEF PlainChange, IsSeq

LEMMA ResolvedPath ==
  ASSUME NEW p, NEW root, IsSeq(p), IsSeq(root)
  PROVE  IsSeq(resolve_path(p, root))
BY JoinsUp DEF resolve_path, Join

LEMMA RenamedPlain ==
  ASSUME NEW root, IsSeq(root), IsSeq(Target.file)
  PROVE  PlainAnswer(Renamed(root))
<1> DEFINE file == resolve_path(Target.file, root)
           uri  == uri_for([root |-> root], file)
           path == resolve_path(file, root)
<1>1. IsSeq(file)
  BY ResolvedPath
<1>2. IsSeq(path)
  <2> HIDE DEF file
  <2> QED
    BY <1>1, ResolvedPath
<1>3. IsSeq(uri)
  <2> HIDE DEF path, file
  <2>1. Len(path) \in Nat /\ DOMAIN path = 1..Len(path)
    BY <1>2, ManyFacts
  <2>2. uri = [i \in DOMAIN path |->
                 CHOOSE n \in DOMAIN Spelling : Spelling[n] = path_to_file_uri(Spelling[path[i]])]
    BY DEF uri_for, path
  <2> HIDE DEF uri
  <2>3. uri = [i \in 1..Len(path) |-> uri[i]]
    BY <2>1, <2>2
  <2> QED
    BY <2>1, <2>3, MadeSeq
<1>4. PlainAnswer(NullAnswer)
  BY DEF PlainAnswer, NullAnswer
<1>5. ASSUME NEW line, NEW text, NEW word PROVE PlainAnswer(RenamedAt(uri, line, text, word))
  <2> HIDE DEF uri
  <2>1. CASE word[1] = word[2]
    BY <1>4, <2>1 DEF RenamedAt
  <2>2. CASE word[1] # word[2]
    <3> DEFINE a == RenamedAt(uri, line, text, word)
    <3>1. PICK edits : a = [type |-> "ok", value |-> [changes |-> <<[uri |-> uri, edits |-> edits]>>,
                                                      documentChanges |-> <<>>]]
      BY <2>2 DEF RenamedAt
    <3> DEFINE c == [uri |-> uri, edits |-> edits]
    <3>2. a.value.changes = <<c>> /\ a.value.documentChanges = <<>> /\ c.uri = uri
      BY <3>1
    <3> HIDE DEF a, c
    <3>3. <<c>> \in Seq({c}) /\ ToSet(<<c>>) = {c}
      BY Singleton
    <3>4. <<>> \in Seq({}) /\ ToSet(<<>>) = {}
      BY DEF ToSet
    <3>5. IsSeq(<<c>>) /\ IsSeq(<<>>)
      BY <3>3, <3>4, SeqIs
    <3>6. PlainAnswer(a)
      BY <1>3, <3>2, <3>3, <3>4, <3>5 DEF PlainAnswer
    <3> QED
      BY <3>6 DEF a
  <2> QED
    BY <2>1, <2>2
<1> HIDE DEF uri
<1>6. \/ Renamed(root) = NullAnswer
      \/ \E line, text, word : Renamed(root) = RenamedAt(uri, line, text, word)
  BY DEF Renamed, uri
<1> QED
  BY <1>4, <1>5, <1>6

LEMMA SessionPlain ==
  ASSUME CallInv, asked \in Seq(Located), asked # <<>>, IsSeq(Target.file)
  PROVE  PlainSession(Session) /\ SessionRoot = site.roots[Provider] /\ IsPath(SessionRoot)
         /\ IsSeq(SessionRoot)
<1>1. Provider \in Located
  BY DEF Provider, Last
<1>2. Provider \in {"jdtls", "rust-analyzer", "tsserver"}
  BY <1>1, CatalogueAssumption
<1> DEFINE A == site.answers[Provider]
           B == AnswersOf(Provider)
           R == Renamed(SessionRoot)
           n == "textDocument/rename"
<1>3. /\ IsPath(SessionRoot) /\ AnswersOK(A) /\ IsEditOrNone(site.pushed[Provider])
      /\ SessionRoot = site.roots[Provider]
  BY <1>1, SitesAssumption DEF CallInv, SessionRoot
<1>4. IsSeq(SessionRoot)
  BY <1>3, SeqIs DEF IsPath
<1>5. PlainAnswer(R)
  BY <1>4, RenamedPlain
<1>6. PlainAnswer(site.pushed[Provider])
  BY <1>3, OkIsPlain
<1>7. PlainAnswers(A)
  BY <1>3, OkIsPlain DEF AnswersOK, PlainAnswers
<1>8. B = A \/ B = [A EXCEPT !["textDocument/rename"] = R]
  BY DEF AnswersOf
<1> HIDE DEF A, B, R
<1>9. PlainAnswers(B)
  <2>1. CASE B = A
    BY <1>7, <2>1
  <2>2. CASE B = [A EXCEPT !["textDocument/rename"] = R]
    <3>1. /\ DOMAIN B = DOMAIN A /\ (\A m \in DOMAIN A : m # n => B[m] = A[m])
          /\ (n \in DOMAIN A => B[n] = R)
      BY <2>2
    <3>2. \A M : n \notin M => /\ Okay(B, M) = Okay(A, M)
                               /\ \A m \in Okay(B, M) : B[m] = A[m]
      BY <3>1 DEF Okay
    <3>3. Offered(B) = Offered(A)
      <4> DEFINE M == {"textDocument/codeAction"}
      <4>1. n \notin M
        OBVIOUS
      <4>2. Okay(B, M) = Okay(A, M) /\ \A m \in Okay(B, M) : B[m] = A[m]
        BY <3>2, <4>1
      <4> QED
        BY <4>2 DEF Offered
    <3>4. ASSUME NEW e \in EditsIn(B) PROVE e \in EditsIn(A) \/ e = R
      <4> DEFINE M == {"codeAction/resolve", "henka.mcp.move", "henka.mcp.getRefactorEdit"}
      <4>1. Okay(B, M) = Okay(A, M) /\ \A m \in Okay(B, M) : B[m] = A[m]
        BY <3>2
      <4>2. \/ \E m \in Okay(B, {n}) : e = B[m]
            \/ \E a \in Offered(B) : e = a.edit
            \/ \E m \in Okay(B, M) : e = B[m].value.edit
        BY <3>4 DEF EditsIn
      <4>3. CASE \E m \in Okay(B, {n}) : e = B[m]
        BY <3>1, <4>3 DEF Okay
      <4>4. CASE \E a \in Offered(B) : e = a.edit
        BY <3>3, <4>4 DEF EditsIn
      <4>5. CASE \E m \in Okay(B, M) : e = B[m].value.edit
        BY <4>1, <4>5 DEF EditsIn
      <4> QED
        BY <4>2, <4>3, <4>4, <4>5
    <3>5. \A m \in Okay(B, {"textDocument/codeAction"}) : IsListOrNone(B[m])
      BY <1>7, <3>2 DEF PlainAnswers
    <3> QED
      BY <1>5, <1>7, <3>4, <3>5 DEF PlainAnswers
  <2> QED
    BY <1>8, <2>1, <2>2
<1>10. /\ Session.provider = Provider /\ Session.answers = B /\ Session.pushed = site.pushed[Provider]
  BY DEF Session, B
<1> QED
  BY <1>2, <1>3, <1>4, <1>6, <1>9, <1>10 DEF PlainSession

-----------------------------------------------------------------------------
(* What an edit that is applied leaves as it was.                          *)
LandPaths(e) == {LandsAt(p) : p \in EditPaths(e)}

Untouched(files, P) ==
    \A q : q \notin P => /\ q \in DOMAIN files <=> q \in DOMAIN disk
                         /\ q \in DOMAIN disk => files[q] = disk[q]

Trees(U, T) == UNION {[D -> T] : D \in SUBSET U}

Spared(U, T, P) == {files \in Trees(U, T) : Untouched(files, P)}

LEMMA PutSpares ==
  ASSUME NEW U, NEW T, NEW P \in SUBSET U, NEW files \in Spared(U, T, P), NEW p \in P, NEW t \in T
  PROVE  Put(files, p, t) \in Spared(U, T, P)
<1> DEFINE new == Put(files, p, t)
<1>1. PICK D \in SUBSET U : files \in [D -> T]
  BY DEF Spared, Trees
<1>2. DOMAIN new = D \union {p} /\ D \union {p} \in SUBSET U
  BY <1>1 DEF Put
<1>3. \A q \in D \union {p} : new[q] \in T /\ (q # p => new[q] = files[q])
  BY <1>1 DEF Put
<1>4. new = [q \in D \union {p} |-> new[q]]
  BY <1>1 DEF Put
<1> HIDE DEF new
<1>5. new \in [D \union {p} -> T]
  BY <1>3, <1>4
<1>6. new \in Trees(U, T)
  BY <1>2, <1>5 DEF Trees
<1>7. Untouched(new, P)
  BY <1>1, <1>2, <1>3 DEF Untouched, Spared
<1> QED
  BY <1>6, <1>7 DEF Spared, new

LEMMA DropSpares ==
  ASSUME NEW U, NEW T, NEW P \in SUBSET U, NEW files \in Spared(U, T, P), NEW p \in P
  PROVE  Drop(files, p) \in Spared(U, T, P)
<1> DEFINE new == Drop(files, p)
<1>1. PICK D \in SUBSET U : files \in [D -> T]
  BY DEF Spared, Trees
<1>2. DOMAIN new = D \ {p} /\ D \ {p} \in SUBSET U
  BY <1>1 DEF Drop
<1>3. \A q \in D \ {p} : new[q] \in T /\ new[q] = files[q]
  BY <1>1 DEF Drop
<1>4. new = [q \in D \ {p} |-> new[q]]
  BY <1>1 DEF Drop
<1> HIDE DEF new
<1>5. new \in [D \ {p} -> T]
  BY <1>3, <1>4
<1>6. new \in Trees(U, T)
  BY <1>2, <1>5 DEF Trees
<1>7. Untouched(new, P)
  BY <1>1, <1>2, <1>3 DEF Untouched, Spared
<1> QED
  BY <1>6, <1>7 DEF Spared, new

Accs(U, T, P, C) == [disk : Spared(U, T, P), ok : BOOLEAN, changed : Seq(C)]

LEMMA ApplySpares ==
  ASSUME NEW U, NEW T, <<>> \in T, NEW P \in SUBSET U, NEW C, NEW acc \in Accs(U, T, P, C),
         NEW o, PlainOp(o), \A p \in OpPaths(o) : LandsAt(p) \in P, file_op_diff(o) \in C
  PROVE  ApplyNext(acc, o) \in Accs(U, T, P, C)
<1> DEFINE from == LandsAt(o.path)
           to   == LandsAt(o.to)
           new(files) == [disk |-> files, ok |-> TRUE, changed |-> Append(acc.changed, file_op_diff(o))]
<1>1. from \in P /\ (o.op = "rename" => to \in P)
  BY DEF OpPaths
<1>2. acc.disk \in Spared(U, T, P) /\ acc.ok \in BOOLEAN /\ acc.changed \in Seq(C)
  BY DEF Accs
<1>3. ASSUME NEW files \in Spared(U, T, P) PROVE new(files) \in Accs(U, T, P, C)
  <2>1. Append(acc.changed, file_op_diff(o)) \in Seq(C)
    BY <1>2
  <2> QED
    BY <1>3, <2>1 DEF Accs
<1>4. CASE o.op = "create"
  <2>1. ApplyOp(acc, o) = new(IF from \in DOMAIN acc.disk THEN acc.disk ELSE Put(acc.disk, from, <<>>))
    BY <1>4 DEF ApplyOp
  <2>2. Put(acc.disk, from, <<>>) \in Spared(U, T, P)
    BY <1>1, <1>2, PutSpares
  <2> HIDE DEF new, from
  <2>3. ApplyOp(acc, o) \in Accs(U, T, P, C)
    BY <1>2, <1>3, <2>1, <2>2
  <2> QED
    BY <2>3 DEF ApplyNext
<1>5. CASE o.op = "delete"
  <2>1. ApplyOp(acc, o) = new(Drop(acc.disk, from))
    BY <1>5 DEF ApplyOp
  <2>2. Drop(acc.disk, from) \in Spared(U, T, P)
    BY <1>1, <1>2, DropSpares
  <2> HIDE DEF new, from
  <2>3. ApplyOp(acc, o) \in Accs(U, T, P, C)
    BY <1>3, <2>1, <2>2
  <2> QED
    BY <2>3 DEF ApplyNext
<1>6. CASE o.op = "rename"
  <2>1. CASE from \in DOMAIN acc.disk
    <3>1. ApplyOp(acc, o) = new(Put(Drop(acc.disk, from), to, acc.disk[from]))
      BY <1>6, <2>1 DEF ApplyOp
    <3>2. acc.disk[from] \in T
      <4>1. PICK D \in SUBSET U : acc.disk \in [D -> T]
        BY <1>2 DEF Spared, Trees
      <4> QED
        BY <2>1, <4>1
    <3>3. Drop(acc.disk, from) \in Spared(U, T, P)
      BY <1>1, <1>2, DropSpares
    <3>4. Put(Drop(acc.disk, from), to, acc.disk[from]) \in Spared(U, T, P)
      BY <1>1, <1>6, <3>2, <3>3, PutSpares
    <3> HIDE DEF new, from, to
    <3>5. ApplyOp(acc, o) \in Accs(U, T, P, C)
      BY <1>3, <3>1, <3>4
    <3> QED
      BY <3>5 DEF ApplyNext
  <2>2. CASE from \notin DOMAIN acc.disk
    <3>1. ApplyOp(acc, o) = [acc EXCEPT !.ok = FALSE]
      BY <1>6, <2>2 DEF ApplyOp
    <3>2. acc = [disk |-> acc.disk, ok |-> acc.ok, changed |-> acc.changed]
      BY DEF Accs
    <3>3. ApplyOp(acc, o) = [disk |-> acc.disk, ok |-> FALSE, changed |-> acc.changed]
      BY <3>1, <3>2
    <3>4. ApplyOp(acc, o) \in Accs(U, T, P, C)
      BY <1>2, <3>3 DEF Accs
    <3> QED
      BY <3>4 DEF ApplyNext
  <2> QED
    BY <2>1, <2>2
<1> QED
  BY <1>4, <1>5, <1>6 DEF PlainOp

(* The texts are written first: they lie where the edit says.              *)
LEMMA WritesSpare ==
  ASSUME NEW e, Plain(e), NEW planned, planned = Those(e.files, {f \in ToSet(e.files) : Changes(f)})
  PROVE  /\ Len(planned) \in Nat /\ DOMAIN planned = 1..Len(planned)
         /\ Written(planned) = [p \in DOMAIN Written(planned) |-> Written(planned)[p]]
         /\ DOMAIN Written(planned) \subseteq DOMAIN disk \union LandPaths(e)
         /\ Untouched(Written(planned), LandPaths(e))
<1> DEFINE kept == {f \in ToSet(e.files) : Changes(f)}
           tree == Written(planned)
           P    == LandPaths(e)
<1>1. e.files \in Seq(ToSet(e.files))
  BY DEF Plain, IsSeq
<1>2. planned \in Seq(ToSet(e.files))
  <2> HIDE DEF kept
  <2> QED
    BY <1>1, ThoseMembers DEF kept
<1>3. Len(planned) \in Nat /\ DOMAIN planned = 1..Len(planned)
      /\ \A i \in DOMAIN planned : planned[i] \in ToSet(e.files)
  <2> DEFINE T == ToSet(e.files)
  <2>1. \A x \in Seq(T) : /\ Len(x) \in Nat /\ DOMAIN x = 1..Len(x)
                          /\ \A i \in DOMAIN x : x[i] \in T
    <3> HIDE DEF T
    <3> QED
      OBVIOUS
  <2>2. planned \in Seq(T)
    BY <1>2
  <2> HIDE DEF T
  <2>3. /\ Len(planned) \in Nat /\ DOMAIN planned = 1..Len(planned)
        /\ \A i \in DOMAIN planned : planned[i] \in T
    BY ONLY <2>1, <2>2
  <2> QED
    BY <2>3 DEF T
<1>4. ASSUME NEW i \in DOMAIN planned PROVE LandsAt(planned[i].path) \in P
  <2>1. PICK j \in DOMAIN e.files : planned[i] = e.files[j]
    BY <1>3 DEF ToSet
  <2>2. planned[i].path \in EditPaths(e)
    BY <2>1 DEF EditPaths
  <2> QED
    BY <2>2 DEF LandPaths
<1> DEFINE own == {LandsAt(planned[i].path) : i \in DOMAIN planned}
           plans(p) == {i \in DOMAIN planned : LandsAt(planned[i].path) = p}
<1>5. /\ DOMAIN tree = DOMAIN disk \union own
      /\ tree = [p \in DOMAIN tree |-> tree[p]]
      /\ \A p \in DOMAIN tree : plans(p) = {} => tree[p] = disk[p]
  BY DEF Written
<1>6. own \subseteq P
  BY <1>4
<1>7. \A q : q \notin P => plans(q) = {}
  BY <1>4
<1> HIDE DEF tree, own, P, plans
<1>8. Untouched(tree, P)
  BY <1>5, <1>6, <1>7 DEF Untouched
<1>9. DOMAIN tree \subseteq DOMAIN disk \union P
  BY <1>5, <1>6
<1> QED
  BY <1>3, <1>5, <1>8, <1>9 DEF tree, P

LEMMA AppliesThere ==
  ASSUME NEW e, Plain(e)
  PROVE  /\ Untouched(apply(e).disk, LandPaths(e))
         /\ DOMAIN apply(e).disk \subseteq DOMAIN disk \union LandPaths(e)
<1> DEFINE planned == Those(e.files, {f \in ToSet(e.files) : Changes(f)})
           tree    == Written(planned)
           first   == [i \in DOMAIN planned |-> relativize(planned[i].path, ws)]
           s       == e.ops
           P == LandPaths(e)
           U == DOMAIN disk \union P
           T == {tree[p] : p \in DOMAIN tree} \union {<<>>}
           C == {first[i] : i \in DOMAIN first} \union {file_op_diff(s[i]) : i \in DOMAIN s}
           base == [disk |-> tree, ok |-> TRUE, changed |-> first]
<1>1. /\ Len(planned) \in Nat /\ DOMAIN planned = 1..Len(planned)
      /\ tree = [p \in DOMAIN tree |-> tree[p]] /\ DOMAIN tree \subseteq U /\ Untouched(tree, P)
  <2> HIDE DEF planned
  <2> QED
    BY WritesSpare DEF planned
<1>2. s \in Seq(ToSet(s)) /\ \A i \in DOMAIN s : PlainOp(s[i])
  BY DEF Plain, IsSeq
<1>3. apply(e) = FoldLeft(ApplyNext, base, s)
  BY DEF apply
<1>4. first \in Seq(C)
  <2>1. DOMAIN first = DOMAIN planned /\ first = [i \in DOMAIN first |-> first[i]]
    OBVIOUS
  <2> HIDE DEF first, planned
  <2> QED
    BY <1>1, <2>1
<1>5. \A i \in DOMAIN s : file_op_diff(s[i]) \in C /\ \A p \in OpPaths(s[i]) : LandsAt(p) \in P
  BY DEF LandPaths, EditPaths
<1>6. tree \in Spared(U, T, P)
  <2>1. tree \in [DOMAIN tree -> T]
    <3> HIDE DEF tree
    <3> QED
      BY <1>1
  <2> HIDE DEF tree, T, U, P
  <2> QED
    BY <1>1, <2>1 DEF Spared, Trees
<1>7. P \in SUBSET U /\ <<>> \in T
  OBVIOUS
<1> HIDE DEF tree, first, s, P, U, T, C
<1>8. base \in Accs(U, T, P, C)
  BY <1>4, <1>6 DEF Accs
<1> DEFINE m == Len(s)
           I == 1..m
           V == Accs(U, T, P, C)
           put(i, acc) == ApplyNext(acc, s[i])
           unfold(w) == [x \in SUBSET I |-> IF x = {} THEN base
                                            ELSE put(Max(x), w[x \ {Max(x)}])]
           op   == [x \in I \X V |-> put(x[1], x[2])]
<1>9. m \in Nat /\ DOMAIN s = I
  BY <1>2
<1>10. FoldLeft(ApplyNext, base, s) = (CHOOSE w : w = unfold(w))[I]
  BY <1>9 DEF FoldLeft, MapThenFoldSet
<1> HIDE DEF base, V, m
<1>11. \A i \in I, acc \in V : put(i, acc) \in V
  BY <1>2, <1>5, <1>7, <1>9, ApplySpares DEF V
<1>12. op \in [I \X V -> V] /\ \A i \in I, acc \in V : op[<<i, acc>>] = put(i, acc)
  <2> HIDE DEF put, I
  <2> QED
    BY <1>11
<1> HIDE DEF put, op
<1>13. /\ Ends(m, GoesLeft(m))
       /\ \A x \in SUBSET I : x # {} => GoesLeft(m)[x] = Max(x) /\ Max(x) \in I
  BY <1>9, EndsAreElements DEF GoesLeft, Ends
<1>14. base \in V
  BY <1>8 DEF V
<1>15. PICK it \in [SUBSET I -> V] : Folded(m, V, base, op, GoesLeft(m), it)
  BY <1>9, <1>12, <1>13, <1>14, FoldedExists
<1>16. it = unfold(it)
  <2>1. it[{}] = base
    BY <1>15 DEF Folded
  <2>2. \A x \in SUBSET I : x # {} => it[x] = put(Max(x), it[x \ {Max(x)}])
    BY <1>12, <1>13, <1>15 DEF Folded
  <2>3. \A x \in SUBSET I : it[x] = unfold(it)[x]
    BY <2>1, <2>2
  <2> QED
    BY <1>15, <2>3
<1> DEFINE w == CHOOSE w : w = unfold(w)
<1>17. w = unfold(w)
  <2> HIDE DEF unfold
  <2> QED
    BY <1>16
<1>18. FoldLeft(ApplyNext, base, s) = w[I]
  BY <1>10
<1> HIDE DEF w
<1>19. w[{}] = base /\ \A x \in SUBSET I : x # {} => w[x] = put(Max(x), w[x \ {Max(x)}])
  BY <1>17
<1>20. Folded(m, V, base, op, GoesLeft(m), w)
  BY <1>12, <1>13, <1>19 DEF Folded
<1>21. w[I] \in V
  BY <1>9, <1>12, <1>13, <1>14, <1>20, FoldedStays
<1>22. apply(e).disk \in Spared(U, T, P)
  BY <1>3, <1>18, <1>21 DEF V, Accs
<1>23. Untouched(apply(e).disk, P)
  BY <1>22 DEF Spared
<1>24. DOMAIN apply(e).disk \subseteq U
  BY <1>22 DEF Spared, Trees
<1> QED
  BY <1>23, <1>24 DEF U, P

-----------------------------------------------------------------------------
(* An edit that is retargeted is plain, and lands below the working copy.  *)
LEMMA MovedOps ==
  ASSUME NEW o, PlainOp(o), NEW from, NEW to, IsSeq(from), IsSeq(to), NEW e, NEW i \in DOMAIN e.ops,
         e.ops[i] = o
  PROVE  PlainOp(retarget(e, from, to).ops[i])
<1> DEFINE moved(p) == retarget_path(p, from, to)
           new == IF o.op = "rename" THEN [o EXCEPT !.path = moved(@), !.to = moved(@)]
                  ELSE [o EXCEPT !.path = moved(@)]
<1>1. retarget(e, from, to).ops[i] = new
  BY DEF retarget, MapOp
<1>2. \A p : IsSeq(p) => IsSeq(moved(p))
  BY Retargets
<1> HIDE DEF moved
<1>3. CASE o.op = "rename"
  <2>1. /\ DOMAIN new = DOMAIN o /\ new.op = o.op /\ new.path = moved(o.path) /\ new.to = moved(o.to)
    BY <1>3 DEF PlainOp
  <2> HIDE DEF new
  <2> QED
    BY <1>1, <1>2, <2>1 DEF PlainOp
<1>4. CASE o.op # "rename"
  <2>1. /\ DOMAIN new = DOMAIN o /\ new.op = o.op /\ new.path = moved(o.path)
    BY <1>4 DEF PlainOp
  <2> HIDE DEF new
  <2> QED
    BY <1>1, <1>2, <1>4, <2>1 DEF PlainOp
<1> QED
  BY <1>3, <1>4

LEMMA RetargetPlain ==
  ASSUME NEW e, Plain(e), NEW from, NEW to, IsSeq(from), IsSeq(to)
  PROVE  Plain(retarget(e, from, to))
<1> DEFINE r == retarget(e, from, to)
           n == Len(e.files)
           m == Len(e.ops)
<1>1. /\ n \in Nat /\ DOMAIN e.files = 1..n /\ m \in Nat /\ DOMAIN e.ops = 1..m
      /\ (\A i \in DOMAIN e.files : PlainFile(e.files[i]))
      /\ (\A i \in DOMAIN e.ops : PlainOp(e.ops[i]))
  BY ManyFacts DEF Plain
<1>2. /\ DOMAIN r.files = DOMAIN e.files /\ DOMAIN r.ops = DOMAIN e.ops
      /\ r.files = [i \in DOMAIN r.files |-> r.files[i]] /\ r.ops = [i \in DOMAIN r.ops |-> r.ops[i]]
  BY DEF retarget
<1>3. \A i \in DOMAIN r.ops : PlainOp(r.ops[i])
  BY <1>1, <1>2, MovedOps
<1>4. ASSUME NEW i \in DOMAIN e.files PROVE PlainFile(r.files[i])
  <2>1. r.files[i] = [e.files[i] EXCEPT !.path = retarget_path(@, from, to)]
    BY DEF retarget
  <2>2. "path" \in DOMAIN e.files[i] /\ IsSeq(e.files[i].path)
    BY <1>1 DEF PlainFile
  <2>3. IsSeq(retarget_path(e.files[i].path, from, to))
    BY <2>2, Retargets
  <2>4. DOMAIN r.files[i] = DOMAIN e.files[i] /\ r.files[i].path = retarget_path(e.files[i].path, from, to)
    BY <2>1, <2>2
  <2> QED
    BY <2>2, <2>3, <2>4 DEF PlainFile
<1> HIDE DEF r, n, m
<1>5. IsSeq(r.files) /\ IsSeq(r.ops)
  BY <1>1, <1>2, MadeSeq
<1> QED
  BY <1>2, <1>3, <1>4, <1>5 DEF Plain, r

LEMMA PlainPaths ==
  ASSUME NEW e, Plain(e)
  PROVE  \A p \in EditPaths(e) : IsSeq(p)
BY DEF Plain, PlainFile, PlainOp, EditPaths, OpPaths

LEMMA LandsBelow ==
  ASSUME NEW e, Plain(e), IsSeq(ws), ~reject_edits_outside(e), NEW p \in LandPaths(e)
  PROVE  \E q \in Aliases(p) : StartsWith(q, ws)
<1>1. PICK x \in EditPaths(e) : p = LandsAt(x)
  BY DEF LandPaths
<1>2. IsSeq(x) /\ inside(x, ws)
  BY PlainPaths DEF reject_edits_outside, EditsOutside
<1>3. IsSeq(resolve_path(x, ws)) /\ StartsWith(resolve_path(x, ws), ws)
  BY <1>2, InsideJoins
<1>4. resolve_path(x, ws) \in Aliases(p)
  BY <1>1, <1>3, LeadsThere DEF LandsAt
<1> QED
  BY <1>3, <1>4

-----------------------------------------------------------------------------
(* The invariant of the calls that edit.                                   *)
LandAsAsked ==
    /\ ws = resolve_workspace(given, Target.file)
    /\ ensure_same_repo(ws, Project.root)

(* The file that is named, where the call acts, and what it is about to do. *)
FileInv  == pc \in {"parsed", "validate", "next", "begin", "run", "finish"} => Target.file \in Seq(STRING)
LandInv  == pc \in {"validate", "next", "begin", "run", "finish"} => LandAsAsked
PlainInv == pc = "finish" => Plain(outcome.edit)

EditInv == FileInv /\ LandInv /\ PlainInv

LEMMA MapsToPath ==
  ASSUME NEW entries \in Seq(Mounts), NEW p \in Seq(STRING)
  PROVE  map(entries, p) \in Seq(STRING)
<1>1. CASE Matches(entries, "host", p)
  <2>1. PICK i : IsBest(entries, "host", p, i)
    BY <1>1, BestExists
  <2>2. entries[i] \in Mounts /\ Best(entries, "host", p) = entries[i] /\ StartsWith(p, entries[i].host)
    BY <2>1 DEF IsBest
  <2>3. entries[i].host \in Seq(STRING) /\ entries[i].container \in Seq(STRING)
    BY <2>2 DEF Mounts
  <2>4. StripPrefix(p, entries[i].host) \in Seq(STRING)
    BY <2>2, <2>3, PrefixFacts
  <2>5. entries[i].container \o StripPrefix(p, entries[i].host) \in Seq(STRING)
    BY <2>3, <2>4
  <2>6. map(entries, p) = Join(entries[i].container, StripPrefix(p, entries[i].host))
    BY <1>1, <2>2 DEF map
  <2> QED
    BY <2>4, <2>5, <2>6 DEF Join
<1>2. CASE ~Matches(entries, "host", p)
  BY <1>2 DEF map
<1> QED
  BY <1>1, <1>2

LEMMA ParsesPath ==
  ASSUME CallInv, ParseCall
  PROVE  (pc' = "answered" /\ reply' = Error) \/ Target'.file \in Seq(STRING)
<1>1. CASE ~Known("project") \/ Candidates = <<>>
  BY <1>1 DEF ParseCall, Answer
<1>2. CASE ~(~Known("project") \/ Candidates = <<>>)
  <2>1. Parse(DescriptorOf)
    BY <1>2 DEF ParseCall
  <2>2. CASE ~CanParse(given, DescriptorOf.target)
    BY <2>1, <2>2 DEF Parse, Answer
  <2>3. CASE CanParse(given, DescriptorOf.target)
    <3> DEFINE d      == DescriptorOf
               parsed == parse_target(given, d.target)
               mounts == parse(site.path_map)
    <3>1. req'.target = remap_target_file(mounts, parsed)
      BY <2>1, <2>3 DEF Parse
    <3>2. parsed.file \in Seq(STRING)
      <4>1. d.target \in DOMAIN TargetKeys
        BY <1>2, CallFacts, OfferFacts DEF GoodFor
      <4>2. CASE d.target = "project"
        BY <4>2 DEF parse_target, NoFile
      <4>3. CASE d.target # "project"
        <5>1. "file" \in TargetKeys[d.target]
          BY <4>1, <4>3 DEF TargetKeys
        <5>2. Has(given, "file", "str")
          BY <2>3, <5>1 DEF CanParse
        <5>3. given["file"].str \in Seq(STRING)
          BY <5>2 DEF Has, CallInv, ArgumentsOK
        <5>4. parsed.file = given["file"].str
          BY <4>3 DEF parse_target, get_str
        <5> QED
          BY <5>3, <5>4
      <4> QED
        BY <4>2, <4>3
    <3>3. mounts \in Seq(Mounts) /\ "file" \in DOMAIN parsed
      BY CallFacts DEF parse_target
    <3> HIDE DEF parsed, mounts
    <3>4. remap_target_file(mounts, parsed).file \in {parsed.file, map(mounts, parsed.file)}
      BY <3>3 DEF remap_target_file
    <3>5. map(mounts, parsed.file) \in Seq(STRING)
      BY <3>2, <3>3, MapsToPath
    <3> QED
      BY <3>1, <3>2, <3>4, <3>5 DEF Target
  <2> QED
    BY <2>2, <2>3
<1> QED
  BY <1>1, <1>2

LEMMA AskedForStays ==
  ASSUME UNCHANGED <<call, req, ws>>
  PROVE  LandAsAsked' = LandAsAsked /\ Target' = Target
BY DEF LandAsAsked, resolve_workspace, Target, Project, call

LEMMA DispatchLands ==
  ASSUME Dispatch
  PROVE  /\ UNCHANGED <<call, req, outcome>> /\ pc = "parsed"
         /\ (pc' = "answered") \/ (pc' = "validate" /\ LandAsAsked')
<1> DEFINE root == resolve_workspace(given, Target.file)
<1>1. Direct(Chosen, root) /\ UNCHANGED <<call, req, outcome>> /\ pc = "parsed"
  BY DEF Dispatch, Chosen
<1>2. resolve_workspace(given, Target.file)' = root /\ Project' = Project
  BY <1>1 DEF resolve_workspace, Target, Project, call
<1> HIDE DEF root
<1>3. pc' = "answered" \/ (pc' = "validate" /\ ws' = root /\ ensure_same_repo(root, Project.root))
  BY <1>1 DEF Direct, Answer
<1>4. ws' = root /\ ensure_same_repo(root, Project.root) => LandAsAsked'
  BY <1>2 DEF LandAsAsked
<1> QED
  BY <1>1, <1>3, <1>4

LEMMA EditKept ==
  ASSUME WholeInv, EditInv, [Next]_vars
  PROVE  EditInv'
<1> DEFINE OnItsWay == {"validate", "next", "begin", "run", "finish"}
<1>1. CASE \/ ValidateExpectation \/ SkipLanguage \/ NextLanguage \/ BeginRequest
           \/ OthersSave \/ UNCHANGED vars
  <2>1. /\ UNCHANGED <<call, req, ws, outcome>>
        /\ pc' \in {pc, "answered"} \/ (pc \in OnItsWay /\ pc' \in {"next", "begin", "run"})
    BY <1>1 DEF ValidateExpectation, SkipLanguage, NextLanguage, BeginRequest,
                OthersSave, Answer, vars, work
  <2>2. LandAsAsked' = LandAsAsked /\ Target' = Target
    BY <2>1, AskedForStays
  <2>3. pc' = "finish" => pc = "finish"
    BY <2>1
  <2>4. PlainInv'
    BY <2>1, <2>3 DEF EditInv, PlainInv
  <2>5. FileInv' /\ LandInv'
    BY <2>1, <2>2 DEF EditInv, FileInv, LandInv
  <2> QED
    BY <2>4, <2>5 DEF EditInv
<1>2. CASE ProjectStatus \/ ListOperations \/ Merge \/ FinishEdit \/ NextRequest
  <2>1. pc' \in {"answered", "called"}
    BY <1>2, FinishAnswers DEF ProjectStatus, ListOperations, Merge, NextRequest, Fresh, Answer
  <2> QED
    BY <2>1 DEF EditInv, FileInv, LandInv, PlainInv
<1>3. CASE ParseCall
  <2>1. pc' \in {"parsed", "answered"}
    BY <1>3, ParseUndirects
  <2>2. pc' = "parsed" => Target'.file \in Seq(STRING)
    BY <1>3, ParsesPath DEF WholeInv
  <2> QED
    BY <2>1, <2>2 DEF EditInv, FileInv, LandInv, PlainInv
<1>4. CASE Dispatch
  <2>1. /\ UNCHANGED <<call, req, outcome>> /\ pc = "parsed"
        /\ (pc' = "answered") \/ (pc' = "validate" /\ LandAsAsked')
    BY <1>4, DispatchLands
  <2>2. Target' = Target
    BY <2>1 DEF Target
  <2> QED
    BY <2>1, <2>2 DEF EditInv, FileInv, LandInv, PlainInv
<1>5. CASE RunOperation
  <2>1. /\ UNCHANGED <<call, req, ws>> /\ pc = "run" /\ outcome' = Ran.outcome
        /\ pc' \in {"answered", "next"} \/ (pc' = "finish" /\ outcome'.kind = "edit")
    BY <1>5, RunTakes DEF RunOperation
  <2>2. LandAsAsked' = LandAsAsked /\ Target' = Target
    BY <2>1, AskedForStays
  <2>3. FileInv' /\ LandInv'
    BY <2>1, <2>2 DEF EditInv, FileInv, LandInv
  <2>4. PlainSession(Session)
    <3>1. IsDirected /\ asked # <<>> /\ asked \in Seq(Located) /\ CallInv
      BY <2>1 DEF WholeInv, CoverInv, IsDirected, WorkInv
    <3>2. Target.file \in Seq(STRING)
      BY <2>1 DEF EditInv, FileInv
    <3> QED
      BY <3>1, <3>2, SeqIs, SessionPlain
  <2>5. PlainOutcome(Ran.outcome)
    BY <2>4, RunPlain DEF Ran
  <2>6. PlainInv'
    BY <2>1, <2>5 DEF PlainInv, PlainOutcome
  <2> QED
    BY <2>3, <2>6 DEF EditInv
<1> QED
  BY <1>1, <1>2, <1>3, <1>4, <1>5 DEF Next, CallSteps

LEMMA EditAlways == Spec => [](WholeInv /\ EditInv)
<1>1. Init => WholeInv /\ EditInv
  <2>1. Init => pc = "called"
    BY DEF Init
  <2> QED
    BY <2>1, InitWhole DEF EditInv, FileInv, LandInv, PlainInv
<1>2. WholeInv /\ EditInv /\ [Next]_vars => (WholeInv /\ EditInv)'
  BY WholeKept, EditKept
<1> QED
  BY <1>1, <1>2, PTL DEF Spec

LEMMA WorkspaceIsPath ==
  ASSUME CallInv, Target.file \in Seq(STRING), LandAsAsked
  PROVE  IsSeq(ws)
<1>1. CASE workspace(given) # <<>>
  <2>1. workspace(given) \in Seq(STRING)
    BY <1>1 DEF workspace, Has, CallInv, ArgumentsOK
  <2>2. map(parse(site.path_map), workspace(given)) \in Seq(STRING)
    BY <2>1, CallFacts, MapsToPath
  <2>3. ws = map(parse(site.path_map), workspace(given))
    BY <1>1 DEF LandAsAsked, resolve_workspace
  <2> QED
    BY <2>2, <2>3, SeqIs
<1>2. CASE workspace(given) = <<>>
  <2>1. ws = Project.root \/ (IsAbsolute(Target.file) /\ ws = working_copy_root_containing(Target.file))
    BY <1>2 DEF LandAsAsked, resolve_workspace
  <2>2. IsSeq(Project.root)
    BY CallFacts, SeqIs DEF IsPath
  <2> QED
    BY <2>1, <2>2, NearestCopy
<1> QED
  BY <1>1, <1>2

LEMMA LandingPlain ==
  ASSUME WholeInv, EditInv, pc = "finish"
  PROVE  IsSeq(ws) /\ LandAsAsked /\ Target.file \in Seq(STRING) /\ Plain(Landing)
<1>1. LandAsAsked /\ Target.file \in Seq(STRING) /\ Plain(outcome.edit)
  BY DEF EditInv, FileInv, LandInv, PlainInv
<1>2. CallInv /\ asked # <<>> /\ asked \in Seq(Located)
  BY DEF WholeInv, CoverInv, IsDirected, WorkInv
<1>3. IsSeq(ws) /\ IsSeq(SessionRoot)
  BY <1>1, <1>2, WorkspaceIsPath, SessionPlain, SeqIs
<1> QED
  BY <1>1, <1>3, RetargetPlain DEF Landing

(* What a call writes, it writes where the caller asked for it: in the     *)
(* working copy that is named, else in the nearest one around the file, of *)
(* the project's own repository, or where a link in it leads; and only a   *)
(* call that says so writes (finish_edit, resolve_workspace, apply).       *)
THEOREM EditsLand == Spec => EditsLandAsAsked
<1>1. ASSUME WholeInv, EditInv, [Next]_vars, Landed, disk' # disk
      PROVE  /\ Has(given, "dry_run", "bool") /\ ~given["dry_run"].bool
             /\ \A p \in Changed(disk, disk') : \E q \in Aliases(p) : StartsWith(q, ws)
             /\ \/ canonicalize(ws) = canonicalize(Project.root)
                \/ repo_identity(ws) = repo_identity(Project.root) /\ repo_identity(ws) # NoRepo
             /\ workspace(given) = <<>> /\ IsAbsolute(Target.file) =>
                  \A d \in CopiesAround(Target.file) : Len(d) <= Len(canonicalize(ws))
  <2>1. pc = "finish" /\ pc' = "answered"
    BY <1>1 DEF Landed
  <2>2. FinishEdit
    BY <1>1, <2>1 DEF Next, CallSteps, ProjectStatus, ListOperations, ParseCall, Dispatch,
       ValidateExpectation, SkipLanguage, NextLanguage, BeginRequest, RunOperation, Merge,
       NextRequest, OthersSave, vars
  <2>3. Land(Landing)
    BY <2>2 DEF FinishEdit
  <2>4. /\ ~reject_edits_outside(Landing) /\ ~dry_run(given) /\ disk' = apply(Landing).disk
    BY <1>1, <2>3 DEF Land, Applied, Answer
  <2>5. IsSeq(ws) /\ LandAsAsked /\ Target.file \in Seq(STRING) /\ Plain(Landing)
    BY <1>1, <2>1, LandingPlain
  <2>6. Has(given, "dry_run", "bool") /\ ~given["dry_run"].bool
    BY <2>4 DEF dry_run
  <2>7. ASSUME NEW p \in Changed(disk, disk') PROVE \E q \in Aliases(p) : StartsWith(q, ws)
    <3>1. Untouched(disk', LandPaths(Landing))
      BY <2>4, <2>5, AppliesThere
    <3>2. p \in LandPaths(Landing)
      BY <2>7, <3>1 DEF Changed, Untouched
    <3> QED
      BY <2>4, <2>5, <3>2, LandsBelow
  <2>8. \/ canonicalize(ws) = canonicalize(Project.root)
        \/ repo_identity(ws) = repo_identity(Project.root) /\ repo_identity(ws) # NoRepo
    BY <2>5 DEF LandAsAsked, ensure_same_repo
  <2>9. ASSUME workspace(given) = <<>>, IsAbsolute(Target.file), NEW d \in CopiesAround(Target.file)
        PROVE  Len(d) <= Len(canonicalize(ws))
    <3>1. /\ working_copy_root_containing(Target.file) # NoPath
          /\ Len(d) <= Len(canonicalize(working_copy_root_containing(Target.file)))
      BY <2>5, <2>9, NearestCopy
    <3>2. ws = working_copy_root_containing(Target.file)
      BY <2>5, <2>9, <3>1 DEF LandAsAsked, resolve_workspace
    <3> QED
      BY <3>1, <3>2
  <2> QED
    BY <2>6, <2>7, <2>8, <2>9
<1>2. WholeInv /\ EditInv /\ [Next]_vars =>
        [Landed /\ disk' # disk =>
          /\ Has(given, "dry_run", "bool") /\ ~given["dry_run"].bool
          /\ \A p \in Changed(disk, disk') : \E q \in Aliases(p) : StartsWith(q, ws)
          /\ \/ canonicalize(ws) = canonicalize(Project.root)
             \/ repo_identity(ws) = repo_identity(Project.root) /\ repo_identity(ws) # NoRepo
          /\ workspace(given) = <<>> /\ IsAbsolute(Target.file) =>
               \A d \in CopiesAround(Target.file) : Len(d) <= Len(canonicalize(ws))]_vars
  BY <1>1
<1> QED
  BY <1>2, EditAlways, PTL DEF Spec, EditsLandAsAsked

-----------------------------------------------------------------------------
(* The parser of git's output: a field is skipped when the one before it    *)
(* is not and looks like a rename.                                         *)
LEMMA SkipsAfterRename ==
  ASSUME NEW T, NEW fields \in Seq(T)
  PROVE  \A i \in DOMAIN fields :
            i \in Skipped(fields) <=> /\ i > 1 /\ i - 1 \notin Skipped(fields)
                                      /\ LooksRenamed(fields[i - 1])
<1> DEFINE m == Len(fields)
           unfold(s) == [i \in DOMAIN fields |-> i > 1 /\ ~s[i - 1] /\ LooksRenamed(fields[i - 1])]
           V == {0, 1}
           F == [x \in Nat \X V |->
                   IF x[1] \in 1..m /\ x[2] = 0 /\ LooksRenamed(fields[x[1]]) THEN 1 ELSE 0]
<1>1. m \in Nat /\ DOMAIN fields = 1..m
  OBVIOUS
<1>2. F \in [Nat \X V -> V] /\ 0 \in V
  OBVIOUS
<1>3. \A n \in Nat, b \in V : F[<<n, b>>] = IF n \in 1..m /\ b = 0 /\ LooksRenamed(fields[n]) THEN 1 ELSE 0
  OBVIOUS
<1> HIDE DEF F, V, m
<1>4. PICK f : Recurs(V, 0, F, f)
  BY <1>2, Recursion
<1>5. /\ (\A n \in Nat : f[n] \in V)
      /\ (\A n \in Nat : f[n + 1] = IF n \in 1..m /\ f[n] = 0 /\ LooksRenamed(fields[n]) THEN 1 ELSE 0)
  BY <1>3, <1>4 DEF Recurs
<1> DEFINE g == [i \in DOMAIN fields |-> f[i] = 1]
<1>6. g = unfold(g)
  <2> SUFFICES ASSUME NEW i \in DOMAIN fields
               PROVE  (f[i] = 1) <=> (i > 1 /\ ~g[i - 1] /\ LooksRenamed(fields[i - 1]))
    OBVIOUS
  <2>1. i \in 1..m /\ i \in Nat /\ i - 1 \in Nat /\ (i - 1) + 1 = i
    BY <1>1
  <2>2. f[i] = IF i - 1 \in 1..m /\ f[i - 1] = 0 /\ LooksRenamed(fields[i - 1]) THEN 1 ELSE 0
    BY <1>5, <2>1
  <2>3. i > 1 <=> i - 1 \in 1..m
    BY <1>1, <2>1
  <2>4. i - 1 \in 1..m => (g[i - 1] <=> f[i - 1] = 1)
    BY <1>1
  <2>5. f[i - 1] = 0 \/ f[i - 1] = 1
    BY <1>5, <2>1 DEF V
  <2> HIDE DEF g
  <2> QED
    BY <2>2, <2>3, <2>4, <2>5
<1> DEFINE skip == CHOOSE s : s = unfold(s)
<1>7. skip = unfold(skip)
  <2> HIDE DEF unfold, g
  <2> QED
    BY <1>6
<1>8. Skipped(fields) = {i \in DOMAIN fields : skip[i]}
  BY DEF Skipped
<1> HIDE DEF skip
<1>9. \A i \in DOMAIN fields : skip[i] <=> i > 1 /\ ~skip[i - 1] /\ LooksRenamed(fields[i - 1])
  BY <1>7
<1>10. \A i \in DOMAIN fields : i > 1 => i - 1 \in DOMAIN fields
  BY <1>1
<1> QED
  BY <1>8, <1>9, <1>10

(* n pairs of a rename or copy and where it came from, and then the other  *)
(* entries; what was copied looks like no rename.                          *)
IsPair(fields, k) ==
    /\ fields[2 * k - 1].status \in {"R", "C"} /\ fields[2 * k].status = "from"
    /\ fields[2 * k - 1].status = "C" => fields[2 * k].path \notin RenameLike

IsOther(field) == field.status \in {"M", "D", "?"}

IsOutput(fields, n) ==
    /\ 2 * n =< Len(fields)
    /\ \A k \in 1..n : IsPair(fields, k)
    /\ \A i \in DOMAIN fields : i > 2 * n => IsOther(fields[i])

(* Halves: a place is the first or the second of a pair.                   *)
LEMMA Places ==
  ASSUME NEW n \in Nat, NEW i \in Nat, i > 0, i =< 2 * n + 1
  PROVE  \E k \in 0..n : i = 2 * k + 1 \/ (k > 0 /\ i = 2 * k)
<1> DEFINE h == i \div 2
<1>1. h \in Nat /\ (i = 2 * h \/ i = 2 * h + 1)
  OBVIOUS
<1> HIDE DEF h
<1>2. h \in 0..n
  BY <1>1
<1> QED
  BY <1>1, <1>2

LEMMA OutputSize ==
  ASSUME NEW T, NEW fields \in Seq(T), NEW n \in Nat, IsOutput(fields, n)
  PROVE  /\ Len(fields) \in Nat /\ 2 * n =< Len(fields) /\ DOMAIN fields = 1..Len(fields)
         /\ Skipped(fields) \subseteq DOMAIN fields
<1>1. Len(fields) \in Nat /\ DOMAIN fields = 1..Len(fields)
  OBVIOUS
<1>2. 2 * n =< Len(fields)
  BY DEF IsOutput
<1>3. Skipped(fields) \subseteq DOMAIN fields
  BY DEF Skipped
<1> QED
  BY <1>1, <1>2, <1>3

LEMMA PairsStay ==
  ASSUME NEW T, NEW fields \in Seq(T), NEW n \in Nat, IsOutput(fields, n)
  PROVE  \A k \in 0..n : 2 * k + 1 \notin Skipped(fields)
<1> DEFINE skipped == Skipped(fields)
           m       == Len(fields)
           D       == DOMAIN fields
           looks(i) == LooksRenamed(fields[i])
           good == {k \in Nat : k =< n => 2 * k + 1 \notin skipped}
<1>1. m \in Nat /\ D = 1..m /\ 2 * n =< m /\ skipped \subseteq D
  BY OutputSize
<1>2. \A i \in D : i \in skipped <=> i > 1 /\ i - 1 \notin skipped /\ looks(i - 1)
  BY SkipsAfterRename
<1>3. \A k \in 1..n : IsPair(fields, k)
  BY DEF IsOutput
<1>4. ASSUME NEW k \in Nat, k + 1 =< n
      PROVE  looks(2 * k + 1) \/ ~looks(2 * k + 2)
  <2> DEFINE a == 2 * k + 1
             b == 2 * k + 2
  <2>1. k + 1 \in 1..n /\ 2 * (k + 1) - 1 = a /\ 2 * (k + 1) = b
    BY <1>4
  <2> HIDE DEF a, b
  <2>2. IsPair(fields, k + 1)
    BY <1>3, <2>1
  <2>3. /\ fields[a].status \in {"R", "C"} /\ fields[b].status = "from"
        /\ fields[a].status = "C" => fields[b].path \notin RenameLike
    BY ONLY <2>1, <2>2 DEF IsPair
  <2>4. looks(a) \/ ~looks(b)
    BY ONLY <2>3 DEF LooksRenamed
  <2> QED
    BY <2>4 DEF a, b
<1> HIDE DEF skipped, m, D, looks
<1>5. 0 \in good
  <2>1. 1 \notin skipped
    BY <1>1, <1>2
  <2> QED
    BY <2>1
<1>6. ASSUME NEW k \in good PROVE k + 1 \in good
  <2> SUFFICES ASSUME k + 1 =< n PROVE 2 * (k + 1) + 1 \notin skipped
    BY <1>6
  <2>1. k \in Nat /\ 2 * k + 1 \notin skipped
    OBVIOUS
  <2>2. looks(2 * k + 1) \/ ~looks(2 * k + 2)
    BY <1>4, <2>1
  <2>3. /\ 2 * k + 2 \in D /\ 2 * k + 2 > 1 /\ (2 * k + 2) - 1 = 2 * k + 1
        /\ 2 * k + 3 > 1 /\ (2 * k + 3) - 1 = 2 * k + 2 /\ 2 * (k + 1) + 1 = 2 * k + 3
    BY <1>1, <2>1
  <2>4. looks(2 * k + 1) => 2 * k + 2 \in skipped
    BY <1>2, <2>1, <2>3
  <2>5. 2 * k + 3 \in skipped => 2 * k + 3 \in D
    BY <1>1
  <2>6. 2 * k + 3 \notin skipped
    BY <1>2, <2>2, <2>3, <2>4, <2>5
  <2> QED
    BY <2>3, <2>6
<1>7. good = Nat
  <2> HIDE DEF good
  <2>1. good \in SUBSET Nat
    BY DEF good
  <2> QED
    BY <1>5, <1>6, <2>1, SetInduction
<1>8. \A k \in Nat : k =< n => 2 * k + 1 \notin skipped
  BY <1>7
<1>9. \A k \in 0..n : k \in Nat /\ k =< n
  OBVIOUS
<1> HIDE DEF good
<1> QED
  BY <1>8, <1>9 DEF skipped

LEMMA EntriesStay ==
  ASSUME NEW T, NEW fields \in Seq(T), NEW n \in Nat, IsOutput(fields, n)
  PROVE  \A i \in DOMAIN fields : fields[i].status # "from" => i \notin Skipped(fields)
<1> DEFINE D       == DOMAIN fields
           skipped == Skipped(fields)
           m       == Len(fields)
           looks(i) == LooksRenamed(fields[i])
           entry(i) == fields[i].status # "from"
<1>1. m \in Nat /\ D = 1..m
  BY OutputSize
<1>2. \A i \in D : i \in skipped <=> i > 1 /\ i - 1 \notin skipped /\ looks(i - 1)
  BY SkipsAfterRename
<1>3. \A k \in 0..n : 2 * k + 1 \notin skipped
  BY PairsStay
<1>4. ASSUME NEW i \in D, i > 2 * n PROVE ~looks(i)
  <2>1. IsOther(fields[i])
    BY <1>4 DEF IsOutput
  <2> QED
    BY ONLY <2>1 DEF IsOther, LooksRenamed
<1>5. ASSUME NEW k \in 1..n PROVE ~entry(2 * k)
  <2>1. IsPair(fields, k)
    BY DEF IsOutput
  <2> QED
    BY ONLY <2>1 DEF IsPair
<1> HIDE DEF D, skipped, m, looks, entry
<1>6. ASSUME NEW i \in D, entry(i) PROVE i \notin skipped
  <2>1. i \in Nat /\ i > 0 /\ i =< m
    BY <1>1
  <2>2. CASE i > 2 * n + 1
    <3>1. i - 1 \in D /\ i - 1 > 2 * n
      BY <1>1, <2>1, <2>2
    <3> QED
      BY <1>2, <1>4, <3>1
  <2>3. CASE i =< 2 * n + 1
    <3>1. PICK k \in 0..n : i = 2 * k + 1 \/ (k > 0 /\ i = 2 * k)
      BY <2>1, <2>3, Places
    <3>2. CASE i = 2 * k + 1
      BY <1>3, <3>2
    <3>3. CASE k > 0 /\ i = 2 * k
      <4>1. k \in 1..n
        BY <3>3
      <4> QED
        BY <1>5, <1>6, <3>3, <4>1
    <3> QED
      BY <3>1, <3>2, <3>3
  <2> QED
    BY <2>1, <2>2, <2>3
<1> QED
  BY <1>6 DEF D, skipped, entry

LEMMA EntriesAreListed ==
  ASSUME NEW T, NEW fields \in Seq(T), NEW n \in Nat, IsOutput(fields, n)
  PROVE  /\ IsSeq(parse_git_porcelain_z(fields))
         /\ \A i \in DOMAIN fields :
              fields[i].status # "from" => fields[i].path \in ToSet(parse_git_porcelain_z(fields))
<1> DEFINE m    == Len(fields)
           S    == DOMAIN fields \ Skipped(fields)
           idx  == [i \in DOMAIN fields |-> i]
           kept == Those(idx, S)
           out  == parse_git_porcelain_z(fields)
<1>1. m \in Nat /\ DOMAIN fields = 1..m
  OBVIOUS
<1>2. idx \in Seq(1..m) /\ ToSet(idx) = 1..m
  <2> HIDE DEF m
  <2>1. idx = [i \in 1..m |-> i]
    BY <1>1
  <2> QED
    BY <1>1, <2>1 DEF ToSet
<1>3. kept \in Seq(1..m) /\ ToSet(kept) = ToSet(idx) \intersect S
  <2> HIDE DEF idx, S, m
  <2> QED
    BY <1>2, ThoseMembers
<1>4. out = [k \in DOMAIN kept |-> IF fields[kept[k]].status = "from" THEN NotAFile ELSE fields[kept[k]].path]
  BY DEF parse_git_porcelain_z
<1> HIDE DEF out, idx, kept, S, m
<1>5. Len(kept) \in Nat /\ DOMAIN kept = 1..Len(kept)
  BY <1>3
<1>6. DOMAIN out = DOMAIN kept /\ out = [k \in 1..Len(kept) |-> out[k]]
  BY <1>4, <1>5
<1>7. IsSeq(out)
  BY <1>5, <1>6, MadeSeq
<1>8. ASSUME NEW i \in DOMAIN fields, fields[i].status # "from" PROVE fields[i].path \in ToSet(out)
  <2>1. i \in S
    BY <1>8, EntriesStay DEF S
  <2>2. i \in ToSet(kept)
    BY <1>1, <1>2, <1>3, <2>1
  <2>3. PICK k \in DOMAIN kept : kept[k] = i
    BY <2>2 DEF ToSet
  <2>4. out[k] = fields[i].path
    BY <1>4, <1>8, <2>3
  <2> QED
    BY <1>6, <2>3, <2>4 DEF ToSet
<1> QED
  BY <1>7, <1>8 DEF out

-----------------------------------------------------------------------------
(* git's output, with the staged renames and copies before all else.       *)
CopyOK(copy) ==
    /\ IsFiniteSet(DOMAIN copy.head) /\ IsFiniteSet(copy.moved)
    /\ \A m \in copy.moved : m.status \in {"R", "C"}

CopiesArePlain(copy) == \A m \in copy.moved : m.status = "C" => m.from \notin RenameLike

MovedPair(fields, k, m) ==
    fields[2 * k - 1] = Field(m.status, m.to) /\ fields[2 * k] = Field("from", m.from)

LEMMA MovedPairs ==
  ASSUME NEW copy
  PROVE  LET order == SetToSeq(copy.moved)
         IN  /\ DOMAIN MovedFields(copy) = 1..(2 * Len(order))
             /\ MovedFields(copy) = [i \in 1..(2 * Len(order)) |-> MovedFields(copy)[i]]
             /\ \A k \in 1..Len(order) : Len(order) \in Nat => MovedPair(MovedFields(copy), k, order[k])
<1> DEFINE order == SetToSeq(copy.moved)
           n     == Len(order)
           at(i) == LET m == order[(i + 1) \div 2]
                    IN  IF i % 2 = 1 THEN Field(m.status, m.to) ELSE Field("from", m.from)
           all   == [i \in 1..(2 * n) |-> at(i)]
<1>1. MovedFields(copy) = all
  BY DEF MovedFields
<1>2. ASSUME NEW k \in 1..n, n \in Nat PROVE MovedPair(all, k, order[k])
  <2> HIDE DEF n, order
  <2>1. /\ 2 * k - 1 \in 1..(2 * n) /\ 2 * k \in 1..(2 * n)
        /\ (2 * k - 1) % 2 = 1 /\ (2 * k) % 2 # 1
        /\ ((2 * k - 1) + 1) \div 2 = k /\ (2 * k + 1) \div 2 = k
    BY <1>2
  <2>2. at(2 * k - 1) = Field(order[k].status, order[k].to) /\ at(2 * k) = Field("from", order[k].from)
    BY ONLY <2>1
  <2> HIDE DEF at
  <2>3. all[2 * k - 1] = at(2 * k - 1) /\ all[2 * k] = at(2 * k)
    BY <2>1
  <2> HIDE DEF all
  <2> QED
    BY <2>2, <2>3 DEF MovedPair
<1> HIDE DEF at, n
<1>3. DOMAIN all = 1..(2 * n) /\ all = [i \in 1..(2 * n) |-> all[i]]
  OBVIOUS
<1> HIDE DEF all, order
<1> QED
  BY <1>1, <1>2, <1>3 DEF n, order

LEMMA MovedAreListed ==
  ASSUME NEW copy, CopyOK(copy), CopiesArePlain(copy)
  PROVE  \E n \in Nat : /\ IsSeq(MovedFields(copy)) /\ Len(MovedFields(copy)) = 2 * n
                        /\ \A k \in 1..n : IsPair(MovedFields(copy), k)
                        /\ \A m \in copy.moved : \E k \in 1..n : MovedPair(MovedFields(copy), k, m)
<1> DEFINE order  == SetToSeq(copy.moved)
           n      == Len(order)
           fields == MovedFields(copy)
<1>1. order \in Seq(copy.moved) /\ ToSet(order) = copy.moved
  BY InOrder DEF CopyOK
<1>2. /\ n \in Nat /\ DOMAIN order = 1..n
      /\ \A k \in 1..n : order[k] \in copy.moved
      /\ \A m \in copy.moved : \E k \in 1..n : order[k] = m
  <2> HIDE DEF order
  <2>1. n \in Nat /\ DOMAIN order = 1..n
    BY <1>1
  <2> QED
    BY <1>1, <2>1 DEF ToSet
<1>3. /\ fields = [i \in 1..(2 * n) |-> fields[i]]
      /\ \A k \in 1..n : MovedPair(fields, k, order[k])
  BY <1>2, MovedPairs
<1> HIDE DEF n, fields, order
<1>4. 2 * n \in Nat
  BY <1>2
<1>5. IsSeq(fields) /\ Len(fields) = 2 * n
  BY <1>3, <1>4, MadeSeq
<1>6. ASSUME NEW k \in 1..n PROVE IsPair(fields, k)
  <2>1. PICK m \in copy.moved : MovedPair(fields, k, m)
    BY <1>2, <1>3
  <2>2. /\ fields[2 * k - 1].status = m.status
        /\ fields[2 * k].status = "from" /\ fields[2 * k].path = m.from
    BY ONLY <2>1 DEF MovedPair, Field
  <2>3. m.status \in {"R", "C"} /\ (m.status = "C" => m.from \notin RenameLike)
    BY DEF CopyOK, CopiesArePlain
  <2> QED
    BY ONLY <2>2, <2>3 DEF IsPair
<1>7. \A m \in copy.moved : \E k \in 1..n : MovedPair(fields, k, m)
  BY <1>2, <1>3
<1> QED
  BY <1>2, <1>5, <1>6, <1>7 DEF fields

LEMMA EntriesAreOthers ==
  ASSUME NEW copy, CopyOK(copy), NEW texts, IsFiniteSet(DOMAIN texts)
  PROVE  IsFiniteSet(GitEntries(copy, texts)) /\ \A e \in GitEntries(copy, texts) : IsOther(e)
<1> DEFINE staged == Targets(copy) \union Sources(copy)
           M      == Modified(copy.head, texts) \ staged
           D      == Deleted(copy.head, texts) \ staged
           N      == Files(texts) \ Tracked(copy)
           fold(f) == Collapsed(Tracked(copy), f)
<1>1. GitEntries(copy, texts) = {Field("M", f) : f \in M} \union {Field("D", f) : f \in D}
                                \union {Field("?", fold(f)) : f \in N}
  BY DEF GitEntries
<1>2. M \subseteq DOMAIN texts /\ D \subseteq DOMAIN copy.head /\ N \subseteq DOMAIN texts
  BY DEF Modified, Deleted, Files
<1> HIDE DEF M, D, N, fold, staged
<1>3. IsFiniteSet(M) /\ IsFiniteSet(D) /\ IsFiniteSet(N)
  BY <1>2, FS_Subset DEF CopyOK
<1> DEFINE mk == [f \in M |-> Field("M", f)]
           dk == [f \in D |-> Field("D", f)]
           nk == [f \in N |-> Field("?", fold(f))]
<1>4. /\ {Field("M", f) : f \in M} = {mk[f] : f \in M}
      /\ {Field("D", f) : f \in D} = {dk[f] : f \in D}
      /\ {Field("?", fold(f)) : f \in N} = {nk[f] : f \in N}
  OBVIOUS
<1> HIDE DEF mk, dk, nk
<1>5. IsFiniteSet({mk[f] : f \in M}) /\ IsFiniteSet({dk[f] : f \in D}) /\ IsFiniteSet({nk[f] : f \in N})
  BY <1>3, FiniteImage
<1> DEFINE A == {mk[f] : f \in M}
           B == {dk[f] : f \in D}
           C == {nk[f] : f \in N}
<1>6. IsFiniteSet(GitEntries(copy, texts))
  <2> HIDE DEF A, B, C
  <2>1. IsFiniteSet(A \union B)
    BY <1>5, FS_Union DEF A, B
  <2>2. IsFiniteSet((A \union B) \union C)
    BY <1>5, <2>1, FS_Union DEF C
  <2>3. GitEntries(copy, texts) = (A \union B) \union C
    BY <1>1, <1>4 DEF A, B, C
  <2> QED
    BY <2>2, <2>3
<1>7. \A e \in GitEntries(copy, texts) : IsOther(e)
  BY <1>1 DEF IsOther, Field
<1> QED
  BY <1>6, <1>7

LEMMA GitOutput ==
  ASSUME NEW copy, CopyOK(copy), CopiesArePlain(copy), NEW texts, IsFiniteSet(DOMAIN texts)
  PROVE  LET fields == git_status(copy, texts)
         IN  /\ IsSeq(fields) /\ \E n \in Nat : IsOutput(fields, n)
             /\ \A e \in GitEntries(copy, texts) : e \in ToSet(fields)
             /\ \A m \in copy.moved : Field(m.status, m.to) \in ToSet(fields)
<1> DEFINE x == MovedFields(copy)
           E == GitEntries(copy, texts)
           y == SetToSeq(E)
           z == git_status(copy, texts)
<1>1. PICK n \in Nat : /\ IsSeq(x) /\ Len(x) = 2 * n
                       /\ \A k \in 1..n : IsPair(x, k)
                       /\ \A m \in copy.moved : \E k \in 1..n : MovedPair(x, k, m)
  BY MovedAreListed
<1>2. y \in Seq(E) /\ ToSet(y) = E /\ \A e \in E : IsOther(e)
  BY EntriesAreOthers, InOrder
<1>3. z = x \o y
  BY DEF git_status
<1> HIDE DEF x, y, z, E
<1>4. PICK T : x \in Seq(T) /\ y \in Seq(T)
  BY <1>1, <1>2, SeqIs, InOne
<1>5. /\ z \in Seq(T) /\ DOMAIN z = 1..(Len(x) + Len(y))
      /\ \A j \in 1..Len(x) : z[j] = x[j]
      /\ \A j \in 1..Len(y) : z[Len(x) + j] = y[j]
      /\ ToSet(z) = ToSet(x) \union ToSet(y)
  BY <1>3, <1>4, JoinedSeq DEF Joins
<1>6. Len(y) \in Nat /\ DOMAIN y = 1..Len(y) /\ Len(z) \in Nat /\ DOMAIN z = 1..Len(z)
  BY <1>4, <1>5
<1>7. Len(z) = Len(x) + Len(y)
  BY <1>3, <1>4
<1>8. 2 * n =< Len(z)
  BY <1>1, <1>6, <1>7
<1>9. ASSUME NEW k \in 1..n PROVE IsPair(z, k)
  <2>1. 2 * k - 1 \in 1..Len(x) /\ 2 * k \in 1..Len(x)
    BY <1>1
  <2>2. z[2 * k - 1] = x[2 * k - 1] /\ z[2 * k] = x[2 * k]
    BY <1>5, <2>1
  <2>3. IsPair(x, k)
    BY <1>1
  <2> QED
    BY ONLY <2>2, <2>3 DEF IsPair
<1>10. ASSUME NEW i \in DOMAIN z, i > 2 * n PROVE IsOther(z[i])
  <2>1. i - Len(x) \in 1..Len(y) /\ Len(x) + (i - Len(x)) = i
    BY <1>1, <1>5, <1>6, <1>10
  <2>2. z[i] = y[i - Len(x)] /\ y[i - Len(x)] \in ToSet(y)
    BY <1>5, <1>6, <2>1 DEF ToSet
  <2> QED
    BY <1>2, <2>2
<1>11. IsOutput(z, n)
  BY <1>8, <1>9, <1>10 DEF IsOutput
<1>12. ASSUME NEW m \in copy.moved PROVE Field(m.status, m.to) \in ToSet(z)
  <2>1. PICK k \in 1..n : MovedPair(x, k, m)
    BY <1>1
  <2>2. 2 * k - 1 \in DOMAIN z /\ 2 * k - 1 \in 1..Len(x)
    BY <1>1, <1>5, <1>6
  <2>3. z[2 * k - 1] = Field(m.status, m.to)
    BY <1>5, <2>1, <2>2 DEF MovedPair
  <2> QED
    BY <2>2, <2>3 DEF ToSet
<1>13. IsSeq(z) /\ E \subseteq ToSet(z)
  BY <1>2, <1>5, SeqIs
<1> QED
  BY <1>11, <1>12, <1>13 DEF z, E

LEMMA ListedPaths ==
  ASSUME NEW fields, IsSeq(fields), NEW n \in Nat, IsOutput(fields, n)
  PROVE  /\ IsSeq(parse_git_porcelain_z(fields))
         /\ \A e \in ToSet(fields) :
              e.status # "from" => e.path \in ToSet(parse_git_porcelain_z(fields))
<1> DEFINE told == parse_git_porcelain_z(fields)
<1>1. /\ IsSeq(told)
      /\ \A j \in DOMAIN fields : fields[j].status # "from" => fields[j].path \in ToSet(told)
  BY EntriesAreListed DEF IsSeq
<1> HIDE DEF told
<1>2. ASSUME NEW e \in ToSet(fields), e.status # "from" PROVE e.path \in ToSet(told)
  <2>1. PICK i \in DOMAIN fields : fields[i] = e
    BY DEF ToSet
  <2> QED
    BY <1>1, <1>2, <2>1
<1> QED
  BY <1>1, <1>2 DEF told

(* git's entry of a file that was edited.                                  *)
EntryOf(copy, texts, f) ==
    \/ \E m \in copy.moved : m.to = f
    \/ Field("M", f) \in GitEntries(copy, texts)
    \/ Field("?", f) \in GitEntries(copy, texts)

LEMMA GitHasEntry ==
  ASSUME NEW copy, NEW texts, NEW f \in EditedFiles(copy, texts), Collapsed(Tracked(copy), f) = f
  PROVE  EntryOf(copy, texts, f)
<1> DEFINE staged == Targets(copy) \union Sources(copy)
<1>1. CASE f \in Targets(copy)
  BY <1>1 DEF EntryOf, Targets
<1>2. CASE f \notin Targets(copy) /\ f \in Modified(copy.head, texts) /\ f \notin Sources(copy)
  <2>1. f \in Modified(copy.head, texts) \ (Targets(copy) \union Sources(copy))
    BY <1>2
  <2>2. Field("M", f) \in GitEntries(copy, texts)
    BY <2>1 DEF GitEntries
  <2> QED
    BY <2>2 DEF EntryOf
<1>3. CASE f \notin Targets(copy) /\ (f \in Sources(copy) \/ f \notin Modified(copy.head, texts))
  <2>1. f \in Files(texts) \ Tracked(copy)
    BY <1>3 DEF EditedFiles, Modified, Untracked, Tracked, Files
  <2>2. Field("?", Collapsed(Tracked(copy), f)) \in GitEntries(copy, texts)
    BY <2>1 DEF GitEntries
  <2> QED
    BY <2>2 DEF EntryOf
<1> QED
  BY <1>1, <1>2, <1>3

LEMMA GitTells ==
  ASSUME NEW copy, CopyOK(copy), CopiesArePlain(copy), NEW texts, IsFiniteSet(DOMAIN texts)
  PROVE  LET told == parse_git_porcelain_z(git_status(copy, texts))
         IN  /\ IsSeq(told)
             /\ \A f \in EditedFiles(copy, texts) : Collapsed(Tracked(copy), f) = f => f \in ToSet(told)
<1> DEFINE fields == git_status(copy, texts)
           told   == parse_git_porcelain_z(fields)
<1>1. /\ IsSeq(fields)
      /\ \A e \in GitEntries(copy, texts) : e \in ToSet(fields)
      /\ \A m \in copy.moved : Field(m.status, m.to) \in ToSet(fields)
  BY GitOutput
<1>2. PICK n \in Nat : IsOutput(fields, n)
  BY GitOutput
<1> HIDE DEF fields
<1>3. /\ IsSeq(told)
      /\ \A e \in ToSet(fields) : e.status # "from" => e.path \in ToSet(told)
  BY <1>1, <1>2, ListedPaths
<1>4. ASSUME NEW e \in ToSet(fields), e.status # "from" PROVE e.path \in ToSet(told)
  BY <1>3, <1>4
<1> HIDE DEF told
<1>5. ASSUME NEW f \in EditedFiles(copy, texts), Collapsed(Tracked(copy), f) = f
      PROVE  f \in ToSet(told)
  <2>1. EntryOf(copy, texts, f)
    BY <1>5, GitHasEntry
  <2>2. ASSUME NEW m \in copy.moved, m.to = f PROVE f \in ToSet(told)
    <3>1. Field(m.status, m.to) \in ToSet(fields) /\ m.status # "from"
      BY <1>1 DEF CopyOK
    <3>2. Field(m.status, m.to).status = m.status /\ Field(m.status, m.to).path = m.to
      BY DEF Field
    <3> QED
      BY <1>4, <2>2, <3>1, <3>2
  <2>3. ASSUME NEW s \in {"M", "?"}, Field(s, f) \in GitEntries(copy, texts) PROVE f \in ToSet(told)
    <3>1. Field(s, f).status = s /\ Field(s, f).path = f /\ s # "from"
      BY DEF Field
    <3> QED
      BY <1>1, <1>4, <2>3, <3>1
  <2> QED
    BY <2>1, <2>2, <2>3 DEF EntryOf
<1> QED
  BY <1>3, <1>5 DEF told, fields

(* jj's.                                                                   *)
LEMMA JjLinesFinite ==
  ASSUME NEW copy, CopyOK(copy), NEW texts, IsFiniteSet(DOMAIN texts)
  PROVE  IsFiniteSet(JjLines(copy, texts))
<1> DEFINE M  == Modified(copy.head, texts) \ Targets(copy)
           D  == Deleted(copy.head, texts) \ (Targets(copy) \union Sources(copy))
           N  == Untracked(copy.head, texts) \ Targets(copy)
           vk == [m \in copy.moved |-> Field(m.status, m.to)]
           mk == [f \in M |-> Field("M", f)]
           dk == [f \in D |-> Field("D", f)]
           nk == [f \in N |-> Field("A", f)]
           A  == {vk[m] : m \in copy.moved}
           B  == {mk[f] : f \in M}
           C  == {dk[f] : f \in D}
           E  == {nk[f] : f \in N}
<1>1. JjLines(copy, texts) = {Field(m.status, m.to) : m \in copy.moved} \union {Field("M", f) : f \in M}
                             \union {Field("D", f) : f \in D} \union {Field("A", f) : f \in N}
  BY DEF JjLines
<1>2. M \subseteq DOMAIN texts /\ D \subseteq DOMAIN copy.head /\ N \subseteq DOMAIN texts
  BY DEF Modified, Deleted, Untracked, Files
<1> HIDE DEF M, D, N
<1>3. IsFiniteSet(M) /\ IsFiniteSet(D) /\ IsFiniteSet(N) /\ IsFiniteSet(copy.moved)
  BY <1>2, FS_Subset DEF CopyOK
<1>4. /\ {Field(m.status, m.to) : m \in copy.moved} = A /\ {Field("M", f) : f \in M} = B
      /\ {Field("D", f) : f \in D} = C /\ {Field("A", f) : f \in N} = E
  OBVIOUS
<1> HIDE DEF vk, mk, dk, nk
<1>5. IsFiniteSet(A) /\ IsFiniteSet(B) /\ IsFiniteSet(C) /\ IsFiniteSet(E)
  BY <1>3, FiniteImage
<1> HIDE DEF A, B, C, E
<1>6. IsFiniteSet(A \union B)
  BY <1>5, FS_Union
<1>7. IsFiniteSet((A \union B) \union C)
  BY <1>5, <1>6, FS_Union
<1>8. IsFiniteSet(((A \union B) \union C) \union E)
  BY <1>5, <1>7, FS_Union
<1> QED
  BY <1>1, <1>4, <1>8

LEMMA JjTells ==
  ASSUME NEW copy, CopyOK(copy), NEW texts, IsFiniteSet(DOMAIN texts)
  PROVE  LET told == parse_jj_diff_summary(jj_diff(copy, texts))
         IN  /\ IsSeq(told)
             /\ \A f \in EditedFiles(copy, texts) :
                  (f \notin Targets(copy) \/ f \notin Spaced) => f \in ToSet(told)
<1> DEFINE L     == JjLines(copy, texts)
           lines == jj_diff(copy, texts)
           told  == parse_jj_diff_summary(lines)
           moves(e) == e.status \in {"R", "C"} /\ e.path \in Spaced
<1>1. lines \in Seq(L) /\ ToSet(lines) = L
  BY JjLinesFinite, InOrder DEF jj_diff
<1>2. told = [i \in DOMAIN lines |-> IF moves(lines[i]) THEN NotAFile ELSE lines[i].path]
  BY DEF parse_jj_diff_summary
<1> HIDE DEF told, lines, L
<1>3. Len(lines) \in Nat /\ DOMAIN lines = 1..Len(lines)
  BY <1>1
<1> HIDE DEF moves
<1>4. told = [i \in 1..Len(lines) |-> told[i]] /\ DOMAIN told = DOMAIN lines
  BY <1>2, <1>3
<1>5. IsSeq(told)
  BY <1>3, <1>4, MadeSeq
<1>6. ASSUME NEW e \in L, ~moves(e) PROVE e.path \in ToSet(told)
  <2>1. PICK i \in DOMAIN lines : lines[i] = e
    BY <1>1 DEF ToSet
  <2>2. told[i] = e.path
    BY <1>2, <1>6, <2>1
  <2> QED
    BY <1>4, <2>1, <2>2 DEF ToSet
<1>7. ASSUME NEW f \in EditedFiles(copy, texts), f \notin Targets(copy) \/ f \notin Spaced
      PROVE  f \in ToSet(told)
  <2>1. CASE f \in Targets(copy)
    <3>1. PICK m \in copy.moved : m.to = f
      BY <2>1 DEF Targets
    <3>2. Field(m.status, f) \in L
      BY <3>1 DEF L, JjLines
    <3>3. Field(m.status, f).path = f
      BY DEF Field
    <3>4. ~moves(Field(m.status, f))
      BY <1>7, <2>1, <3>3 DEF moves
    <3> QED
      BY <1>6, <3>2, <3>3, <3>4
  <2>2. ASSUME NEW s \in {"M", "A"}, Field(s, f) \in L PROVE f \in ToSet(told)
    <3>1. Field(s, f).path = f /\ Field(s, f).status = s
      BY DEF Field
    <3>2. ~moves(Field(s, f))
      BY <3>1 DEF moves
    <3> QED
      BY <1>6, <2>2, <3>1, <3>2
  <2>3. CASE f \notin Targets(copy) /\ f \in Modified(copy.head, texts)
    <3>1. Field("M", f) \in L
      BY <2>3 DEF L, JjLines
    <3> QED
      BY <2>2, <3>1
  <2>4. CASE f \notin Targets(copy) /\ f \in Untracked(copy.head, texts)
    <3>1. Field("A", f) \in L
      BY <2>4 DEF L, JjLines
    <3> QED
      BY <2>2, <3>1
  <2> QED
    BY <2>1, <2>3, <2>4 DEF EditedFiles
<1> QED
  BY <1>5, <1>7 DEF told, lines

(* What working_copy_delta makes of either.                                *)
LEMMA DeltaTells ==
  ASSUME NEW dir, NEW texts, IsFiniteSet(DOMAIN texts),
         CopyOK(CopyAt(dir)), CopiesArePlain(CopyAt(dir)), CopyAt(dir).works,
         NEW f \in EditedFiles(CopyAt(dir), texts), Tellable(CopyAt(dir), f)
  PROVE  f \in ToSet(working_copy_delta(dir, texts))
<1> DEFINE copy == CopyAt(dir)
           told == Reported(copy, texts)
<1>1. IsSeq(told) /\ f \in ToSet(told)
  <2>1. CASE ".jj" \in copy.marks
    <3>1. told = parse_jj_diff_summary(jj_diff(copy, texts))
      BY <2>1 DEF Reported
    <3>2. f \notin Targets(copy) \/ f \notin Spaced
      BY <2>1 DEF Tellable
    <3> HIDE DEF told, copy
    <3> QED
      BY <3>1, <3>2, JjTells DEF copy
  <2>2. CASE ".jj" \notin copy.marks
    <3>1. told = parse_git_porcelain_z(git_status(copy, texts))
      BY <2>2 DEF Reported
    <3>2. Collapsed(Tracked(copy), f) = f
      BY <2>2 DEF Tellable
    <3> HIDE DEF told, copy
    <3> QED
      BY <3>1, <3>2, GitTells DEF copy
  <2> QED
    BY <2>1, <2>2
<1> HIDE DEF told
<1>2. f \in Files(texts)
  BY DEF EditedFiles, Modified, Untracked
<1>3. ToSet(Those(told, Files(texts))) = ToSet(told) \intersect Files(texts)
  BY <1>1, ThoseMembers DEF IsSeq
<1> QED
  BY <1>1, <1>2, <1>3 DEF working_copy_delta, told

-----------------------------------------------------------------------------
(* There are finitely many files, however many are written.                *)
FilesInv == IsFiniteSet(DOMAIN disk)

LEMMA FiniteOpPaths ==
  ASSUME NEW o
  PROVE  IsFiniteSet(OpPaths(o))
<1>1. IsFiniteSet({o.path}) /\ IsFiniteSet({o.to}) /\ IsFiniteSet({})
  BY FS_Singleton, FS_EmptySet
<1>2. IsFiniteSet({o.path} \union {o.to}) /\ IsFiniteSet({o.path} \union {})
  BY <1>1, FS_Union
<1> QED
  BY <1>2 DEF OpPaths

LEMMA FiniteRange ==
  ASSUME NEW s, IsSeq(s)
  PROVE  IsFiniteSet(DOMAIN s)
<1>1. Len(s) \in Nat /\ DOMAIN s = 1..Len(s)
  BY SeqOfItsOwn DEF IsSeq
<1> QED
  BY <1>1, FS_Interval

LEMMA FewLandings ==
  ASSUME NEW e, Plain(e)
  PROVE  IsFiniteSet(LandPaths(e))
<1> DEFINE F  == DOMAIN e.files
           O  == DOMAIN e.ops
           fp == [i \in F |-> e.files[i].path]
           op == [i \in O |-> OpPaths(e.ops[i])]
           A  == {fp[i] : i \in F}
           B  == {op[i] : i \in O}
           lp == [p \in EditPaths(e) |-> LandsAt(p)]
<1>1. IsFiniteSet(F) /\ IsFiniteSet(O)
  BY FiniteRange DEF Plain
<1>2. EditPaths(e) = A \union UNION B
  BY DEF EditPaths
<1>3. \A S \in B : IsFiniteSet(S)
  BY FiniteOpPaths
<1> HIDE DEF F, O, fp, op
<1>4. IsFiniteSet(A) /\ IsFiniteSet(B)
  BY <1>1, FiniteImage
<1> HIDE DEF A, B
<1>5. IsFiniteSet(UNION B)
  BY <1>3, <1>4, FS_UNION
<1>6. IsFiniteSet(EditPaths(e))
  BY <1>2, <1>4, <1>5, FS_Union
<1>7. LandPaths(e) = {lp[p] : p \in EditPaths(e)}
  BY DEF LandPaths
<1> HIDE DEF lp
<1> QED
  BY <1>6, <1>7, FiniteImage

LEMMA PutsOne ==
  ASSUME NEW files, IsFiniteSet(DOMAIN files), NEW p, NEW t
  PROVE  IsFiniteSet(DOMAIN Put(files, p, t)) /\ IsFiniteSet(DOMAIN Drop(files, p))
<1>1. DOMAIN Put(files, p, t) = DOMAIN files \union {p} /\ DOMAIN Drop(files, p) = DOMAIN files \ {p}
  BY DEF Put, Drop
<1>2. IsFiniteSet(DOMAIN files \union {p})
  BY FS_Singleton, FS_Union
<1>3. IsFiniteSet(DOMAIN files \ {p})
  BY FS_Subset
<1> QED
  BY <1>1, <1>2, <1>3

LEMMA FilesKept ==
  ASSUME WholeInv, EditInv, FilesInv, [Next]_vars
  PROVE  FilesInv'
<1>1. CASE FinishEdit
  <2>1. pc = "finish" /\ Land(Landing)
    BY <1>1 DEF FinishEdit
  <2>2. Plain(Landing)
    BY <2>1, LandingPlain
  <2>3. disk' = disk \/ disk' = apply(Landing).disk
    BY <2>1 DEF Land, Applied
  <2>4. CASE disk' = apply(Landing).disk
    <3>1. DOMAIN disk' \subseteq DOMAIN disk \union LandPaths(Landing)
      BY <2>2, <2>4, AppliesThere
    <3>2. IsFiniteSet(DOMAIN disk \union LandPaths(Landing))
      BY <2>2, FewLandings, FS_Union DEF FilesInv
    <3>3. IsFiniteSet(DOMAIN disk')
      BY <3>1, <3>2, FS_Subset
    <3> QED
      BY <3>3 DEF FilesInv
  <2> QED
    BY <2>3, <2>4 DEF FilesInv
<1>2. CASE OthersSave
  <2>1. PICK i \in DOMAIN site.saves :
          disk' = IF site.saves[i].delete THEN Drop(disk, site.saves[i].path)
                  ELSE Put(disk, site.saves[i].path, site.saves[i].text)
    BY <1>2 DEF OthersSave
  <2>2. IsFiniteSet(DOMAIN disk')
    BY <2>1, PutsOne DEF FilesInv
  <2> QED
    BY <2>2 DEF FilesInv
<1>3. CASE \/ ProjectStatus \/ ListOperations \/ ParseCall \/ Dispatch \/ ValidateExpectation
           \/ SkipLanguage \/ NextLanguage \/ BeginRequest \/ RunOperation \/ Merge
           \/ NextRequest \/ UNCHANGED vars
  BY <1>3 DEF FilesInv, ProjectStatus, ListOperations, ParseCall, Dispatch, ValidateExpectation,
     SkipLanguage, NextLanguage, BeginRequest, RunOperation, Merge, NextRequest, vars
<1> QED
  BY <1>1, <1>2, <1>3 DEF Next, CallSteps

(* A status is that of the files as they are, until somebody saves one.    *)
ShownInv ==
    pc = "answered" /\ reply.kind = "status" /\ saves = 0 => reply = project_status(Project)

LEMMA StatusStays ==
  ASSUME UNCHANGED <<site, disk>>
  PROVE  project_status(Project)' = project_status(Project)
BY DEF project_status, Status, Project, delta, TextsOf, TextsBelow

LEMMA ShownKept ==
  ASSUME WholeInv, ShownInv, [Next]_vars
  PROVE  ShownInv'
<1>1. CASE ProjectStatus
  <2>1. UNCHANGED <<site, disk>> /\ (reply' = Error \/ reply' = project_status(Project))
    BY <1>1 DEF ProjectStatus, Answer, call
  <2>2. project_status(Project)' = project_status(Project)
    BY <2>1, StatusStays
  <2> QED
    BY <2>1, <2>2 DEF ShownInv, Error
<1>2. CASE \/ ListOperations \/ ParseCall \/ Dispatch \/ ValidateExpectation \/ SkipLanguage
           \/ NextLanguage \/ BeginRequest \/ Merge
  BY <1>2, ParseUndirects, DispatchDirects
     DEF ShownInv, ListOperations, Answer, Error, ValidateExpectation, SkipLanguage,
         NextLanguage, BeginRequest, Merge
<1>3. CASE RunOperation
  BY <1>3, RunTakes DEF ShownInv, Error
<1>4. CASE FinishEdit
  BY <1>4, FinishAnswers DEF ShownInv
<1>5. CASE NextRequest
  BY <1>5 DEF NextRequest, Fresh, ShownInv
<1>6. CASE OthersSave
  <2>1. saves' = saves + 1 /\ saves \in Nat
    BY <1>6 DEF OthersSave, WholeInv, WorkInv
  <2> QED
    BY <2>1 DEF ShownInv
<1>7. CASE UNCHANGED vars
  <2>1. UNCHANGED <<site, disk, pc, reply, saves>>
    BY <1>7 DEF vars, call
  <2>2. project_status(Project)' = project_status(Project)
    BY <2>1, StatusStays
  <2> QED
    BY <2>1, <2>2 DEF ShownInv
<1> QED
  BY <1>1, <1>2, <1>3, <1>4, <1>5, <1>6, <1>7 DEF Next, CallSteps

LEMMA StatusAlways == Spec => [](WholeInv /\ EditInv /\ FilesInv /\ ShownInv)
<1>1. Init => FilesInv /\ ShownInv
  <2> SUFFICES ASSUME Init PROVE FilesInv /\ ShownInv
    OBVIOUS
  <2>1. script \in Scripts /\ site = Sites[script.site] /\ disk = site.disk /\ pc = "called"
    BY DEF Init
  <2>2. IsFiniteSet(DOMAIN disk)
    BY <2>1, SitesAssumption
  <2> QED
    BY <2>1, <2>2 DEF FilesInv, ShownInv
<1>2. FilesInv /\ ShownInv /\ WholeInv /\ EditInv /\ [Next]_vars => (FilesInv /\ ShownInv)'
  BY FilesKept, ShownKept
<1> QED
  BY <1>1, <1>2, EditAlways, PTL DEF Spec

LEMMA FiniteTexts ==
  ASSUME FilesInv, NEW dir
  PROVE  IsFiniteSet(DOMAIN TextsOf(dir))
<1> DEFINE root  == canonicalize(dir)
           inner == {d \in DOMAIN World.copies : StartsWith(d, root) /\ d # root}
           own   == {p \in DOMAIN disk : StartsWith(p, root) /\ \A d \in inner : ~StartsWith(p, d)}
           strip == [p \in own |-> StripPrefix(p, root)]
<1>1. DOMAIN TextsOf(dir) = {StripPrefix(p, root) : p \in own}
  BY DEF TextsOf, TextsBelow
<1>2. {StripPrefix(p, root) : p \in own} = {strip[p] : p \in own}
  OBVIOUS
<1>3. IsFiniteSet(own)
  BY FS_Subset DEF FilesInv
<1> HIDE DEF own, strip, root, inner
<1>4. IsFiniteSet({strip[p] : p \in own})
  BY <1>3, FiniteImage
<1> QED
  BY <1>1, <1>2, <1>4

(* What a status shows when version control works there: every file of the *)
(* changes, with its content.                                              *)
LEMMA DigestOf ==
  ASSUME NEW project, CopyAt(project.root).works
  PROVE  project_status(project).digest =
            Shown(ToSet(delta(project.root)), TextsOf(project.root))
<1> DEFINE rev == detect_revision(project.root)
           print == working_copy_fingerprint(delta(project.root), TextsOf(project.root))
<1>1. rev.vcs \in {"jj", "git"}
  BY DEF detect_revision, RevisionOf
<1>2. rev # NoRev
  BY <1>1 DEF NoRev
<1>3. print.digest = Shown(ToSet(delta(project.root)), TextsOf(project.root))
  BY DEF working_copy_fingerprint, Shown
<1> HIDE DEF rev, print
<1>4. Status(project.root, rev, print).digest = print.digest
  BY <1>2 DEF Status
<1> QED
  BY <1>3, <1>4 DEF project_status, rev, print

LEMMA MarkedIsCopy ==
  ASSUME NEW dir, Marks(dir) # {}
  PROVE  CopyOK(CopyAt(dir))
<1>1. canonicalize(dir) \in DOMAIN World.copies /\ CopyAt(dir) = World.copies[canonicalize(dir)]
  BY DEF Marks, CopyAt, Held, NoCopy
<1> QED
  BY <1>1, WorldAssumption DEF CopyOK

(* A status has the content of every file that was edited, and of every    *)
(* new one beside a file under version control, for every working copy and *)
(* whatever was staged in it, if git reports no copy of what looks like a  *)
(* rename (project_status, mcp.rs; parse_git_porcelain_z and               *)
(* parse_jj_diff_summary, vcs.rs).                                         *)
THEOREM StatusesSeeEdits == Spec => []StatusSeesEdits
<1> DEFINE copy  == CopyAt(Project.root)
           texts == TextsOf(Project.root)
           told  == {f \in EditedFiles(copy, texts) : Tellable(copy, f)}
<1>1. ASSUME FilesInv, ShownInv, StatusOfProject, CopiesArePlain(copy)
      PROVE  Shown(told, texts) \subseteq reply.digest
  <2>1. copy.works /\ CopyOK(copy) /\ reply = project_status(Project)
    BY <1>1, MarkedIsCopy DEF StatusOfProject, ShownInv
  <2>2. reply.digest = Shown(ToSet(delta(Project.root)), texts)
    BY <2>1, DigestOf
  <2>3. IsFiniteSet(DOMAIN texts)
    BY <1>1, FiniteTexts
  <2>4. ASSUME NEW f \in told PROVE f \in ToSet(delta(Project.root))
    BY <1>1, <2>1, <2>3, DeltaTells DEF delta
  <2> HIDE DEF told, texts
  <2> QED
    BY <2>2, <2>4 DEF Shown
<1>2. FilesInv /\ ShownInv => StatusSeesEdits
  BY <1>1 DEF StatusSeesEdits, CopiesArePlain
<1> QED
  BY <1>2, StatusAlways, PTL
=============================================================================
