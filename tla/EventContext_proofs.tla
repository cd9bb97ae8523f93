------------------------ MODULE EventContext_proofs ------------------------
(***************************************************************************)
(* Proofs about EventContext, for any pages, slugs and number of fetches,  *)
(* with the lemmas about host names, of any length, that they rest on.     *)
(***************************************************************************)
EXTENDS EventContext, FiniteSetTheorems, SequenceTheorems, WellFoundedInduction, TLAPS

(* A nonempty set of numbers has a least one, as < is well-founded.        *)
LEMMA MinIsLeast ==
  ASSUME NEW S \in SUBSET Nat, S # {}
  PROVE  Min(S) \in S /\ \A n \in S : Min(S) <= n
<1> DEFINE R == OpToRel(<, Nat)
<1>1. IsWellFoundedOn(R, Nat)
  BY NatLessThanWellFounded
<1>2. \A x, y \in Nat : x < y => <<x, y>> \in R
  BY DEF OpToRel
<1> HIDE DEF R
<1>3. PICK m \in S : \A n \in S : ~(<<n, m>> \in R)
  BY <1>1, WFMin
<1>4. \A n \in S : ~(n < m)
  BY <1>2, <1>3
<1>5. \A n \in S : m <= n
  BY <1>4
<1> QED BY <1>5 DEF Min

(* The greatest of a set of numbers.                                       *)
LEMMA MaxIs ==
  ASSUME NEW S \in SUBSET Nat, NEW m \in S, \A n \in S : n <= m
  PROVE  Max(S) = m
<1>1. Max(S) \in S /\ \A n \in S : Max(S) >= n
  BY DEF Max
<1>2. Max(S) \in Nat /\ m \in Nat /\ Max(S) <= m /\ m <= Max(S)
  BY <1>1
<1> HIDE DEF Max
<1> QED BY <1>2

(* The dots of a name are some of its positions.                           *)
LEMMA DotsAre ==
  ASSUME NEW W, NEW host \in Seq(W)
  PROVE  /\ Dots(host) \subseteq 1..Len(host) /\ Dots(host) \in SUBSET Nat
         /\ IsFiniteSet(Dots(host)) /\ Cardinality(Dots(host)) \in Nat
<1>1. Dots(host) \subseteq 1..Len(host)
  BY DEF Dots
<1>2. IsFiniteSet(Dots(host))
  BY <1>1, FS_Interval, FS_Subset
<1> QED BY <1>1, <1>2, FS_CardinalityType

(* The first part of a name with a dot is what stands before its first.    *)
LEMMA FirstPartStands ==
  ASSUME NEW W, NEW host \in Seq(W)
  PROVE  /\ FirstPart(host) \in Seq(W)
         /\ Dots(host) # {} => IsPrefix(FirstPart(host) \o <<".">>, host)
<1>1. CASE Dots(host) = {}
  BY <1>1 DEF FirstPart
<1>2. CASE Dots(host) # {}
  <2> DEFINE i == Min(Dots(host))
             first == SubSeq(host, 1, i - 1)
  <2>1. i \in 1..Len(host) /\ host[i] = "." /\ FirstPart(host) = first
    BY <1>2, DotsAre, MinIsLeast DEF Dots, FirstPart
  <2> HIDE DEF i
  <2>2. /\ first \in Seq(W) /\ first \in Seq(W \cup {"."}) /\ Len(first) = i - 1
        /\ \A j \in 1..(i - 1) : first[j] = host[j]
    BY <2>1, SubSeqProperties
  <2> HIDE DEF first
  <2> DEFINE t == first \o <<".">>
             V == W \cup {"."}
  <2>3. /\ <<".">> \in Seq(V) /\ Len(<<".">>) = 1 /\ <<".">>[1] = "."
        /\ first \in Seq(V)
    BY <2>2
  <2> HIDE DEF V
  <2>4. /\ t \in Seq(V) /\ Len(t) = i
        /\ \A j \in 1..i : t[j] = host[j]
    <3>1. i \in Nat /\ i >= 1
      BY <2>1
    <3>2. t \in Seq(V) /\ Len(t) = i
      BY <2>2, <2>3, <3>1, ConcatProperties
    <3>3. \A j \in 1..(i - 1) : t[j] = first[j]
      BY <2>2, <2>3, <3>1, ConcatProperties
    <3>4. t[i] = "."
      BY <2>2, <2>3, <3>1, ConcatProperties
    <3> QED BY <2>1, <2>2, <3>1, <3>2, <3>3, <3>4
  <2> HIDE DEF t
  <2>5. SubSeq(t, 1, Len(t)) = SubSeq(host, 1, Len(t))
    BY <2>1, <2>4
  <2>6. IsPrefix(t, host)
    BY <2>1, <2>4, <2>5 DEF IsPrefix
  <2> QED BY <2>1, <2>2, <2>6 DEF t
<1> QED BY <1>1, <1>2

(* A slug is a text.                                                       *)
LEMMA SlugTyped ==
  ASSUME NEW W, NEW host \in Seq(W), NEW query \in Seq(W)
  PROVE  EventSlug(host, query) \in Seq(W)
BY FirstPartStands DEF EventSlug, NoSlug

----------------------------------------------------------------------------
(* A name below the root domain: i is the dot in front of it.              *)
BelowApex(host, i) ==
  /\ i \in 2..Len(host)
  /\ host[i] = "." /\ SubSeq(host, i + 1, Len(host)) = Apex

(* The same, fragment by fragment.                                         *)
LEMMA BelowApexIs ==
  ASSUME NEW W, NEW host \in Seq(W), NEW i \in Nat
  PROVE  BelowApex(host, i) <=>
           /\ i >= 2 /\ Len(host) = i + 3
           /\ host[i] = "." /\ host[i + 1] = "cyberorch"
           /\ host[i + 2] = "." /\ host[i + 3] = "com"
<1>1. /\ Apex \in Seq({".", "cyberorch", "com"}) /\ Len(Apex) = 3
      /\ Apex[1] = "cyberorch" /\ Apex[2] = "." /\ Apex[3] = "com"
  BY DEF Apex
<1>2. ASSUME i \in 2..Len(host)
      PROVE  LET s == SubSeq(host, i + 1, Len(host)) IN
             /\ s \in Seq(W) /\ Len(s) = Len(host) - i
             /\ \A j \in 1..(Len(host) - i) : s[j] = host[i + j]
  BY <1>2, SubSeqProperties
<1>3. ASSUME BelowApex(host, i)
      PROVE  /\ i >= 2 /\ Len(host) = i + 3
             /\ host[i] = "." /\ host[i + 1] = "cyberorch"
             /\ host[i + 2] = "." /\ host[i + 3] = "com"
  <2> DEFINE s == SubSeq(host, i + 1, Len(host))
  <2>1. /\ i \in 2..Len(host) /\ host[i] = "." /\ s = Apex
    BY <1>3 DEF BelowApex
  <2>2. /\ Len(s) = Len(host) - i
        /\ \A j \in 1..(Len(host) - i) : s[j] = host[i + j]
    BY <1>2, <2>1
  <2> HIDE DEF s
  <2>3. Len(host) = i + 3
    <3>1. Len(s) = 3
      BY <1>1, <2>1, Zenon
    <3>2. Len(s) = Len(host) - i
      BY <2>2
    <3>3. Len(host) - i = 3
      BY <3>1, <3>2, Zenon
    <3> QED BY <3>3
  <2>4. s[1] = host[i + 1] /\ s[2] = host[i + 2] /\ s[3] = host[i + 3]
    BY <2>2, <2>3
  <2> QED BY <1>1, <2>1, <2>3, <2>4
<1>4. ASSUME i >= 2, Len(host) = i + 3, host[i] = ".", host[i + 1] = "cyberorch",
             host[i + 2] = ".", host[i + 3] = "com"
      PROVE  BelowApex(host, i)
  <2> DEFINE s == SubSeq(host, i + 1, Len(host))
  <2>1. /\ i \in 2..Len(host) /\ s \in Seq(W) /\ Len(s) = 3
        /\ s[1] = host[i + 1] /\ s[2] = host[i + 2] /\ s[3] = host[i + 3]
    BY <1>2, <1>4
  <2> HIDE DEF s
  <2>2. \A j \in 1..Len(s) : s[j] = Apex[j]
    BY <1>1, <1>4, <2>1
  <2>3. s = Apex
    BY <1>1, <2>1, <2>2, SeqEqual
  <2> QED BY <1>4, <2>1, <2>3 DEF BelowApex, s
<1> QED BY <1>3, <1>4

(* Below the root domain, the root domain is what is found.                *)
LEMMA RootOfBelow ==
  ASSUME NEW W, NEW host \in Seq(W), NEW i \in Nat, BelowApex(host, i)
  PROVE  RootDomain(host) = Apex /\ Cardinality(Dots(host)) >= 2
<1>1. /\ i >= 2 /\ Len(host) = i + 3
      /\ host[i] = "." /\ host[i + 1] = "cyberorch"
      /\ host[i + 2] = "." /\ host[i + 3] = "com"
  BY BelowApexIs
<1>2. /\ i \in Dots(host) /\ i + 2 \in Dots(host)
      /\ \A n \in Dots(host) : n <= i + 2
      /\ i + 1 \notin Dots(host)
  BY <1>1, DotsAre DEF Dots
<1>3. Max(Dots(host)) = i + 2
  BY <1>2, DotsAre, MaxIs
<1>4. Max(Dots(host) \ {i + 2}) = i
  <2> DEFINE S == Dots(host) \ {i + 2}
  <2>1. S \in SUBSET Nat /\ i \in S /\ \A n \in S : n <= i
    BY <1>1, <1>2, DotsAre
  <2> HIDE DEF S
  <2>2. Max(S) = i
    BY <2>1, MaxIs
  <2> QED BY <2>2 DEF S
<1>5. Cardinality(Dots(host)) >= 2
  <2>1. {i, i + 2} \subseteq Dots(host)
    BY <1>2
  <2>2. Cardinality({i, i + 2}) = 2
    <3>1. IsFiniteSet({i}) /\ Cardinality({i}) = 1
      BY FS_Singleton
    <3>2. i + 2 \notin {i} /\ {i, i + 2} = {i} \cup {i + 2}
      OBVIOUS
    <3>3. Cardinality({i} \cup {i + 2}) = 1 + 1
      BY <3>1, <3>2, FS_AddElement
    <3>4. Cardinality({i, i + 2}) = 1 + 1
      BY <3>2, <3>3, Zenon
    <3> QED BY <3>4
  <2>3. Cardinality({i, i + 2}) <= Cardinality(Dots(host))
    BY <2>1, DotsAre, FS_Subset
  <2> QED BY <2>2, <2>3, DotsAre
<1>6. RootDomain(host) = SubSeq(host, i + 1, Len(host))
  <2>1. ~(Cardinality(Dots(host)) < 2)
    BY <1>5, DotsAre
  <2> QED BY <1>3, <1>4, <2>1 DEF RootDomain
<1> QED BY <1>5, <1>6 DEF BelowApex

(* The name of a slug below the root domain is in front of it.             *)
LEMMA SlugOfBelow ==
  ASSUME NEW W, NEW host \in Seq(W), NEW i \in Nat, BelowApex(host, i),
         NEW query, EventSlug(host, query) # NoSlug
  PROVE  /\ EventSlug(host, query) \notin ReservedSubdomains
         /\ IsPrefix(EventSlug(host, query) \o <<".">>, host)
<1>1. host # Localhost /\ Cardinality(Dots(host)) >= 2
  <2>1. Len(Localhost) = 1 /\ Len(host) = i + 3
    BY BelowApexIs DEF Localhost
  <2>2. host # Localhost
    <3>1. host = Localhost => Len(host) = Len(Localhost)
      BY Zenon
    <3> QED BY <2>1, <3>1
  <2>3. RootDomain(host) = Apex /\ Cardinality(Dots(host)) >= 2
    BY RootOfBelow
  <2> QED BY <2>2, <2>3
<1>2. EventSlug(host, query) = FirstPart(host)
      /\ FirstPart(host) \notin ReservedSubdomains
  BY <1>1, DotsAre DEF EventSlug
<1>3. Dots(host) # {}
  <2>1. Cardinality({}) = 0
    BY FS_EmptySet
  <2>2. Dots(host) = {} => Cardinality(Dots(host)) = 0
    BY <2>1, Zenon
  <2> QED BY <1>1, <2>2
<1> QED BY <1>2, <1>3, FirstPartStands

(* The root domain itself is no event.                                     *)
LEMMA ApexIsNoEvent == \A query : EventSlug(Apex, query) = NoSlug
<1>1. Apex # Localhost
  <2>1. Len(Apex) = 3 /\ Len(Localhost) = 1
    BY DEF Apex, Localhost
  <2> QED BY <2>1
<1>2. Dots(Apex) = {2}
  BY DEF Dots, Apex
<1>3. Cardinality(Dots(Apex)) < 2
  BY <1>2, FS_Singleton
<1> QED BY <1>1, <1>3 DEF EventSlug

----------------------------------------------------------------------------
(* A prefix, element by element.                                           *)
LEMMA PrefixIs ==
  ASSUME NEW W, NEW s \in Seq(W), NEW t \in Seq(W)
  PROVE  IsPrefix(s, t) <=>
           Len(s) <= Len(t) /\ \A j \in 1..Len(s) : s[j] = t[j]
<1>1. ASSUME Len(s) <= Len(t)
      PROVE  /\ SubSeq(s, 1, Len(s)) = s
             /\ SubSeq(t, 1, Len(s)) \in Seq(W)
             /\ Len(SubSeq(t, 1, Len(s))) = Len(s)
             /\ \A j \in 1..Len(s) : SubSeq(t, 1, Len(s))[j] = t[j]
  <2>1. SubSeq(s, 1, Len(s)) = s
    BY SubSeqFull
  <2> QED BY <1>1, <2>1, SubSeqProperties
<1>2. ASSUME IsPrefix(s, t)
      PROVE  Len(s) <= Len(t) /\ \A j \in 1..Len(s) : s[j] = t[j]
  <2>1. Len(s) <= Len(t) /\ SubSeq(s, 1, Len(s)) = SubSeq(t, 1, Len(s))
    BY <1>2 DEF IsPrefix
  <2>2. s = SubSeq(t, 1, Len(s))
    BY <1>1, <2>1, Zenon
  <2> QED BY <1>1, <2>1, <2>2
<1>3. ASSUME Len(s) <= Len(t), \A j \in 1..Len(s) : s[j] = t[j]
      PROVE  IsPrefix(s, t)
  <2> DEFINE u == SubSeq(t, 1, Len(s))
  <2>1. u \in Seq(W) /\ Len(u) = Len(s) /\ \A j \in 1..Len(s) : u[j] = s[j]
    BY <1>1, <1>3
  <2> HIDE DEF u
  <2>2. s = u
    BY <2>1, SeqEqual
  <2>3. SubSeq(s, 1, Len(s)) = u
    BY <2>2, SubSeqFull
  <2> QED BY <1>3, <2>3 DEF IsPrefix, u
<1> QED BY <1>2, <1>3

(* A suffix, element by element.                                           *)
LEMMA SuffixIs ==
  ASSUME NEW W, NEW s \in Seq(W), NEW t \in Seq(W)
  PROVE  IsSuffix(s, t) <=>
           /\ Len(s) <= Len(t)
           /\ \A j \in 1..Len(s) : s[j] = t[Len(t) - Len(s) + j]
<1> DEFINE m == Len(s)
           n == Len(t)
           u == Reverse(s)
           v == Reverse(t)
<1>1. m \in Nat /\ n \in Nat
  OBVIOUS
<1>2. /\ u \in Seq(W) /\ Len(u) = m /\ \A j \in 1..m : u[j] = s[m - j + 1]
  BY DEF Reverse
<1>3. /\ v \in Seq(W) /\ Len(v) = n /\ \A j \in 1..n : v[j] = t[n - j + 1]
  BY DEF Reverse
<1> HIDE DEF u, v
<1>4. IsPrefix(u, v) <=> m <= n /\ \A j \in 1..m : u[j] = v[j]
  BY <1>2, <1>3, PrefixIs
<1> HIDE DEF m, n
<1>5. ASSUME m <= n, \A j \in 1..m : u[j] = v[j], NEW j \in 1..m
      PROVE  s[j] = t[n - m + j]
  <2>1. m - j + 1 \in 1..m /\ m - j + 1 \in 1..n
    BY <1>1, <1>5
  <2>2. u[m - j + 1] = s[j] /\ v[m - j + 1] = t[n - m + j]
    <3>1. m - (m - j + 1) + 1 = j /\ n - (m - j + 1) + 1 = n - m + j
      BY <1>1
    <3>2. u[m - j + 1] = s[m - (m - j + 1) + 1]
      BY <1>2, <2>1
    <3>3. v[m - j + 1] = t[n - (m - j + 1) + 1]
      BY <1>3, <2>1
    <3> QED BY <3>1, <3>2, <3>3
  <2> QED BY <1>5, <2>1, <2>2
<1>6. ASSUME m <= n, \A j \in 1..m : s[j] = t[n - m + j], NEW j \in 1..m
      PROVE  u[j] = v[j]
  <2>1. m - j + 1 \in 1..m /\ j \in 1..n
    BY <1>1, <1>6
  <2>2. n - m + (m - j + 1) = n - j + 1
    BY <1>1
  <2>3. s[m - j + 1] = t[n - m + (m - j + 1)]
    BY <1>6, <2>1
  <2>4. u[j] = s[m - j + 1] /\ v[j] = t[n - j + 1]
    BY <1>2, <1>3, <2>1
  <2> QED BY <2>2, <2>3, <2>4
<1> QED BY <1>4, <1>5, <1>6 DEF IsSuffix, u, v, m, n

(* One text, then another, and then a third.                               *)
LEMMA JoinIs ==
  ASSUME NEW W, NEW x \in W, NEW h \in Seq(W), NEW p \in Seq(W)
  PROVE  LET o == <<x>> \o h \o p IN
         /\ o \in Seq(W) /\ Len(o) = 1 + Len(h) + Len(p) /\ o[1] = x
         /\ \A j \in 1..Len(h) : o[1 + j] = h[j]
         /\ \A j \in 1..Len(p) : o[1 + Len(h) + j] = p[j]
<1> DEFINE t == <<x>> \o h
           o == t \o p
<1>1. Len(h) \in Nat /\ Len(p) \in Nat
  OBVIOUS
<1>2. /\ t \in Seq(W) /\ Len(t) = 1 + Len(h) /\ t[1] = x
      /\ \A j \in 1..Len(h) : t[1 + j] = h[j]
  <2>1. <<x>> \in Seq(W) /\ Len(<<x>>) = 1 /\ <<x>>[1] = x
    OBVIOUS
  <2>2. /\ t \in Seq(W) /\ Len(t) = Len(<<x>>) + Len(h)
        /\ \A j \in 1..Len(<<x>>) + Len(h) :
             t[j] = IF j <= Len(<<x>>) THEN <<x>>[j] ELSE h[j - Len(<<x>>)]
    BY <2>1, ConcatProperties
  <2> HIDE DEF t
  <2>3. Len(t) = 1 + Len(h) /\ t[1] = x
    BY <1>1, <2>1, <2>2
  <2>4. ASSUME NEW j \in 1..Len(h) PROVE t[1 + j] = h[j]
    <3>1. 1 + j \in 1..Len(<<x>>) + Len(h) /\ ~(1 + j <= 1) /\ 1 + j - 1 = j
      BY <1>1, <2>1
    <3> QED BY <2>1, <2>2, <3>1
  <2> QED BY <2>2, <2>3, <2>4
<1> HIDE DEF t
<1>3. /\ o \in Seq(W) /\ Len(o) = 1 + Len(h) + Len(p)
      /\ \A j \in 1..(1 + Len(h)) : o[j] = t[j]
      /\ \A j \in 1..Len(p) : o[1 + Len(h) + j] = p[j]
  <2>0. t \in Seq(W)
    BY <1>2
  <2>1. /\ o \in Seq(W) /\ Len(o) = Len(t) + Len(p)
        /\ \A j \in 1..Len(t) + Len(p) :
             o[j] = IF j <= Len(t) THEN t[j] ELSE p[j - Len(t)]
    BY <2>0, ConcatProperties
  <2> HIDE DEF o
  <2>2. Len(o) = 1 + Len(h) + Len(p)
    BY <1>1, <1>2, <2>1
  <2>3. ASSUME NEW j \in 1..(1 + Len(h)) PROVE o[j] = t[j]
    <3>1. j \in 1..(Len(t) + Len(p)) /\ j <= Len(t)
      BY <1>1, <1>2
    <3> QED BY <2>1, <3>1
  <2>4. ASSUME NEW j \in 1..Len(p) PROVE o[1 + Len(h) + j] = p[j]
    <3> DEFINE k == 1 + Len(h) + j
    <3>1. k \in 1..(Len(t) + Len(p)) /\ ~(k <= Len(t)) /\ k - Len(t) = j
      BY <1>1, <1>2
    <3> HIDE DEF k
    <3>2. o[k] = p[j]
      BY <2>1, <3>1
    <3> QED BY <3>2 DEF k
  <2> QED BY <2>1, <2>2, <2>3, <2>4
<1> HIDE DEF o
<1>4. 1 \in 1..(1 + Len(h)) /\ \A j \in 1..Len(h) : 1 + j \in 1..(1 + Len(h))
  BY <1>1
<1> QED BY <1>2, <1>3, <1>4 DEF o, t

(* What matchOrigin accepts, spelt out.                                    *)
Exact(o) ==
  /\ Len(o) = 4 /\ o[1] = "https://"
  /\ o[2] = "cyberorch" /\ o[3] = "." /\ o[4] = "com"

Starred(o) ==
  LET n == Len(o) IN
  /\ n >= 6 /\ o[1] = "https://"
  /\ o[n - 3] = "." /\ o[n - 2] = "cyberorch" /\ o[n - 1] = "." /\ o[n] = "com"
  /\ \A j \in 2..(n - 4) : o[j] # "/"

Root == <<"https://">> \o Apex
Pattern == <<"https://", "*", ".">> \o Apex
ConfigWords == {"https://", "*", ".", "cyberorch", "com"}

(* The exact origin and the pattern of the configuration.                  *)
LEMMA RootIs ==
  /\ Root \in Seq(ConfigWords) /\ Len(Root) = 4
  /\ Root[1] = "https://" /\ Root[2] = "cyberorch" /\ Root[3] = "." /\ Root[4] = "com"
BY DEF Root, Apex, ConfigWords

LEMMA PatternIs ==
  /\ Pattern \in Seq(ConfigWords) /\ Len(Pattern) = 6
  /\ Pattern[1] = "https://" /\ Pattern[2] = "*" /\ Pattern[3] = "."
  /\ Pattern[4] = "cyberorch" /\ Pattern[5] = "." /\ Pattern[6] = "com"
BY DEF Pattern, Apex, ConfigWords

(* Only the pattern has a star, its second fragment.                       *)
LEMMA StarsAre == ~Contains(Root, "*") /\ Contains(Pattern, "*") /\ Star(Pattern) = 2
<1>1. ~Contains(Root, "*")
  BY RootIs DEF Contains
<1>2. Contains(Pattern, "*")
  BY PatternIs DEF Contains
<1>3. Star(Pattern) = 2
  BY PatternIs DEF Star
<1> QED BY <1>1, <1>2, <1>3

(* The root domain over https, on the default port, and nothing else.      *)
LEMMA ExactIs ==
  ASSUME NEW W, ConfigWords \subseteq W, NEW o \in Seq(W)
  PROVE  Root = o <=> Exact(o)
<1>1. Root = o => Exact(o)
  BY RootIs DEF Exact
<1>2. ASSUME Exact(o) PROVE Root = o
  <2>1. Len(o) = Len(Root) /\ \A j \in 1..Len(o) : o[j] = Root[j]
    BY <1>2, RootIs DEF Exact
  <2>2. Root \in Seq(W)
    BY RootIs
  <2> QED BY <2>1, <2>2, SeqEqual
<1> QED BY <1>1, <1>2

(* What the pattern matches: https, something without a slash, and then    *)
(* the root domain, with a dot between them.                               *)
LEMMA StarredIs ==
  ASSUME NEW W, ConfigWords \subseteq W, NEW o \in Seq(W)
  PROVE  Matches(Pattern, o) <=> Starred(o)
<1> DEFINE prefix == SubSeq(Pattern, 1, 1)
           suffix == SubSeq(Pattern, 3, 6)
           n == Len(o)
           mid == SubSeq(o, 2, n - 4)
<1>1. Pattern \in Seq(W)
  BY PatternIs
<1>2. /\ prefix \in Seq(W) /\ Len(prefix) = 1 /\ prefix[1] = "https://"
  BY <1>1, PatternIs, SubSeqProperties
<1>3. /\ suffix \in Seq(W) /\ Len(suffix) = 4
      /\ suffix[1] = "." /\ suffix[2] = "cyberorch"
      /\ suffix[3] = "." /\ suffix[4] = "com"
  BY <1>1, PatternIs, SubSeqProperties
<1>4. n \in Nat
  OBVIOUS
<1>5. Matches(Pattern, o) <=>
        IsPrefix(prefix, o) /\ IsSuffix(suffix, o) /\ mid # <<>> /\ ~Contains(mid, "/")
  BY <1>2, <1>3, PatternIs, StarsAre DEF Matches
<1> HIDE DEF prefix, suffix
<1>6. IsPrefix(prefix, o) <=> 1 <= n /\ o[1] = "https://"
  <2>1. IsPrefix(prefix, o) <=> 1 <= n /\ \A j \in 1..1 : prefix[j] = o[j]
    BY <1>2, PrefixIs
  <2> QED BY <1>2, <2>1
<1>7. IsSuffix(suffix, o) <=>
        /\ 4 <= n /\ o[n - 3] = "." /\ o[n - 2] = "cyberorch"
        /\ o[n - 1] = "." /\ o[n] = "com"
  <2>1. IsSuffix(suffix, o) <=> 4 <= n /\ \A j \in 1..4 : suffix[j] = o[n - 4 + j]
    <3>1. IsSuffix(suffix, o) <=>
            /\ Len(suffix) <= n
            /\ \A j \in 1..Len(suffix) : suffix[j] = o[n - Len(suffix) + j]
      BY <1>3, SuffixIs
    <3> QED BY <1>3, <3>1
  <2>2. (\A j \in 1..4 : suffix[j] = o[n - 4 + j]) <=>
          /\ suffix[1] = o[n - 4 + 1] /\ suffix[2] = o[n - 4 + 2]
          /\ suffix[3] = o[n - 4 + 3] /\ suffix[4] = o[n - 4 + 4]
    OBVIOUS
  <2>3. n - 4 + 1 = n - 3 /\ n - 4 + 2 = n - 2 /\ n - 4 + 3 = n - 1 /\ n - 4 + 4 = n
    BY <1>4
  <2> HIDE DEF n
  <2> QED BY <1>3, <2>1, <2>2, <2>3
<1>8. ASSUME 4 <= n
      PROVE  /\ mid # <<>> <=> n >= 6
             /\ n >= 6 => (~Contains(mid, "/") <=> \A j \in 2..(n - 4) : o[j] # "/")
  <2>1. CASE n >= 6
    <3>1. /\ mid \in Seq(W) /\ Len(mid) = n - 5
          /\ \A j \in 1..(n - 5) : mid[j] = o[j + 1]
      <4>1. n - 4 - 2 + 1 = n - 5 /\ 2 <= n - 4 /\ n - 4 <= n
        BY <1>4, <2>1
      <4>2. /\ mid \in Seq(W) /\ Len(mid) = n - 4 - 2 + 1
            /\ \A j \in 1..(n - 4 - 2 + 1) : mid[j] = o[2 + j - 1]
        BY <1>4, <4>1, SubSeqProperties
      <4> QED BY <1>4, <4>1, <4>2
    <3> HIDE DEF mid
    <3>2. mid # <<>>
      BY <1>4, <2>1, <3>1
    <3>3. Contains(mid, "/") <=> \E j \in 1..(n - 5) : o[j + 1] = "/"
      BY <3>1 DEF Contains
    <3>4. (\E j \in 1..(n - 5) : o[j + 1] = "/") <=> \E j \in 2..(n - 4) : o[j] = "/"
      <4>1. ASSUME NEW j \in 2..(n - 4), o[j] = "/" PROVE \E k \in 1..(n - 5) : o[k + 1] = "/"
        <5>1. j - 1 \in 1..(n - 5) /\ (j - 1) + 1 = j
          BY <1>4, <2>1
        <5> QED BY <4>1, <5>1
      <4> QED BY <1>4, <2>1, <4>1
    <3> QED BY <2>1, <3>2, <3>3, <3>4
  <2>2. CASE n < 6
    <3>1. mid = <<>>
      BY <1>4, <1>8, <2>2, SubSeqEmpty
    <3> QED BY <1>4, <2>2, <3>1
  <2> QED BY <1>4, <2>1, <2>2
<1> HIDE DEF mid
<1>9. Starred(o) <=>
        /\ n >= 6 /\ o[1] = "https://"
        /\ o[n - 3] = "." /\ o[n - 2] = "cyberorch" /\ o[n - 1] = "." /\ o[n] = "com"
        /\ \A j \in 2..(n - 4) : o[j] # "/"
  BY DEF Starred
<1>10. n >= 6 => 1 <= n /\ 4 <= n
  BY <1>4
<1> HIDE DEF n
<1> QED BY <1>5, <1>6, <1>7, <1>8, <1>9, <1>10

(* The gateway's test of an origin comes down to these two.                *)
LEMMA MatchOriginIs ==
  ASSUME NEW W, ConfigWords \subseteq W, NEW o \in Seq(W)
  PROVE  MatchOrigin(o) <=> Exact(o) \/ Starred(o)
<1>1. AllowedOrigins = {Root, Pattern}
  BY DEF AllowedOrigins, Root, Pattern
<1>2. MatchOrigin(o) <=> Root = o \/ Matches(Pattern, o)
  BY <1>1, StarsAre DEF MatchOrigin
<1> QED BY <1>2, ExactIs, StarredIs

----------------------------------------------------------------------------
(* A fetch whose answer will be taken.                                     *)
Live(f) == fetch[f] # None /\ ~fetch[f].cancelled

(* Once the effect has run, only a fetch for the slug of the page is live: *)
(* an answer for another one changes nothing.                              *)
LiveInv ==
  /\ DOMAIN fetch = Fetches
  /\ ~Pending => \A f \in Fetches : Live(f) => fetch[f].slug = slug

(* An error that is left over from another slug has been cleared.          *)
ErrorInv == mounted /\ ~Pending /\ slug # NoSlug => error \in {None, slug}

IInv == LiveInv /\ ErrorInv /\ ShownIsCurrent

----------------------------------------------------------------------------
LEMMA InitIInv == Init => IInv
BY DEF Init, IInv, LiveInv, Live, ErrorInv, ShownIsCurrent

(* The cleanup of an effect leaves no fetch live.                          *)
LEMMA CancelledNotLive ==
  /\ DOMAIN Cancelled = Fetches
  /\ \A f \in Fetches : Cancelled[f] # None => Cancelled[f].cancelled = TRUE
BY DEF Cancelled

(* An effect runs, and makes at most one fetch, for the slug of the page.  *)
LEMMA EffectKeeps == ASSUME IInv, Effect PROVE IInv'
<1>1. CASE slug = NoSlug
  <2>1. fetch' = Cancelled /\ slug' = NoSlug
    BY <1>1 DEF Effect
  <2> QED
    BY <2>1, CancelledNotLive DEF IInv, LiveInv, Live, ErrorInv, ShownIsCurrent
<1>2. CASE slug # NoSlug
  <2>1. PICK f \in Fetches :
          fetch' = [Cancelled EXCEPT ![f] = [slug |-> slug, cancelled |-> FALSE]]
    BY <1>2 DEF Effect
  <2>2. error' = None /\ isLoading' = TRUE /\ slug' = slug
    BY <1>2 DEF Effect
  <2>3. DOMAIN fetch' = Fetches /\ fetch'[f].slug = slug
    BY <2>1, CancelledNotLive
  <2>4. \A g \in Fetches \ {f} : fetch'[g] = Cancelled[g]
    BY <2>1, CancelledNotLive
  <2>5. LiveInv'
    BY <2>2, <2>3, <2>4, CancelledNotLive DEF LiveInv, Live
  <2> QED BY <2>2, <2>5 DEF IInv, ErrorInv, ShownIsCurrent
<1> QED BY <1>1, <1>2

(* An answer or an error comes in for a fetch.                             *)
LEMMA AnswerKeeps ==
  ASSUME IInv, NEW f \in Fetches, Answered(f) \/ Failed(f) PROVE IInv'
<1>1. /\ fetch' = [fetch EXCEPT ![f] = None]
      /\ UNCHANGED <<mounted, slug, effect>>
  BY DEF Answered, Failed
<1>2. LiveInv'
  BY <1>1 DEF IInv, LiveInv, Live, Pending
<1>3. CASE fetch[f].cancelled
  <2>1. UNCHANGED <<event, isLoading, error>>
    BY <1>3 DEF Answered, Failed
  <2> QED BY <1>1, <1>2, <2>1 DEF IInv, ErrorInv, ShownIsCurrent, Pending
<1>4. CASE ~fetch[f].cancelled
  <2>1. ~Pending => fetch[f].slug = slug
    BY <1>4 DEF IInv, LiveInv, Live, Answered, Failed
  <2>2. \/ event' = fetch[f].slug /\ error' = error
        \/ error' = fetch[f].slug
    BY <1>4 DEF Answered, Failed
  <2> QED BY <1>1, <1>2, <2>1, <2>2 DEF IInv, ErrorInv, ShownIsCurrent, Pending
<1> QED BY <1>3, <1>4

LEMMA StepIInv == IInv /\ [Next]_vars => IInv'
<1> SUFFICES ASSUME IInv, [Next]_vars PROVE IInv'
  OBVIOUS
<1>1. CASE Mount \/ Render
  <2>1. Pending' /\ fetch' = fetch
    BY <1>1 DEF Mount, Render, Pending
  <2> QED BY <2>1 DEF IInv, LiveInv, ErrorInv, ShownIsCurrent
<1>2. CASE Unmount
  <2>1. ~mounted' /\ fetch' = Cancelled
    BY <1>2 DEF Unmount
  <2> QED
    BY <2>1, CancelledNotLive DEF IInv, LiveInv, Live, ErrorInv, ShownIsCurrent
<1>3. CASE UNCHANGED vars
  BY <1>3 DEF vars, IInv, LiveInv, Live, ErrorInv, ShownIsCurrent, Pending
<1> QED BY <1>1, <1>2, <1>3, EffectKeeps, AnswerKeeps DEF Next

----------------------------------------------------------------------------
(* Whatever is rendered and in whatever order fetches are answered, the    *)
(* inductive invariant holds.                                              *)
THEOREM Invariance == Spec => []IInv
BY InitIInv, StepIInv, PTL DEF Spec

(* A page never shows the event or the error of a slug that it has left.   *)
THEOREM NeverShowsAnotherEvent == Spec => []ShownIsCurrent
BY Invariance, PTL DEF IInv

----------------------------------------------------------------------------
(* The page stays what it is, and so what its host names as a slug.        *)
PageInv ==
  /\ page \in Pages
  /\ page.host # Localhost =>
       /\ slug \in {NoSlug, EventSlug(page.host, NoSlug)}
       /\ (\E f \in Fetches : fetch[f] # None) => EventSlug(page.host, NoSlug) # NoSlug

(* The types, with what a fetch is about: its event or error is shown.     *)
TypeInv ==
  /\ TypeOK
  /\ slug \in Seq(Words)
  /\ DOMAIN fetch = Fetches
  /\ \A f \in Fetches : fetch[f] # None => fetch[f].slug \in Seq(Words)

(* What the assumption says of the page.                                   *)
LEMMA PageIs ==
  ASSUME page \in Pages
  PROVE  /\ page.scheme \in Words /\ page.host \in Seq(Words) /\ page.port \in Seq(Words)
         /\ \A i \in DOMAIN page.host : page.host[i] # "/"
         /\ \A i \in DOMAIN page.port : page.port[i] \notin {"/", "com"}
         /\ ConfigWords \subseteq Words
<1>1. /\ page.scheme \in Words /\ page.host \in Seq(Words) /\ page.port \in Seq(Words)
      /\ \A i \in DOMAIN page.host : page.host[i] # "/"
      /\ \A i \in DOMAIN page.port : page.port[i] \notin {"/", "com"}
  BY PagesAssumption
<1>2. ConfigWords \subseteq Words
  BY PagesAssumption DEF ConfigWords
<1> QED BY <1>1, <1>2

LEMMA NoSlugIs == NoSlug \in Seq(Words)
BY DEF NoSlug

(* The slug of a rendering: a text, that of the host when it is deployed.  *)
LEMMA RenderedSlug ==
  ASSUME page \in Pages, NEW query \in Slugs \cup {NoSlug}
  PROVE  /\ EventSlug(page.host, query) \in Seq(Words)
         /\ page.host # Localhost =>
              EventSlug(page.host, query) \in {NoSlug, EventSlug(page.host, NoSlug)}
<1>1. page.host \in Seq(Words)
  BY PageIs
<1>2. query \in Seq(Words)
  BY NoSlugIs, PagesAssumption
<1>3. EventSlug(page.host, query) \in Seq(Words)
  BY <1>1, <1>2, SlugTyped
<1>4. page.host # Localhost =>
        EventSlug(page.host, query) = EventSlug(page.host, NoSlug)
  BY DEF EventSlug
<1> QED BY <1>3, <1>4

LEMMA InitPage == Init => TypeInv /\ PageInv
BY NoSlugIs DEF Init, TypeInv, TypeOK, PageInv

(* An effect makes a fetch only for a slug.                                *)
LEMMA EffectFetches ==
  ASSUME TypeInv, Effect
  PROVE  /\ DOMAIN fetch' = Fetches
         /\ \A f \in Fetches : fetch'[f] # None =>
              /\ fetch'[f].cancelled \in BOOLEAN
              /\ fetch'[f].slug \in Seq(Words) \ {NoSlug}
              /\ slug # NoSlug \/ (\E g \in Fetches : fetch[g] # None)
<1>1. /\ DOMAIN Cancelled = Fetches
      /\ \A f \in Fetches : Cancelled[f] # None =>
           /\ Cancelled[f].cancelled \in BOOLEAN
           /\ Cancelled[f].slug \in Seq(Words) \ {NoSlug}
           /\ fetch[f] # None
  BY DEF Cancelled, TypeInv, TypeOK
<1>2. CASE slug = NoSlug
  <2>1. fetch' = Cancelled
    BY <1>2 DEF Effect
  <2> QED BY <1>1, <2>1
<1>3. CASE slug # NoSlug
  <2>1. PICK f \in Fetches :
          fetch' = [Cancelled EXCEPT ![f] = [slug |-> slug, cancelled |-> FALSE]]
    BY <1>3 DEF Effect
  <2>2. DOMAIN fetch' = Fetches /\ fetch'[f] = [slug |-> slug, cancelled |-> FALSE]
    BY <1>1, <2>1
  <2>3. \A g \in Fetches \ {f} : fetch'[g] = Cancelled[g]
    BY <1>1, <2>1
  <2>4. slug \in Seq(Words) \ {NoSlug}
    BY <1>3 DEF TypeInv
  <2>5. /\ fetch'[f].slug = slug /\ fetch'[f].cancelled = FALSE
    BY <2>2
  <2>6. ASSUME NEW g \in Fetches, fetch'[g] # None
        PROVE  /\ fetch'[g].cancelled \in BOOLEAN
               /\ fetch'[g].slug \in Seq(Words) \ {NoSlug}
    BY <1>1, <2>3, <2>4, <2>5, <2>6
  <2> QED BY <1>3, <2>2, <2>6
<1> QED BY <1>2, <1>3

(* Every action keeps the types and the slug of the host.                  *)
LEMMA StepPage == TypeInv /\ PageInv /\ [Next]_vars => TypeInv' /\ PageInv'
<1> SUFFICES ASSUME TypeInv, PageInv, [Next]_vars PROVE TypeInv' /\ PageInv'
  OBVIOUS
<1>1. CASE Mount \/ Render
  <2>1. PICK query \in Slugs \cup {NoSlug} : slug' = EventSlug(page.host, query)
    BY <1>1 DEF Mount, Render
  <2>2. page' = page /\ fetch' = fetch
    BY <1>1 DEF Mount, Render
  <2>3. /\ slug' \in Seq(Words)
        /\ page.host # Localhost => slug' \in {NoSlug, EventSlug(page.host, NoSlug)}
    BY <2>1, RenderedSlug DEF PageInv
  <2>4. PageInv'
    BY <2>2, <2>3 DEF PageInv
  <2>5. /\ mounted' \in BOOLEAN /\ isLoading' \in BOOLEAN
        /\ effect' \in {"first", "again", "done"}
        /\ event' \in {event, None} /\ error' \in {error, None}
    BY <1>1 DEF Mount, Render, TypeInv, TypeOK
  <2> QED BY <2>2, <2>3, <2>4, <2>5 DEF TypeInv, TypeOK
<1>2. CASE Unmount
  <2>1. /\ DOMAIN fetch' = Fetches
        /\ \A f \in Fetches : fetch'[f] # None =>
             /\ fetch[f] # None /\ fetch'[f].slug = fetch[f].slug
             /\ fetch'[f].cancelled \in BOOLEAN
    BY <1>2 DEF Unmount, Cancelled
  <2>2. /\ page' = page /\ slug' = NoSlug /\ effect' = effect
        /\ mounted' = FALSE /\ isLoading' = FALSE /\ event' = None /\ error' = None
    BY <1>2 DEF Unmount
  <2> QED BY <2>1, <2>2, NoSlugIs DEF TypeInv, TypeOK, PageInv
<1>3. CASE Effect
  <2>1. /\ page' = page /\ slug' = slug /\ mounted' = mounted /\ event' = event
        /\ error' \in {error, None} /\ isLoading' \in BOOLEAN
        /\ effect' \in {"first", "again", "done"}
    BY <1>3 DEF Effect, EffectRuns
  <2> QED BY <1>3, <2>1, EffectFetches DEF TypeInv, TypeOK, PageInv
<1>4. ASSUME NEW f \in Fetches, Answered(f) \/ Failed(f)
      PROVE  TypeInv' /\ PageInv'
  <2>1. /\ fetch[f] # None /\ fetch' = [fetch EXCEPT ![f] = None]
        /\ page' = page /\ slug' = slug /\ mounted' = mounted /\ effect' = effect
        /\ event' \in {event, fetch[f].slug} /\ error' \in {error, fetch[f].slug}
        /\ isLoading' \in {isLoading, FALSE}
    BY <1>4 DEF Answered, Failed
  <2>2. /\ DOMAIN fetch' = Fetches
        /\ \A g \in Fetches : fetch'[g] # None => fetch[g] # None /\ fetch'[g] = fetch[g]
    BY <2>1 DEF TypeInv
  <2> QED BY <2>1, <2>2 DEF TypeInv, TypeOK, PageInv
<1>5. CASE UNCHANGED vars
  BY <1>5 DEF vars, TypeInv, TypeOK, PageInv
<1> QED BY <1>1, <1>2, <1>3, <1>4, <1>5 DEF Next

----------------------------------------------------------------------------
(* The pages of the platform, in the terms of the lemmas above.            *)
LEMMA PlatformPageIs ==
  PlatformPage <=>
    /\ page.scheme = "https://" /\ page.port = <<>>
    /\ page.host = Apex \/ \E i \in Nat : BelowApex(page.host, i)
<1>1. \A i : BelowApex(page.host, i) <=>
        /\ i \in 2..Len(page.host)
        /\ page.host[i] = "." /\ SubSeq(page.host, i + 1, Len(page.host)) = Apex
  BY DEF BelowApex
<1>2. ASSUME NEW i \in 2..Len(page.host) PROVE i \in Nat
  OBVIOUS
<1> QED BY <1>1, <1>2 DEF PlatformPage

(* The gateway's test of the origin of a page that URLs allow.             *)
LEMMA OriginTest ==
  ASSUME page \in Pages
  PROVE  OriginsExact
<1> DEFINE h == page.host
           p == page.port
           x == page.scheme
           o == <<x>> \o h \o p
           n == Len(h)
<1>1. /\ x \in Words /\ h \in Seq(Words) /\ p \in Seq(Words)
      /\ \A i \in DOMAIN h : h[i] # "/"
      /\ \A i \in DOMAIN p : p[i] \notin {"/", "com"}
      /\ ConfigWords \subseteq Words
  BY PageIs
<1>2. PlatformPage <=>
        /\ x = "https://" /\ p = <<>>
        /\ h = Apex \/ \E i \in Nat : BelowApex(h, i)
  BY PlatformPageIs
<1>3. OriginsExact <=> (MatchOrigin(o) <=> PlatformPage)
  BY DEF OriginsExact, Origin
<1> HIDE DEF h, p, x
<1>4. /\ o \in Seq(Words) /\ Len(o) = 1 + Len(h) + Len(p) /\ o[1] = x
      /\ \A j \in 1..Len(h) : o[1 + j] = h[j]
      /\ \A j \in 1..Len(p) : o[1 + Len(h) + j] = p[j]
  BY <1>1, JoinIs
<1> HIDE DEF o
<1>5. n \in Nat /\ Len(p) \in Nat
  BY <1>1
<1>6. MatchOrigin(o) <=> Exact(o) \/ Starred(o)
  BY <1>1, <1>4, MatchOriginIs
<1>7. CASE p # <<>>
  <2>1. Len(p) >= 1
    BY <1>1, <1>7
  <2>2. Len(p) \in 1..Len(p) /\ Len(o) = 1 + Len(h) + Len(p)
    BY <1>4, <1>5, <2>1
  <2>3. o[Len(o)] = p[Len(p)] /\ p[Len(p)] # "com"
    BY <1>1, <1>4, <2>2
  <2>4. ~Exact(o) /\ ~Starred(o)
    BY <2>3 DEF Exact, Starred
  <2> QED BY <1>2, <1>3, <1>6, <1>7, <2>4
<1>8. CASE p = <<>>
  <2>1. Len(p) = 0 /\ Len(o) = 1 + n
    BY <1>4, <1>5, <1>8
  <2>2. Exact(o) <=> x = "https://" /\ h = Apex
    <3>1. Apex \in Seq(Words) /\ Len(Apex) = 3
          /\ Apex[1] = "cyberorch" /\ Apex[2] = "." /\ Apex[3] = "com"
      BY <1>1 DEF Apex, ConfigWords
    <3>2. ASSUME n = 3, h[1] = "cyberorch", h[2] = ".", h[3] = "com" PROVE h = Apex
      <4>1. \A j \in 1..Len(h) : h[j] = Apex[j]
        BY <3>1, <3>2
      <4> QED BY <1>1, <3>1, <3>2, <4>1, SeqEqual
    <3>3. h = Apex => n = 3 /\ h[1] = "cyberorch" /\ h[2] = "." /\ h[3] = "com"
      BY <3>1, Zenon DEF n
    <3>4. n = 3 => o[2] = h[1] /\ o[3] = h[2] /\ o[4] = h[3]
      <4>1. n = 3 => o[1 + 1] = h[1] /\ o[1 + 2] = h[2] /\ o[1 + 3] = h[3]
        BY <1>4
      <4> QED BY <4>1
    <3>5. Exact(o) <=> n = 3 /\ x = "https://" /\ o[2] = "cyberorch" /\ o[3] = "." /\ o[4] = "com"
      <4>0. n \in Nat
        BY <1>5
      <4> HIDE DEF n
      <4>1. 1 + n = 4 <=> n = 3
        BY <4>0
      <4>2. Len(o) = 4 <=> n = 3
        BY <2>1, <4>1, Zenon
      <4> QED BY <1>4, <4>2 DEF Exact
    <3> QED BY <3>2, <3>3, <3>4, <3>5
  <2>3. Starred(o) <=> x = "https://" /\ \E i \in Nat : BelowApex(h, i)
    <3>1. Starred(o) <=>
            /\ n >= 5 /\ x = "https://"
            /\ o[n - 2] = "." /\ o[n - 1] = "cyberorch" /\ o[n] = "." /\ o[n + 1] = "com"
            /\ \A j \in 2..(n - 3) : o[j] # "/"
      <4> DEFINE m == Len(o)
      <4>1. Starred(o) <=>
              /\ m >= 6 /\ o[1] = "https://"
              /\ o[m - 3] = "." /\ o[m - 2] = "cyberorch" /\ o[m - 1] = "." /\ o[m] = "com"
              /\ \A j \in 2..(m - 4) : o[j] # "/"
        BY DEF Starred
      <4>2. n \in Nat /\ m = 1 + n
        BY <1>5, <2>1
      <4> HIDE DEF n, m
      <4>3. /\ m - 3 = n - 2 /\ m - 2 = n - 1 /\ m - 1 = n /\ m = n + 1
            /\ m - 4 = n - 3 /\ (m >= 6 <=> n >= 5)
        BY <4>2
      <4>4. /\ o[m - 3] = o[n - 2] /\ o[m - 2] = o[n - 1]
            /\ o[m - 1] = o[n] /\ o[m] = o[n + 1] /\ 2..(m - 4) = 2..(n - 3)
        BY <4>3, Zenon
      <4> QED BY <1>4, <4>1, <4>3, <4>4, Zenon
    <3>2. ASSUME n >= 5
          PROVE  /\ o[n - 2] = h[n - 3] /\ o[n - 1] = h[n - 2]
                 /\ o[n] = h[n - 1] /\ o[n + 1] = h[n]
                 /\ \A j \in 2..(n - 3) : o[j] # "/"
      <4>1. \A j \in 2..(n + 1) : o[j] = h[j - 1] /\ j - 1 \in 1..n
        <5>1. ASSUME NEW j \in 2..(n + 1) PROVE o[j] = h[j - 1] /\ j - 1 \in 1..n
          <6>1. j - 1 \in 1..n /\ 1 + (j - 1) = j
            BY <1>5
          <6>2. o[1 + (j - 1)] = h[j - 1]
            BY <1>4, <6>1
          <6> QED BY <6>1, <6>2
        <5> QED BY <5>1
      <4>2. \A j \in 2..(n + 1) : o[j] # "/"
        BY <1>1, <4>1
      <4>3. /\ n - 2 \in 2..(n + 1) /\ n - 1 \in 2..(n + 1)
            /\ n \in 2..(n + 1) /\ n + 1 \in 2..(n + 1)
            /\ n - 2 - 1 = n - 3 /\ n - 1 - 1 = n - 2 /\ n + 1 - 1 = n
            /\ 2..(n - 3) \subseteq 2..(n + 1)
        BY <1>5, <3>2
      <4> HIDE DEF n
      <4>4. /\ o[n - 2] = h[n - 3] /\ o[n - 1] = h[n - 2]
            /\ o[n] = h[n - 1] /\ o[n + 1] = h[n]
        BY <4>1, <4>3
      <4> QED BY <4>2, <4>3, <4>4
    <3>3. ASSUME NEW i \in Nat
          PROVE  BelowApex(h, i) <=>
                   /\ i >= 2 /\ n = i + 3
                   /\ h[i] = "." /\ h[i + 1] = "cyberorch"
                   /\ h[i + 2] = "." /\ h[i + 3] = "com"
      BY <1>1, BelowApexIs
    <3>4. ASSUME n >= 5, h[n - 3] = ".", h[n - 2] = "cyberorch", h[n - 1] = ".", h[n] = "com"
          PROVE  \E i \in Nat : BelowApex(h, i)
      <4>1. /\ n - 3 \in Nat /\ n - 3 >= 2 /\ n = n - 3 + 3
            /\ n - 3 + 1 = n - 2 /\ n - 3 + 2 = n - 1 /\ n - 3 + 3 = n
        BY <1>5, <3>4
      <4> HIDE DEF n
      <4>2. BelowApex(h, n - 3)
        BY <3>3, <3>4, <4>1
      <4> QED BY <4>1, <4>2
    <3>5. ASSUME NEW i \in Nat, BelowApex(h, i)
          PROVE  n >= 5 /\ h[n - 3] = "." /\ h[n - 2] = "cyberorch" /\ h[n - 1] = "." /\ h[n] = "com"
      <4>1. n >= 5 /\ n - 3 = i /\ n - 2 = i + 1 /\ n - 1 = i + 2 /\ n = i + 3
        BY <1>5, <3>3, <3>5
      <4> HIDE DEF n
      <4> QED BY <3>3, <3>5, <4>1
    <3> QED BY <3>1, <3>2, <3>4, <3>5
  <2> QED BY <1>2, <1>3, <1>6, <1>8, <2>2, <2>3
<1> QED BY <1>7, <1>8

(* A page of the platform with a fetch has an event in front of the root.  *)
LEMMA EventHosts ==
  ASSUME TypeInv, PageInv PROVE EventHostsWork
<1> SUFFICES ASSUME NEW f \in Fetches, fetch[f] # None, PlatformPage
             PROVE  /\ Readable
                    /\ ApiOrigin(page.scheme, page.host, page.port)
                         = <<"https://", "api", ".">> \o Apex
                    /\ EventSlug(page.host, NoSlug) \notin ReservedSubdomains
                    /\ IsPrefix(EventSlug(page.host, NoSlug) \o <<".">>, page.host)
                    /\ page.host # Apex
  BY DEF EventHostsWork
<1>1. page \in Pages /\ page.host \in Seq(Words)
  BY PageIs DEF PageInv
<1>2. Readable
  BY <1>1, OriginTest DEF Readable, OriginsExact
<1>3. Len(Localhost) = 1 /\ Len(Apex) = 3
  BY DEF Localhost, Apex
<1>4. page.host # Localhost
  <2>1. page.host = Localhost => Len(page.host) = 1
    BY <1>3, Zenon
  <2>2. page.host = Apex => Len(page.host) = 3
    BY <1>3, Zenon
  <2>3. \A i \in Nat : BelowApex(page.host, i) => Len(page.host) = i + 3 /\ i >= 2
    BY <1>1, BelowApexIs
  <2>4. page.host = Apex => page.host # Localhost
    BY <2>1, <2>2
  <2>5. ASSUME NEW i \in Nat, BelowApex(page.host, i) PROVE page.host # Localhost
    <3>1. Len(page.host) = i + 3 /\ i >= 2
      BY <2>3, <2>5
    <3>2. ~(i + 3 = 1)
      BY <3>1
    <3> QED BY <2>1, <3>1, <3>2, Zenon
  <2> QED BY <2>4, <2>5, PlatformPageIs
<1>5. EventSlug(page.host, NoSlug) # NoSlug
  BY <1>4 DEF PageInv
<1>6. page.host # Apex
  BY <1>5, ApexIsNoEvent, Zenon
<1>7. PICK i \in Nat : BelowApex(page.host, i)
  BY <1>6, PlatformPageIs
<1>8. RootDomain(page.host) = Apex
  BY <1>1, <1>7, RootOfBelow
<1>9. ApiOrigin(page.scheme, page.host, page.port) = <<"https://", "api", ".">> \o Apex
  <2>1. page.scheme = "https://"
    BY PlatformPageIs
  <2> QED BY <1>4, <1>8, <2>1 DEF ApiOrigin
<1> QED BY <1>1, <1>2, <1>5, <1>6, <1>7, <1>9, SlugOfBelow

----------------------------------------------------------------------------
LEMMA PageInvariance == Spec => [](TypeInv /\ PageInv)
BY InitPage, StepPage, PTL DEF Spec

(* Type correctness: what the hook holds and fetches are texts, and no     *)
(* fetch is made without a slug.                                           *)
THEOREM TypeCorrect == Spec => []TypeOK
BY PageInvariance, PTL DEF TypeInv

(* Whatever host names there are, the gateway's CORS test lets in exactly  *)
(* the root domain and the names below it, over https on the default port. *)
THEOREM OriginsAreExact == Spec => []OriginsExact
<1>1. PageInv => OriginsExact
  BY OriginTest DEF PageInv
<1> QED BY <1>1, PageInvariance, PTL

(* Wherever the platform's frontend fetches an event, at whatever depth of *)
(* subdomains, it asks api.cyberorch.com, may read the answer, and its     *)
(* slug is the first part of the name and not reserved.                    *)
THEOREM EventHostsAlwaysWork == Spec => []EventHostsWork
BY EventHosts, PageInvariance, PTL

----------------------------------------------------------------------------
(* At most one fetch is live, and the spinner of a page is shown exactly   *)
(* as long as one is.                                                      *)
SpinnerInv ==
  /\ \A f, g \in Fetches : Live(f) /\ Live(g) => f = g
  /\ mounted /\ ~Pending => (isLoading <=> \E f \in Fetches : Live(f))

LEMMA StepSpinner == TypeInv /\ LiveInv /\ SpinnerInv /\ [Next]_vars => SpinnerInv'
<1> SUFFICES ASSUME TypeInv, LiveInv, SpinnerInv, [Next]_vars PROVE SpinnerInv'
  OBVIOUS
<1>1. CASE Mount \/ Render
  <2>1. Pending' /\ fetch' = fetch
    BY <1>1 DEF Mount, Render, Pending
  <2> QED BY <2>1 DEF SpinnerInv, Live
<1>2. CASE Unmount
  <2>1. ~mounted' /\ fetch' = Cancelled
    BY <1>2 DEF Unmount
  <2> QED BY <2>1, CancelledNotLive DEF SpinnerInv, Live
<1>3. CASE Effect
  <2>1. CASE slug = NoSlug
    <3>1. fetch' = Cancelled /\ isLoading' = FALSE
      BY <1>3, <2>1 DEF Effect
    <3> QED BY <3>1, CancelledNotLive DEF SpinnerInv, Live
  <2>2. CASE slug # NoSlug
    <3>1. PICK f \in Fetches :
            fetch' = [Cancelled EXCEPT ![f] = [slug |-> slug, cancelled |-> FALSE]]
      BY <1>3, <2>2 DEF Effect
    <3>2. isLoading' = TRUE
      BY <1>3, <2>2 DEF Effect
    <3>3. \A g \in Fetches \ {f} : ~Live(g)'
      BY <3>1, CancelledNotLive DEF Live
    <3>4. Live(f)'
      <4>1. fetch'[f] = [slug |-> slug, cancelled |-> FALSE]
        BY <3>1, CancelledNotLive
      <4>2. slug \in Seq(Words)
        BY DEF TypeInv
      <4>3. fetch'[f] \in [slug : Seq(Words), cancelled : BOOLEAN]
        BY <4>1, <4>2
      <4>4. fetch'[f] # None /\ ~fetch'[f].cancelled
        <5>1. ~fetch'[f].cancelled
          BY <4>1
        <5>2. None \notin [slug : Seq(Words), cancelled : BOOLEAN]
          BY PagesAssumption
        <5>3. fetch'[f] # None
          BY <4>3, <5>2, Zenon
        <5> QED BY <5>1, <5>3
      <4> QED BY <4>4 DEF Live
    <3> QED BY <3>2, <3>3, <3>4 DEF SpinnerInv
  <2> QED BY <2>1, <2>2
<1>4. ASSUME NEW f \in Fetches, Answered(f) \/ Failed(f)
      PROVE  SpinnerInv'
  <2>1. /\ fetch[f] # None /\ fetch' = [fetch EXCEPT ![f] = None]
        /\ mounted' = mounted /\ effect' = effect
        /\ isLoading' = IF fetch[f].cancelled THEN isLoading ELSE FALSE
    BY <1>4 DEF Answered, Failed
  <2>2. \A g \in Fetches : Live(g)' <=> Live(g) /\ g # f
    BY <2>1 DEF LiveInv, Live
  <2> QED BY <2>1, <2>2 DEF SpinnerInv, Live, Pending
<1>5. CASE UNCHANGED vars
  BY <1>5 DEF vars, SpinnerInv, Live, Pending
<1> QED BY <1>1, <1>2, <1>3, <1>4, <1>5 DEF Next

(* The safety half of LoadingEnds: the spinner never stands without a      *)
(* fetch that will take it away, nor does the page look settled while the  *)
(* answer of one may still change it.                                      *)
THEOREM SpinnerHasItsFetch == Spec => []SpinnerInv
<1>1. Init => SpinnerInv
  BY DEF Init, SpinnerInv, Live, Pending
<1>2. IInv => LiveInv
  BY DEF IInv
<1> QED BY <1>1, <1>2, StepSpinner, Invariance, PageInvariance, PTL DEF Spec
=============================================================================
