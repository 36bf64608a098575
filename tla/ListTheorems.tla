----------------------------- MODULE ListTheorems -----------------------------
(* What the operators on lists return.                                        *)
EXTENDS Lists, SequencesExt, TLAPS, SequenceTheorems, WellFoundedInduction

(* A set of naturals that is not empty has a least element.                   *)
LEMMA LeastNat ==
  ASSUME NEW T \in SUBSET Nat, T # {}
  PROVE  \E n \in T : \A m \in T : n <= m
<1>. DEFINE R == {ss \in Nat \X Nat : ss[1] < ss[2]}
<1>0. IsWellFoundedOn(R, Nat) BY NatLessThanWellFounded, Zenon DEF OpToRel
<1>. HIDE DEF R
<1>1. PICK n \in T : \A m \in T : ~ (<<m, n>> \in R)
  BY <1>0, WFMin
<1>2. \A m \in T : ~ (m < n) BY <1>1 DEF R
<1>. QED BY <1>2

(* f is the function that Only(s, S) is defined by, up to n.                  *)
IsOnly(f, s, S, n) ==
  f = [i \in 0 .. n |-> IF i = 0 THEN << >>
        ELSE IF s[i] \in S THEN Append(f[i-1], s[i]) ELSE f[i-1]]

(* The recursive function that Only is defined by exists.                     *)
LEMMA OnlyExists ==
  ASSUME NEW s, NEW S, NEW n \in Nat
  PROVE  \E f : IsOnly(f, s, S, n)
<1>. DEFINE Bad == {k \in Nat : ~ \E f : IsOnly(f, s, S, k)}
<1>1. SUFFICES ASSUME Bad # {} PROVE FALSE BY <1>1
<1>2. PICK k \in Bad : \A m \in Bad : k <= m BY <1>1, LeastNat
<1>3. k # 0
  <2>1. IsOnly([i \in 0 .. 0 |-> << >>], s, S, 0) BY DEF IsOnly
  <2>. QED BY <2>1
<1>4. k - 1 \in Nat /\ k - 1 \notin Bad BY <1>2, <1>3
<1>5. PICK f : IsOnly(f, s, S, k - 1) BY <1>4
<1>. DEFINE g == [i \in 0 .. k |-> IF i < k THEN f[i]
        ELSE IF s[k] \in S THEN Append(f[k-1], s[k]) ELSE f[k-1]]
<1>6. \A i \in 0 .. k-1 : g[i] = f[i] BY <1>4
<1>7. \A i \in 0 .. k : g[i] = IF i = 0 THEN << >>
        ELSE IF s[i] \in S THEN Append(g[i-1], s[i]) ELSE g[i-1]
  <2>. TAKE i \in 0 .. k
  <2>1. CASE i = k BY <2>1, <1>3, <1>4, <1>6
  <2>2. CASE i # k
    <3>1. i \in 0 .. k - 1 BY <2>2, <1>4
    <3>2. f[i] = IF i = 0 THEN << >>
        ELSE IF s[i] \in S THEN Append(f[i-1], s[i]) ELSE f[i-1]
        BY <1>5, <3>1 DEF IsOnly
    <3>3. i # 0 => i-1 \in 0..k-1 BY <3>1, <1>4
    <3>. QED BY <3>1, <3>2, <3>3, <1>6
  <2>. QED BY <2>1, <2>2
<1>8. IsOnly(g, s, S, k)
  <2>. HIDE DEF g
  <2>1. g = [i \in 0..k |-> g[i]] BY DEF g
  <2>. QED BY <2>1, <1>7 DEF IsOnly
<1>. QED BY <1>8

(* The members of a list with one more element.                               *)
LEMMA AppendMembers ==
  ASSUME NEW E, NEW s \in Seq(E), NEW e \in E
  PROVE  Members(Append(s, e)) = Members(s) \cup {e}
<1>1. Len(s) \in Nat /\ DOMAIN s = 1 .. Len(s) OBVIOUS
<1>2. DOMAIN Append(s, e) = 1 .. Len(s) + 1 BY AppendProperties
<1>3. \A i \in 1 .. Len(s) : Append(s, e)[i] = s[i] BY AppendProperties
<1>4. Append(s, e)[Len(s) + 1] = e BY AppendProperties
<1>. QED BY <1>1, <1>2, <1>3, <1>4 DEF Members

(* Only(s, S) is a list of the same kind, whose members are those of s that   *)
(* are in S: queues that Only cuts down keep their elements and gain none.    *)
THEOREM OnlyProperties ==
  ASSUME NEW E, NEW s \in Seq(E), NEW S
  PROVE  /\ Only(s, S) \in Seq(E)
         /\ Members(Only(s, S)) = Members(s) \cap S
<1>. DEFINE only == CHOOSE f : IsOnly(f, s, S, Len(s))
            Below(n) == {s[i] : i \in 1 .. n}
            Good(n) == only[n] \in Seq(E) /\ Members(only[n]) = Below(n) \cap S
            Bad == {n \in 0 .. Len(s) : ~ Good(n)}
<1>0. Len(s) \in Nat /\ \A i \in 1 .. Len(s) : s[i] \in E OBVIOUS
<1>1. IsOnly(only, s, S, Len(s)) BY <1>0, OnlyExists
<1>2. Only(s, S) = only[Len(s)] BY Zenon DEF Only, IsOnly
<1>. HIDE DEF only
<1>3. \A i \in 0 .. Len(s) : only[i] = IF i = 0 THEN << >>
        ELSE IF s[i] \in S THEN Append(only[i-1], s[i]) ELSE only[i-1]
  BY <1>1 DEF IsOnly
<1>4. Good(0)
  <2>1. only[0] = << >> BY <1>0, <1>3
  <2>. QED BY <2>1 DEF Members
<1>5. ASSUME NEW k \in 1 .. Len(s), Good(k - 1) PROVE Good(k)
  <2>1. s[k] \in E /\ Below(k) = Below(k-1) \cup {s[k]} BY <1>0
  <2>2. CASE s[k] \in S
    <3>1. only[k] = Append(only[k-1], s[k])
      <4>. HIDE DEF Good
      <4>1. k \in 0 .. Len(s) /\ k # 0 BY <1>0
      <4>. QED BY <4>1, <2>2, <1>3
    <3>2. only[k] \in Seq(E) BY <3>1, <1>5, <2>1
    <3>3. Members(only[k]) = Members(only[k-1]) \cup {s[k]}
      BY <3>1, <1>5, <2>1, AppendMembers
    <3>. QED BY <1>5, <2>1, <2>2, <3>2, <3>3
  <2>3. CASE s[k] \notin S
    <3>1. only[k] = only[k-1] BY <1>0, <2>3, <1>3
    <3>. QED BY <3>1, <1>5, <2>1, <2>3
  <2>. QED BY <2>2, <2>3
<1>6. Bad = {}
  <2>1. SUFFICES ASSUME Bad # {} PROVE FALSE BY <2>1
  <2>2. Bad \in SUBSET Nat BY <1>0
  <2>3. PICK k \in Bad : \A m \in Bad : k <= m 
    <3>. HIDE DEF Bad
    <3>. QED BY <2>1, <2>2, LeastNat
  <2>4. k # 0 BY <1>4
  <2>5. k - 1 \in 0 .. Len(s) /\ k \in 1 .. Len(s) BY <1>0, <2>3, <2>4
  <2>6. k - 1 \notin Bad
    <3>. HIDE DEF Bad
    <3>. QED BY <2>2, <2>3, <2>5
  <2>7. Good(k - 1) BY <2>5, <2>6
  <2>. QED BY <1>5, <2>5, <2>7
<1>7. Good(Len(s))
  <2>. HIDE DEF Good
  <2>. QED BY <1>0, <1>6
<1>8. Below(Len(s)) = Members(s) BY <1>0 DEF Members
<1>. QED BY <1>2, <1>7, <1>8

(* The members of two lists together.                                         *)
LEMMA ConcatMembers ==
  ASSUME NEW E, NEW s \in Seq(E), NEW t \in Seq(E)
  PROVE  s \o t \in Seq(E) /\ Members(s \o t) = Members(s) \cup Members(t)
<1>1. s \o t \in Seq(E) /\ Len(s \o t) = Len(s) + Len(t)
  BY ConcatProperties
<1>2. \A i \in 1 .. Len(s) : (s \o t)[i] = s[i] BY ConcatProperties
<1>3. \A i \in 1 .. Len(t) : (s \o t)[Len(s) + i] = t[i]
  BY ConcatProperties
<1>4. Len(s) \in Nat /\ Len(t) \in Nat OBVIOUS
<1>. DEFINE st == s \o t
<1>5. Members(st) \subseteq Members(s) \cup Members(t)
  <2>. SUFFICES ASSUME NEW k \in 1 .. Len(st) PROVE st[k] \in Members(s) \cup Members(t)
    BY <1>1 DEF Members
  <2>1. CASE k <= Len(s) BY <2>1, <1>1, <1>2, <1>4 DEF Members
  <2>2. CASE k > Len(s)
    <3>1. k - Len(s) \in 1 .. Len(t) /\ k = Len(s) + (k - Len(s)) BY <2>2, <1>1, <1>4
    <3>2. st[k] = t[k - Len(s)] BY <3>1, <1>3
    <3>. QED BY <3>1, <3>2 DEF Members
  <2>. QED BY <2>1, <2>2, <1>4
<1>6. Members(s) \cup Members(t) \subseteq Members(st)
  <2>1. \A i \in 1 .. Len(s) : i \in 1 .. Len(st) BY <1>1, <1>4
  <2>2. \A i \in 1 .. Len(t) : Len(s) + i \in 1 .. Len(st) BY <1>1, <1>4
  <2>3. DOMAIN st = 1 .. Len(st) BY <1>1
  <2>. HIDE DEF st
  <2>4. \A i \in 1 .. Len(s) : st[i] = s[i] BY <1>2 DEF st
  <2>5. \A i \in 1 .. Len(t) : st[Len(s) + i] = t[i] BY <1>3 DEF st
  <2>6. \A x \in Members(s) : x \in Members(st) BY <2>1, <2>3, <2>4 DEF Members
  <2>7. ASSUME NEW i \in 1 .. Len(t) PROVE t[i] \in Members(st)
    BY <2>2, <2>3, <2>5, Zenon DEF Members
  <2>8. \A x \in Members(t) : x \in Members(st) BY <2>7 DEF Members
  <2>. QED BY <2>6, <2>8
<1>. QED BY <1>1, <1>5, <1>6

(* Replacing one element adds no other member.                                *)
LEMMA ExceptMembers ==
  ASSUME NEW E, NEW s \in Seq(E), NEW i \in DOMAIN s, NEW e \in E
  PROVE  /\ [s EXCEPT ![i] = e] \in Seq(E)
         /\ Members([s EXCEPT ![i] = e]) \subseteq Members(s) \cup {e}
         /\ DOMAIN [s EXCEPT ![i] = e] = DOMAIN s
BY ExceptSeq DEF Members

(* Removing one place leaves the elements of the others.                      *)
LEMMA RemoveAtMembers ==
  ASSUME NEW E, NEW s \in Seq(E), NEW i \in DOMAIN s
  PROVE  /\ RemoveAt(s, i) \in Seq(E)
         /\ Members(RemoveAt(s, i)) = {s[j] : j \in DOMAIN s \ {i}}
<1>1. i \in Nat /\ i > 0 /\ i <= Len(s) /\ Len(s) \in Nat OBVIOUS
<1>. DEFINE before == SubSeq(s, 1, i - 1)
            after == SubSeq(s, i + 1, Len(s))
<1>2. before \in Seq(E) /\ Members(before) = {s[j] : j \in 1 .. i - 1}
  BY <1>1, SubSeqProperties DEF Members
<1>3. after \in Seq(E) /\ Members(after) = {s[j] : j \in i + 1 .. Len(s)}
  <2>1. after \in Seq(E) /\ Len(after) = Len(s) - i BY <1>1, SubSeqProperties
  <2>2. \A j \in 1 .. Len(s) - i : after[j] = s[i + j] BY <1>1, SubSeqProperties
  <2>3. \A j \in i + 1 .. Len(s) : j - i \in 1 .. Len(s) - i /\ j = i + (j - i) BY <1>1
  <2>4. \A j \in 1 .. Len(s) - i : i + j \in i + 1 .. Len(s) BY <1>1
  <2>. HIDE DEF after
  <2>. QED BY <2>1, <2>2, <2>3, <2>4 DEF Members
<1>4. DOMAIN s \ {i} = (1 .. i - 1) \cup (i + 1 .. Len(s)) BY <1>1
<1>. HIDE DEF before, after
<1>5. before \o after \in Seq(E) /\ Members(before \o after) = Members(before) \cup Members(after)
  BY <1>2, <1>3, ConcatMembers
<1>6. RemoveAt(s, i) = before \o after BY DEF RemoveAt, before, after
<1>. QED BY <1>2, <1>3, <1>4, <1>5, <1>6

(* Inserting an element behind the first adds just that one.                  *)
LEMMA InsertSecondMembers ==
  ASSUME NEW E, NEW s \in Seq(E), NEW e \in E
  PROVE  /\ InsertSecond(s, e) \in Seq(E)
         /\ Members(InsertSecond(s, e)) = Members(s) \cup {e}
<1>1. CASE s = << >> BY <1>1 DEF InsertSecond, Members
<1>2. CASE s # << >>
  <2>1. Head(s) \in E /\ Tail(s) \in Seq(E) BY <1>2, HeadTailProperties
  <2>2. <<Head(s), e>> \in Seq(E) /\ Members(<<Head(s), e>>) = {Head(s), e}
    BY <2>1 DEF Members
  <2>3. Members(s) = {Head(s)} \cup Members(Tail(s))
    <3>. DEFINE rest == Tail(s)
    <3>1. Len(s) \in Nat \ {0} /\ DOMAIN rest = 1 .. Len(s) - 1 BY <1>2
    <3>2. Head(s) = s[1] /\ \A j \in 1 .. Len(s) - 1 : rest[j] = s[j + 1] BY <1>2
    <3>3. \A j \in 2 .. Len(s) : j - 1 \in 1 .. Len(s) - 1 /\ j = (j - 1) + 1 BY <3>1
    <3>4. \A j \in 1 .. Len(s) - 1 : j + 1 \in 1 .. Len(s) BY <3>1
    <3>5. DOMAIN s = 1 .. Len(s) /\ 1 .. Len(s) = {1} \cup 2 .. Len(s) BY <3>1
    <3>. HIDE DEF rest
    <3>6. Members(rest) = {s[j] : j \in 2 .. Len(s)}
      <4>1. \A j \in 1 .. Len(s) - 1 : j + 1 \in 2 .. Len(s) BY <3>1
      <4>2. \A j \in 2 .. Len(s) : rest[j - 1] = s[j] BY <3>2, <3>3
      <4>3. ASSUME NEW j \in 2 .. Len(s) PROVE s[j] \in Members(rest)
        BY <3>1, <3>3, <4>2, Zenon DEF Members
      <4>4. ASSUME NEW j \in 1 .. Len(s) - 1 PROVE rest[j] \in {s[k] : k \in 2 .. Len(s)}
        BY <3>2, <4>1
      <4>. QED BY <3>1, <4>3, <4>4 DEF Members
    <3>7. Members(s) = {s[1]} \cup {s[j] : j \in 2 .. Len(s)} BY <3>5 DEF Members
    <3>. QED BY <3>2, <3>6, <3>7 DEF rest
  <2>. DEFINE two == <<Head(s), e>>
              rest == Tail(s)
  <2>4. two \in Seq(E) /\ Members(two) = {Head(s), e} /\ rest \in Seq(E) BY <2>1, <2>2
  <2>5. InsertSecond(s, e) = two \o rest BY <1>2 DEF InsertSecond
  <2>6. Members(s) = {Head(s)} \cup Members(rest) BY <2>3
  <2>. HIDE DEF two, rest
  <2>7. two \o rest \in Seq(E) /\ Members(two \o rest) = Members(two) \cup Members(rest)
    BY <2>4, ConcatMembers
  <2>. QED BY <2>4, <2>5, <2>6, <2>7
<1>. QED BY <1>1, <1>2

-----------------------------------------------------------------------------
(* f tells the places that the elements of r have in s, in their order: r has *)
(* those of the first n elements of s that are in S.                          *)
Places(f, r, s, S, n) ==
  /\ f \in [1 .. Len(r) -> 1 .. n]
  /\ \A j, k \in 1 .. Len(r) : j < k => f[j] < f[k]
  /\ \A k \in 1 .. Len(r) : r[k] = s[f[k]] /\ s[f[k]] \in S
  /\ \A i \in 1 .. n : s[i] \in S => \E k \in 1 .. Len(r) : f[k] = i

(* Only(s, S) has the elements of s that are in S, in their order.            *)
LEMMA OnlyPlaces ==
  ASSUME NEW E, NEW s \in Seq(E), NEW S
  PROVE  \E f : Places(f, Only(s, S), s, S, Len(s))
<1>. DEFINE only == CHOOSE f : IsOnly(f, s, S, Len(s))
            Good(n) == only[n] \in Seq(E) /\ \E f : Places(f, only[n], s, S, n)
            Bad == {n \in 0 .. Len(s) : ~ Good(n)}
<1>0. Len(s) \in Nat /\ \A i \in 1 .. Len(s) : s[i] \in E OBVIOUS
<1>1. IsOnly(only, s, S, Len(s)) BY <1>0, OnlyExists
<1>2. Only(s, S) = only[Len(s)] BY Zenon DEF Only, IsOnly
<1>. HIDE DEF only
<1>3. \A i \in 0 .. Len(s) : only[i] = IF i = 0 THEN << >>
        ELSE IF s[i] \in S THEN Append(only[i-1], s[i]) ELSE only[i-1]
  BY <1>1 DEF IsOnly
<1>4. Good(0)
  <2>1. only[0] = << >> BY <1>0, <1>3
  <2>2. Places([k \in {} |-> 0], << >>, s, S, 0) BY DEF Places
  <2>. QED BY <2>1, <2>2
<1>5. ASSUME NEW k \in 1 .. Len(s), Good(k - 1) PROVE Good(k)
  <2>. DEFINE r == only[k - 1]
  <2>0. s[k] \in E /\ k \in Nat /\ k # 0 /\ k \in 0 .. Len(s) BY <1>0
  <2>1. PICK f : Places(f, r, s, S, k - 1) BY <1>5
  <2>2. r \in Seq(E) /\ Len(r) \in Nat BY <1>5
  <2>. HIDE DEF r
  <2>3. CASE s[k] \in S
    <3>. DEFINE q == Append(r, s[k])
                g == [j \in 1 .. Len(r) + 1 |-> IF j <= Len(r) THEN f[j] ELSE k]
    <3>1. only[k] = q BY <2>0, <2>3, <1>3 DEF r
    <3>2. /\ q \in Seq(E) /\ Len(q) = Len(r) + 1 /\ q[Len(r) + 1] = s[k]
          /\ \A j \in 1 .. Len(r) : q[j] = r[j]
      BY <2>0, <2>2, AppendProperties
    <3>3. \A j \in 1 .. Len(r) : f[j] \in 1 .. k - 1 BY <2>1 DEF Places
    <3>4. g \in [1 .. Len(r) + 1 -> 1 .. k] BY <3>3, <2>2, <2>0
    <3>5. g[Len(r) + 1] = k /\ \A j \in 1 .. Len(r) : g[j] = f[j] BY <2>2
    <3>. HIDE DEF g, q
    <3>6. ASSUME NEW i \in 1 .. Len(r) + 1, NEW j \in 1 .. Len(r) + 1, i < j PROVE g[i] < g[j]
      <4>1. i \in 1 .. Len(r) BY <2>2, <3>6
      <4>2. CASE j = Len(r) + 1 BY <4>1, <4>2, <3>3, <3>5, <2>0
      <4>3. CASE j # Len(r) + 1
        <5>1. j \in 1 .. Len(r) BY <2>2, <4>3
        <5>. QED BY <4>1, <5>1, <3>5, <3>6, <2>1 DEF Places
      <4>. QED BY <4>2, <4>3
    <3>7. ASSUME NEW j \in 1 .. Len(r) + 1 PROVE q[j] = s[g[j]] /\ s[g[j]] \in S
      <4>1. CASE j = Len(r) + 1 BY <4>1, <3>2, <3>5, <2>3
      <4>2. CASE j # Len(r) + 1
        <5>1. j \in 1 .. Len(r) BY <2>2, <4>2
        <5>. QED BY <5>1, <3>2, <3>5, <2>1 DEF Places
      <4>. QED BY <4>1, <4>2
    <3>8. ASSUME NEW i \in 1 .. k, s[i] \in S PROVE \E j \in 1 .. Len(r) + 1 : g[j] = i
      <4>1. CASE i = k
        <5>1. Len(r) + 1 \in 1 .. Len(r) + 1 BY <2>2
        <5>. QED BY <4>1, <5>1, <3>5
      <4>2. CASE i # k
        <5>1. i \in 1 .. k - 1 BY <2>0, <4>2
        <5>2. PICK j \in 1 .. Len(r) : f[j] = i BY <5>1, <3>8, <2>1 DEF Places
        <5>3. j \in 1 .. Len(r) + 1 BY <2>2
        <5>. QED BY <5>2, <5>3, <3>5
      <4>. QED BY <4>1, <4>2
    <3>9. Places(g, q, s, S, k) BY <3>2, <3>4, <3>6, <3>7, <3>8 DEF Places
    <3>. QED BY <3>1, <3>2, <3>9
  <2>4. CASE s[k] \notin S
    <3>1. only[k] = r BY <2>0, <2>4, <1>3 DEF r
    <3>2. 1 .. k - 1 \subseteq 1 .. k /\ \A i \in 1 .. k : i = k \/ i \in 1 .. k - 1 BY <2>0
    <3>3. Places(f, r, s, S, k) BY <2>1, <2>4, <3>2 DEF Places
    <3>. QED BY <2>2, <3>1, <3>3
  <2>. QED BY <2>3, <2>4
<1>6. Bad = {}
  <2>1. SUFFICES ASSUME Bad # {} PROVE FALSE BY <2>1
  <2>2. Bad \in SUBSET Nat BY <1>0
  <2>3. PICK k \in Bad : \A m \in Bad : k <= m
    <3>. HIDE DEF Bad
    <3>. QED BY <2>1, <2>2, LeastNat
  <2>4. k # 0 BY <1>4
  <2>5. k - 1 \in 0 .. Len(s) /\ k \in 1 .. Len(s) BY <1>0, <2>3, <2>4
  <2>6. k - 1 \notin Bad
    <3>. HIDE DEF Bad
    <3>. QED BY <2>2, <2>3, <2>5
  <2>7. Good(k - 1) BY <2>5, <2>6
  <2>. QED BY <1>5, <2>5, <2>7
<1>7. Good(Len(s))
  <2>. HIDE DEF Good
  <2>. QED BY <1>0, <1>6
<1>. QED BY <1>2, <1>7

(* Its first element is the first of s that is in S.                          *)
LEMMA OnlyFirst ==
  ASSUME NEW E, NEW s \in Seq(E), NEW S, Only(s, S) # << >>
  PROVE  \E i \in 1 .. Len(s) : /\ Head(Only(s, S)) = s[i] /\ s[i] \in S
                                /\ \A j \in 1 .. i - 1 : s[j] \notin S
<1>. DEFINE r == Only(s, S)
<1>1. PICK f : Places(f, r, s, S, Len(s)) BY OnlyPlaces
<1>2. r \in Seq(E) BY OnlyProperties
<1>. HIDE DEF r
<1>3. Head(r) = r[1] /\ 1 \in 1 .. Len(r) /\ Len(r) \in Nat BY <1>2 DEF r
<1>4. f[1] \in 1 .. Len(s) /\ r[1] = s[f[1]] /\ s[f[1]] \in S BY <1>1, <1>3 DEF Places
<1>5. ASSUME NEW j \in 1 .. f[1] - 1, s[j] \in S PROVE FALSE
  <2>1. j \in 1 .. Len(s) BY <1>4
  <2>2. PICK k \in 1 .. Len(r) : f[k] = j BY <1>1, <1>5, <2>1 DEF Places
  <2>3. 1 < k => f[1] < f[k] BY <1>1, <1>3 DEF Places
  <2>. QED BY <1>3, <1>4, <2>2, <2>3
<1>. QED BY <1>3, <1>4, <1>5 DEF r

(* What tells the elements of s apart tells those of Only(s, S) apart.        *)
LEMMA OnlySingle ==
  ASSUME NEW E, NEW s \in Seq(E), NEW S, NEW F,
         \A i, j \in 1 .. Len(s) : F[s[i]] = F[s[j]] => i = j
  PROVE  \A i, j \in 1 .. Len(Only(s, S)) : F[Only(s, S)[i]] = F[Only(s, S)[j]] => i = j
<1>. DEFINE r == Only(s, S)
<1>1. PICK f : Places(f, r, s, S, Len(s)) BY OnlyPlaces
<1>2. r \in Seq(E) BY OnlyProperties
<1>. HIDE DEF r
<1>3. SUFFICES ASSUME NEW i \in 1 .. Len(r), NEW j \in 1 .. Len(r), F[r[i]] = F[r[j]] PROVE i = j
  BY DEF r
<1>4. /\ f[i] \in 1 .. Len(s) /\ r[i] = s[f[i]]
      /\ f[j] \in 1 .. Len(s) /\ r[j] = s[f[j]]
  BY <1>1 DEF Places
<1>5. f[i] = f[j] BY <1>3, <1>4
<1>6. (i < j => f[i] < f[j]) /\ (j < i => f[j] < f[i]) BY <1>1 DEF Places
<1>. QED BY <1>2, <1>4, <1>5, <1>6

(* The places of the elements of two lists together.                          *)
LEMMA ConcatPlaces ==
  ASSUME NEW E, NEW s \in Seq(E), NEW t \in Seq(E)
  PROVE  /\ s \o t \in Seq(E) /\ Len(s \o t) = Len(s) + Len(t)
         /\ \A i \in 1 .. Len(s) : (s \o t)[i] = s[i]
         /\ \A i \in 1 .. Len(t) : (s \o t)[Len(s) + i] = t[i]
<1>1. s \o t \in Seq(E) /\ Len(s \o t) = Len(s) + Len(t) BY ConcatProperties
<1>2. \A i \in 1 .. Len(s) : (s \o t)[i] = s[i] BY ConcatProperties
<1>3. \A i \in 1 .. Len(t) : (s \o t)[Len(s) + i] = t[i] BY ConcatProperties
<1>. QED BY <1>1, <1>2, <1>3

(* The places of the elements that are left when one is removed.              *)
LEMMA RemoveAtPlaces ==
  ASSUME NEW E, NEW s \in Seq(E), NEW i \in DOMAIN s
  PROVE  /\ Len(RemoveAt(s, i)) = Len(s) - 1
         /\ \A j \in 1 .. Len(s) - 1 : RemoveAt(s, i)[j] = s[IF j < i THEN j ELSE j + 1]
<1>. DEFINE before == SubSeq(s, 1, i - 1)
            after == SubSeq(s, i + 1, Len(s))
<1>1. i \in Nat /\ i > 0 /\ i <= Len(s) /\ Len(s) \in Nat OBVIOUS
<1>2. /\ before \in Seq(E) /\ Len(before) = i - 1
      /\ \A j \in 1 .. i - 1 : before[j] = s[j]
  BY <1>1, SubSeqProperties
<1>3. /\ after \in Seq(E) /\ Len(after) = Len(s) - i
      /\ \A j \in 1 .. Len(s) - i : after[j] = s[i + j]
  BY <1>1, SubSeqProperties
<1>4. RemoveAt(s, i) = before \o after BY DEF RemoveAt
<1>. HIDE DEF before, after
<1>7. /\ Len(before \o after) = Len(before) + Len(after)
      /\ \A n \in 1 .. Len(before) : (before \o after)[n] = before[n]
      /\ \A n \in 1 .. Len(after) : (before \o after)[Len(before) + n] = after[n]
  <2>1. before \in Seq(E) /\ after \in Seq(E) BY <1>2, <1>3
  <2>. QED BY <2>1, ConcatPlaces
<1>5. Len(before \o after) = Len(s) - 1 BY <1>1, <1>2, <1>3, <1>7
<1>6. ASSUME NEW j \in 1 .. Len(s) - 1
      PROVE  (before \o after)[j] = s[IF j < i THEN j ELSE j + 1]
  <2>1. CASE j < i
    <3>1. j \in 1 .. Len(before) BY <1>1, <1>2, <2>1
    <3>2. (before \o after)[j] = before[j] BY <1>7, <3>1
    <3>. QED BY <1>2, <2>1, <3>1, <3>2
  <2>2. CASE ~ (j < i)
    <3>. DEFINE k == j - (i - 1)
    <3>1. k \in 1 .. Len(after) /\ j = Len(before) + k /\ i + k = j + 1
      BY <1>1, <1>2, <1>3, <2>2
    <3>. HIDE DEF k
    <3>2. (before \o after)[Len(before) + k] = after[k] BY <1>7, <3>1
    <3>3. after[k] = s[i + k] BY <1>3, <3>1
    <3>. QED BY <2>2, <3>1, <3>2, <3>3
  <2>. QED BY <2>1, <2>2
<1>. QED BY <1>4, <1>5, <1>6

(* r is s with e at place k.                                                  *)
Inserted(r, s, e, k) ==
  /\ k \in 1 .. Len(s) + 1 /\ Len(r) = Len(s) + 1 /\ r[k] = e
  /\ \A j \in 1 .. Len(s) + 1 : j # k => r[j] = s[IF j < k THEN j ELSE j - 1]

(* The places where lists take in an element.                                 *)
LEMMA InsertedPlaces ==
  ASSUME NEW E, NEW s \in Seq(E), NEW e \in E
  PROVE  /\ Inserted(<<e>> \o s, s, e, 1)
         /\ Inserted(Append(s, e), s, e, Len(s) + 1)
         /\ s # << >> => Inserted(InsertSecond(s, e), s, e, 2)
         /\ s = << >> => Inserted(InsertSecond(s, e), s, e, 1)
<1>0. Len(s) \in Nat OBVIOUS
<1>1. Inserted(<<e>> \o s, s, e, 1)
  <2>. DEFINE q == <<e>>
  <2>1. q \in Seq(E) /\ Len(q) = 1 /\ q[1] = e OBVIOUS
  <2>. HIDE DEF q
  <2>5. /\ Len(q \o s) = Len(q) + Len(s)
        /\ \A n \in 1 .. Len(q) : (q \o s)[n] = q[n]
        /\ \A n \in 1 .. Len(s) : (q \o s)[Len(q) + n] = s[n]
    BY <2>1, ConcatPlaces
  <2>2. Len(q \o s) = Len(s) + 1 /\ (q \o s)[1] = e
    BY <1>0, <2>1, <2>5
  <2>3. ASSUME NEW j \in 1 .. Len(s) + 1, j # 1 PROVE (q \o s)[j] = s[j - 1]
    <3>1. j - 1 \in 1 .. Len(s) /\ j = 1 + (j - 1) BY <1>0, <2>3
    <3>. DEFINE k == j - 1
    <3>2. (q \o s)[Len(q) + k] = s[k]
      <4>1. k \in 1 .. Len(s) BY <3>1
      <4>. HIDE DEF k
      <4>. QED BY <2>5, <4>1
    <3>. QED BY <2>1, <3>1, <3>2
  <2>4. Inserted(q \o s, s, e, 1) BY <1>0, <2>2, <2>3 DEF Inserted
  <2>. QED BY <2>4 DEF q
<1>2. Inserted(Append(s, e), s, e, Len(s) + 1)
  BY <1>0, AppendProperties DEF Inserted
<1>3. CASE s = << >> BY <1>1, <1>2, <1>3 DEF Inserted, InsertSecond
<1>4. CASE s # << >>
  <2>. DEFINE two == <<Head(s), e>>
              rest == Tail(s)
  <2>1. /\ two \in Seq(E) /\ Len(two) = 2 /\ two[1] = s[1] /\ two[2] = e
    <3>1. Head(s) \in E /\ Head(s) = s[1] BY <1>4, HeadTailProperties
    <3>. QED BY <3>1
  <2>2. /\ rest \in Seq(E) /\ Len(rest) = Len(s) - 1
        /\ \A j \in 1 .. Len(s) - 1 : rest[j] = s[j + 1]
    BY <1>4, HeadTailProperties
  <2>3. InsertSecond(s, e) = two \o rest BY <1>4 DEF InsertSecond
  <2>. HIDE DEF two, rest
  <2>4. Len(s) \in Nat \ {0} BY <1>4
  <2>10. /\ Len(two \o rest) = Len(two) + Len(rest)
         /\ \A n \in 1 .. Len(two) : (two \o rest)[n] = two[n]
         /\ \A n \in 1 .. Len(rest) : (two \o rest)[Len(two) + n] = rest[n]
    <3>1. two \in Seq(E) /\ rest \in Seq(E) BY <2>1, <2>2
    <3>. QED BY <3>1, ConcatPlaces
  <2>5. Len(two \o rest) = Len(s) + 1 BY <2>1, <2>2, <2>4, <2>10
  <2>6. (two \o rest)[1] = s[1] /\ (two \o rest)[2] = e
    <3>1. 1 \in 1 .. Len(two) /\ 2 \in 1 .. Len(two) BY <2>1
    <3>. QED BY <2>1, <2>10, <3>1
  <2>7. ASSUME NEW j \in 3 .. Len(s) + 1 PROVE (two \o rest)[j] = s[j - 1]
    <3>. DEFINE k == j - 2
    <3>1. k \in 1 .. Len(rest) /\ j = Len(two) + k /\ k + 1 = j - 1 /\ k \in 1 .. Len(s) - 1
      BY <2>1, <2>2, <2>4
    <3>. HIDE DEF k
    <3>2. (two \o rest)[Len(two) + k] = rest[k] BY <2>10, <3>1
    <3>. QED BY <2>2, <3>1, <3>2
  <2>8. ASSUME NEW j \in 1 .. Len(s) + 1, j # 2
        PROVE  (two \o rest)[j] = s[IF j < 2 THEN j ELSE j - 1]
    <3>1. CASE j = 1
      <4>1. 1 < 2 OBVIOUS
      <4>. QED BY <2>6, <3>1, <4>1
    <3>2. CASE j # 1
      <4>1. j \in 3 .. Len(s) + 1 BY <2>4, <2>8, <3>2
      <4>2. ~ (j < 2) BY <4>1
      <4>. QED BY <2>7, <4>1, <4>2
    <3>. QED BY <3>1, <3>2
  <2>9. Inserted(two \o rest, s, e, 2) BY <2>4, <2>5, <2>6, <2>8 DEF Inserted
  <2>. QED BY <1>1, <1>2, <1>4, <2>3, <2>9
<1>. QED BY <1>1, <1>2, <1>3, <1>4
=============================================================================
