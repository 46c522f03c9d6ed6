-------------------------- MODULE ChainReport_proofs --------------------------
(****************************************************************************)
(* What holds of ChainReport for chains of any length and any certificates. *)
(* The argument is about lists: every list of issues that parseChain makes  *)
(* lists a set, each element once, and appending lists of disjoint sets     *)
(* lists their union. That FlattenSeq does is shown by the least length for *)
(* which it would not.                                                      *)
(****************************************************************************)
EXTENDS ChainReport, SequenceTheorems, WellFoundedInduction, TLAPS

\* The sequence s lists the elements of A, each of them once
Lists(s, A) ==
    /\ s \in Seq(A)
    /\ \A x \in A : \E k \in 1..Len(s) : s[k] = x
    /\ \A j, k \in 1..Len(s) : s[j] = s[k] => j = k

\* The elements of A if the condition holds
If(condition, A) == IF condition THEN A ELSE {}

------------------------------------------------------------------------------
(* Lists *)

LEMMA Least ==
  ASSUME NEW T, T \subseteq Nat, T # {}
  PROVE  \E x \in T : \A y \in T : x <= y
  <1>1. PICK x \in T : \A y \in T : ~(<<y, x>> \in OpToRel(<, Nat))
    BY WFMin, NatLessThanWellFounded, Zenon
  <1>2. \A y \in T : ~(y < x) BY <1>1 DEF OpToRel
  <1> QED BY <1>2

LEMMA EmptyLists == Lists(<<>>, {})
  BY EmptySeq DEF Lists

\* One issue, or none
LEMMA WhenLists ==
  ASSUME NEW condition, NEW x
  PROVE  Lists(When(condition, x), If(condition, {x}))
  <1>1. CASE condition
    <2>1. When(condition, x) = <<x>> /\ If(condition, {x}) = {x} BY <1>1 DEF When, If
    <2>2. <<x>> \in Seq({x}) /\ Len(<<x>>) = 1 /\ <<x>>[1] = x OBVIOUS
    <2> QED BY <2>1, <2>2 DEF Lists
  <1>2. CASE ~condition BY <1>2, EmptyLists DEF When, If
  <1> QED BY <1>1, <1>2

LEMMA AppendedLists ==
  ASSUME NEW s, NEW t, NEW A, NEW B, Lists(s, A), Lists(t, B), A \cap B = {}
  PROVE  Lists(s \o t, A \cup B)
  <1> DEFINE C == A \cup B
             st == s \o t
  <1>1. s \in Seq(A) /\ t \in Seq(B) BY DEF Lists
  <1>2. s \in Seq(C) /\ t \in Seq(C) BY <1>1, SeqMonotonic
  <1>3. Len(s) \in Nat /\ Len(t) \in Nat BY <1>1, LenProperties
  <1>4. /\ st \in Seq(C)
        /\ Len(st) = Len(s) + Len(t)
        /\ \A k \in 1..Len(s) : st[k] = s[k]
        /\ \A k \in 1..Len(t) : st[Len(s) + k] = t[k]
    BY <1>2, <1>3, ConcatProperties
  <1>5. /\ \A k \in 1..Len(s) : s[k] \in A
        /\ \A k \in 1..Len(t) : t[k] \in B
    BY <1>1, ElementOfSeq
  <1>6. \A k \in 1..Len(st) : k \notin 1..Len(s) => k - Len(s) \in 1..Len(t) /\ st[k] = t[k - Len(s)]
    BY <1>3, <1>4
  <1>7. ASSUME NEW x \in C PROVE \E k \in 1..Len(st) : st[k] = x
    <2>1. CASE x \in A BY <1>3, <1>4, <2>1 DEF Lists
    <2>2. CASE x \in B
      <3>1. PICK k \in 1..Len(t) : t[k] = x BY <2>2 DEF Lists
      <3>2. Len(s) + k \in 1..Len(st) BY <1>3, <1>4
      <3> QED BY <1>4, <3>1, <3>2
    <2> QED BY <2>1, <2>2
  <1>8. ASSUME NEW j \in 1..Len(st), NEW k \in 1..Len(st), st[j] = st[k] PROVE j = k
    <2>1. CASE j \in 1..Len(s) /\ k \in 1..Len(s) BY <1>4, <1>8, <2>1 DEF Lists
    <2>2. CASE j \notin 1..Len(s) /\ k \notin 1..Len(s)
      <3>1. /\ j - Len(s) \in 1..Len(t) /\ k - Len(s) \in 1..Len(t)
            /\ t[j - Len(s)] = t[k - Len(s)]
        <4> HIDE DEF st
        <4> QED BY <1>6, <1>8, <2>2
      <3>2. j - Len(s) = k - Len(s)
        <4> HIDE DEF st
        <4> QED BY <3>1, Zenon DEF Lists
      <3> QED BY <1>3, <1>4, <3>2
    <2>3. CASE j \in 1..Len(s) /\ k \notin 1..Len(s) BY <1>4, <1>5, <1>6, <1>8, <2>3
    <2>4. CASE j \notin 1..Len(s) /\ k \in 1..Len(s) BY <1>4, <1>5, <1>6, <1>8, <2>4
    <2> QED BY <2>1, <2>2, <2>3, <2>4
  <1> HIDE DEF st, C
  <1>9. Lists(st, C) BY <1>4, <1>7, <1>8 DEF Lists
  <1> QED BY <1>9 DEF st, C

------------------------------------------------------------------------------
(* FlattenSeq *)

\* f appends the first m elements of s, one after the other
Builds(f, s, m) ==
    f = [i \in 1..m |-> IF i = 1 THEN s[i] ELSE f[i - 1] \o s[i]]

LEMMA Buildable ==
  ASSUME NEW s, NEW n \in Nat
  PROVE  \E f : Builds(f, s, n)
  <1> DEFINE bad == {m \in Nat : \A f : ~Builds(f, s, m)}
  <1> SUFFICES ASSUME bad # {} PROVE FALSE OBVIOUS
  <1>1. PICK m \in bad : \A y \in bad : m <= y BY Least
  <1>2. m # 0
    <2>1. Builds([i \in 1..0 |-> 0], s, 0) BY DEF Builds
    <2> QED BY <1>1, <2>1
  <1>3. m \in Nat /\ m - 1 \in Nat BY <1>1, <1>2
  <1>4. m - 1 \notin bad BY <1>1, <1>3
  <1>5. PICK f : Builds(f, s, m - 1) BY <1>3, <1>4
  <1> DEFINE last == IF m = 1 THEN s[m] ELSE f[m - 1] \o s[m]
             g == [i \in 1..m |-> IF i = m THEN last ELSE f[i]]
  <1>6. ASSUME NEW i \in 1..m PROVE g[i] = IF i = 1 THEN s[i] ELSE g[i - 1] \o s[i]
    <2>1. CASE i = m
      <3>1. g[i] = last BY <2>1
      <3>2. i # 1 => g[i - 1] = f[i - 1] BY <1>3, <2>1
      <3> QED BY <2>1, <3>1, <3>2
    <2>2. CASE i # m
      <3>1. i \in 1..(m - 1) BY <1>3, <2>2
      <3>2. f[i] = IF i = 1 THEN s[i] ELSE f[i - 1] \o s[i] BY <1>5, <3>1 DEF Builds
      <3>3. g[i] = f[i] /\ (i # 1 => g[i - 1] = f[i - 1]) BY <1>3, <2>2
      <3> QED BY <3>2, <3>3
    <2> QED BY <2>1, <2>2
  <1>7. Builds(g, s, m)
    <2>1. g = [i \in 1..m |-> g[i]] OBVIOUS
    <2> HIDE DEF g
    <2> QED BY <1>6, <2>1 DEF Builds
  <1> QED BY <1>1, <1>7

LEMMA FlattenBuilds ==
  ASSUME NEW T, NEW n \in Nat \ {0}, NEW s \in [1..n -> T]
  PROVE  \E f : Builds(f, s, n) /\ FlattenSeq(s) = f[n]
  <1>1. s \in Seq(T) /\ Len(s) = n BY SeqDef, LenProperties
  <1> DEFINE flatten == CHOOSE f : Builds(f, s, Len(s))
  <1>2. Builds(flatten, s, n) BY <1>1, Buildable
  <1>3. FlattenSeq(s) = flatten[n] BY <1>1 DEF FlattenSeq, Builds
  <1> QED BY <1>2, <1>3

\* The elements of the first m of the sets A
FirstOf(A, m) == UNION {A[i] : i \in 1..m}

LEMMA FlattenLists ==
  ASSUME NEW T, NEW n \in Nat, NEW s \in [1..n -> T], NEW A,
         \A i \in 1..n : Lists(s[i], A[i]),
         \A i, j \in 1..n : i # j => A[i] \cap A[j] = {}
  PROVE  Lists(FlattenSeq(s), FirstOf(A, n))
  <1>1. CASE n = 0
    <2>1. s = <<>> /\ Len(s) = 0 BY <1>1
    <2>2. FlattenSeq(s) = <<>> BY <2>1 DEF FlattenSeq
    <2>3. FirstOf(A, n) = {} BY <1>1 DEF FirstOf
    <2> QED BY <2>2, <2>3, EmptyLists
  <1>2. CASE n # 0
    <2>1. PICK f : Builds(f, s, n) /\ FlattenSeq(s) = f[n] BY <1>2, FlattenBuilds
    <2> DEFINE bad == {m \in 1..n : ~Lists(f[m], FirstOf(A, m))}
    <2> SUFFICES ASSUME bad # {} PROVE FALSE BY <1>2, <2>1
    <2>2. PICK m \in bad : \A y \in bad : m <= y
      <3>1. bad \subseteq Nat OBVIOUS
      <3> HIDE DEF bad
      <3> QED BY <3>1, Least
    <2>3. m \in 1..n /\ m \in Nat /\ ~Lists(f[m], FirstOf(A, m)) BY <2>2
    <2>4. f[m] = IF m = 1 THEN s[m] ELSE f[m - 1] \o s[m] BY <2>1, <2>3 DEF Builds
    <2>5. CASE m = 1
      <3>1. FirstOf(A, 1) = A[1] BY DEF FirstOf
      <3> QED BY <2>3, <2>4, <2>5, <3>1
    <2>6. CASE m # 1
      <3>1. m - 1 \in 1..n /\ m - 1 \notin bad BY <2>2, <2>3, <2>6
      <3>2. Lists(f[m - 1], FirstOf(A, m - 1)) BY <3>1
      <3>3. FirstOf(A, m) = FirstOf(A, m - 1) \cup A[m]
        <4>1. \A i : i \in 1..m <=> i \in 1..(m - 1) \/ i = m BY <2>3, <2>6
        <4> QED BY <4>1 DEF FirstOf
      <3>4. FirstOf(A, m - 1) \cap A[m] = {}
        <4>1. \A i \in 1..(m - 1) : i \in 1..n /\ i # m BY <2>3
        <4> QED BY <2>3, <4>1 DEF FirstOf
      <3>5. Lists(f[m - 1] \o s[m], FirstOf(A, m)) BY <2>3, <3>2, <3>3, <3>4, AppendedLists
      <3> QED BY <2>3, <2>4, <2>6, <3>5
    <2> QED BY <2>5, <2>6
  <1> QED BY <1>1, <1>2

------------------------------------------------------------------------------
(* What the lists of parseChain list *)

\* The defects of a certificate that are looked for together
CertDefects(chain, i, now) ==
    If(Expired(chain[i], now), {Issue("expired", i)})
    \cup If(NotYetValid(chain[i], now), {Issue("not_yet_valid", i)})
    \cup If(i = 1 /\ chain[i].selfSigned, {Issue("self_signed", i)})

WeakDefects(chain, i) == If(chain[i].weak, {Issue("weak_crypto", i)})

\* The defects of the whole chain
Defects(chain, matches, now) ==
    (UNION {CertDefects(chain, i, now) : i \in DOMAIN chain})
    \cup If(~matches, {Issue("hostname_mismatch", 1)})
    \cup (UNION {WeakDefects(chain, i) : i \in DOMAIN chain})

LEMMA IssueParts ==
  ASSUME NEW type, NEW i
  PROVE  Issue(type, i).type = type /\ Issue(type, i).index = i
  BY DEF Issue

LEMMA CertIssuesListed ==
  ASSUME NEW chain, NEW i, NEW now
  PROVE  Lists(CertIssues(chain, i, now), CertDefects(chain, i, now))
  <1> DEFINE A == If(Expired(chain[i], now), {Issue("expired", i)})
             B == If(NotYetValid(chain[i], now), {Issue("not_yet_valid", i)})
             C == If(i = 1 /\ chain[i].selfSigned, {Issue("self_signed", i)})
             a == When(Expired(chain[i], now), Issue("expired", i))
             b == When(NotYetValid(chain[i], now), Issue("not_yet_valid", i))
             c == When(i = 1 /\ chain[i].selfSigned, Issue("self_signed", i))
  <1>1. Lists(a, A) /\ Lists(b, B) /\ Lists(c, C) BY WhenLists
  <1>2. /\ \A x \in A : x.type = "expired"
        /\ \A x \in B : x.type = "not_yet_valid"
        /\ \A x \in C : x.type = "self_signed"
    BY IssueParts DEF If
  <1>3. CertIssues(chain, i, now) = (a \o b) \o c BY DEF CertIssues
  <1>4. CertDefects(chain, i, now) = (A \cup B) \cup C BY DEF CertDefects
  <1> HIDE DEF A, B, C, a, b, c
  <1>5. A \cap B = {} /\ (A \cup B) \cap C = {} BY <1>2
  <1>6. Lists(a \o b, A \cup B) BY <1>1, <1>5, AppendedLists
  <1>7. Lists((a \o b) \o c, (A \cup B) \cup C) BY <1>1, <1>5, <1>6, AppendedLists
  <1> QED BY <1>3, <1>4, <1>7

LEMMA DefectParts ==
  ASSUME NEW chain, NEW now, NEW i
  PROVE  /\ \A x \in CertDefects(chain, i, now) :
                x.index = i /\ x.type \in {"expired", "not_yet_valid", "self_signed"}
         /\ \A x \in WeakDefects(chain, i) : x.index = i /\ x.type = "weak_crypto"
  BY IssueParts DEF CertDefects, WeakDefects, If

LEMMA ChainIssuesListed ==
  ASSUME NEW n \in Nat, NEW chain \in [1..n -> Certificates], NEW matches, NEW now
  PROVE  Lists(ChainIssues(chain, matches, now), Defects(chain, matches, now))
  <1> DEFINE s == [i \in 1..n |-> CertIssues(chain, i, now)]
             A == [i \in 1..n |-> CertDefects(chain, i, now)]
             w == [i \in 1..n |-> When(chain[i].weak, Issue("weak_crypto", i))]
             W == [i \in 1..n |-> WeakDefects(chain, i)]
             h == When(~matches, Issue("hostname_mismatch", 1))
             H == If(~matches, {Issue("hostname_mismatch", 1)})
             T == {s[i] : i \in 1..n}
             U == {w[i] : i \in 1..n}
  <1>1. \A i \in 1..n : Lists(s[i], A[i]) BY CertIssuesListed
  <1>2. \A i \in 1..n : Lists(w[i], W[i]) BY WhenLists DEF WeakDefects
  <1>3. Lists(h, H) BY WhenLists
  <1>4. /\ \A i \in 1..n : \A x \in A[i] :
             x.index = i /\ x.type \in {"expired", "not_yet_valid", "self_signed"}
        /\ \A i \in 1..n : \A x \in W[i] : x.index = i /\ x.type = "weak_crypto"
        /\ \A x \in H : x.type = "hostname_mismatch"
    <2>1. \A i \in 1..n : A[i] = CertDefects(chain, i, now) /\ W[i] = WeakDefects(chain, i)
      OBVIOUS
    <2>2. \A x \in H : x = Issue("hostname_mismatch", 1) BY DEF If
    <2> HIDE DEF A, W, H
    <2> QED BY <2>1, <2>2, DefectParts, IssueParts
  <1>5. s \in [1..n -> T] /\ w \in [1..n -> U] OBVIOUS
  <1>6. ChainIssues(chain, matches, now) = (FlattenSeq(s) \o h) \o FlattenSeq(w)
    <2>1. DOMAIN chain = 1..n OBVIOUS
    <2> QED BY <2>1 DEF ChainIssues
  <1>7. Defects(chain, matches, now) = (FirstOf(A, n) \cup H) \cup FirstOf(W, n)
    <2>1. DOMAIN chain = 1..n OBVIOUS
    <2>2. FirstOf(A, n) = UNION {CertDefects(chain, i, now) : i \in 1..n} BY DEF FirstOf
    <2>3. FirstOf(W, n) = UNION {WeakDefects(chain, i) : i \in 1..n} BY DEF FirstOf
    <2> QED BY <2>1, <2>2, <2>3 DEF Defects
  <1> HIDE DEF s, A, w, W, h, H, T, U
  <1>8. Lists(FlattenSeq(s), FirstOf(A, n))
    <2>1. \A i, j \in 1..n : i # j => A[i] \cap A[j] = {} BY <1>4
    <2> QED BY <1>1, <1>5, <2>1, FlattenLists
  <1>9. Lists(FlattenSeq(w), FirstOf(W, n))
    <2>1. \A i, j \in 1..n : i # j => W[i] \cap W[j] = {} BY <1>4
    <2> QED BY <1>2, <1>5, <2>1, FlattenLists
  <1>10. /\ \A x \in FirstOf(A, n) : x.type \in {"expired", "not_yet_valid", "self_signed"}
         /\ \A x \in FirstOf(W, n) : x.type = "weak_crypto"
    BY <1>4 DEF FirstOf
  <1>11. FirstOf(A, n) \cap H = {} /\ (FirstOf(A, n) \cup H) \cap FirstOf(W, n) = {}
    BY <1>4, <1>10
  <1>12. Lists(FlattenSeq(s) \o h, FirstOf(A, n) \cup H) BY <1>3, <1>8, <1>11, AppendedLists
  <1>13. Lists((FlattenSeq(s) \o h) \o FlattenSeq(w), (FirstOf(A, n) \cup H) \cup FirstOf(W, n))
    BY <1>9, <1>11, <1>12, AppendedLists
  <1> QED BY <1>6, <1>7, <1>13

------------------------------------------------------------------------------
(* The invariant *)

LEMMA Quotient ==
  ASSUME NEW x \in Nat, NEW d \in Nat \ {0}
  PROVE  x \div d \in 0..x
  OBVIOUS

\* What is reported of a scan is what was computed of it
Reported ==
    /\ scanned = <<>> => issues = <<>>
    /\ scanned # <<>> =>
         /\ scanned.target \in Targets /\ scanned.at \in 0..clock
         /\ chainValid = ChainValid(scanned.target.chain, scanned.at)
         /\ issues = ChainIssues(scanned.target.chain, scanned.target.matches, scanned.at)

IInv ==
    /\ clock \in 0..MaxTime
    /\ served \in Targets
    /\ days \in -MaxTime..MaxTime
    /\ valid \in BOOLEAN /\ chainValid \in BOOLEAN
    /\ Reported

USE CertificatesAssumption, BoundsAssumption

LEMMA ChainOf ==
  ASSUME NEW target \in Targets
  PROVE  \E n \in Nat \ {0} : target.chain \in [1..n -> Certificates]
  <1>1. target.chain \in Chains BY DEF Targets
  <1> QED BY <1>1 DEF Chains

LEMMA DaysBounded ==
  ASSUME NEW c \in Certificates, NEW now \in 0..MaxTime
  PROVE  DaysLeft(c, now) \in -MaxTime..MaxTime
  <1> DEFINE left == c.until - now
  <1>1. c.until \in 0..MaxTime OBVIOUS
  <1>2. left \in Int /\ left <= MaxTime /\ -left <= MaxTime BY <1>1
  <1>3. DaysLeft(c, now) = IF left >= 0 THEN left \div DayLength ELSE -((-left) \div DayLength)
    BY DEF DaysLeft
  <1> HIDE DEF left
  <1>4. CASE left >= 0
    <2>1. left \div DayLength \in 0..left BY <1>2, <1>4, Quotient
    <2> QED BY <1>2, <1>3, <1>4, <2>1
  <1>5. CASE left < 0
    <2>1. (-left) \in Nat BY <1>2, <1>5
    <2>2. (-left) \div DayLength \in 0..(-left) BY <2>1, Quotient
    <2>3. DaysLeft(c, now) = -((-left) \div DayLength) BY <1>2, <1>3, <1>5
    <2> QED BY <1>2, <2>2, <2>3
  <1> QED BY <1>2, <1>4, <1>5

LEMMA InitIInv == Init => IInv
  <1> SUFFICES ASSUME Init PROVE IInv OBVIOUS
  <1>1. Reported BY DEF Init, Reported
  <1>2. clock \in 0..MaxTime /\ days \in -MaxTime..MaxTime BY DEF Init
  <1> QED BY <1>1, <1>2 DEF Init, IInv

LEMMA ScanStep == IInv /\ Scan => IInv'
  <1> SUFFICES ASSUME IInv, Scan PROVE IInv' OBVIOUS
  <1>1. clock \in 0..MaxTime /\ served \in Targets BY DEF IInv
  <1>2. UNCHANGED <<clock, served>> BY DEF Scan
  <1>3. days' \in -MaxTime..MaxTime
    <2>1. PICK n \in Nat \ {0} : served.chain \in [1..n -> Certificates] BY <1>1, ChainOf
    <2>2. served.chain[1] \in Certificates BY <2>1
    <2> QED BY <1>1, <2>2, DaysBounded DEF Scan
  <1>4. valid' \in BOOLEAN /\ chainValid' \in BOOLEAN BY DEF Scan, ChainValid
  <1>5. Reported'
    <2>1. scanned' = [target |-> served, at |-> clock] BY DEF Scan
    <2>2. scanned'.target = served /\ scanned'.at = clock /\ scanned' # <<>> BY <2>1
    <2>3. /\ chainValid' = ChainValid(served.chain, clock)
          /\ issues' = ChainIssues(served.chain, served.matches, clock)
      BY DEF Scan
    <2>4. scanned'.at \in 0..clock' BY <1>1, <1>2, <2>2
    <2> QED BY <1>1, <2>2, <2>3, <2>4 DEF Reported
  <1> QED BY <1>1, <1>2, <1>3, <1>4, <1>5 DEF IInv

LEMMA NextIInv == IInv /\ [Next]_vars => IInv'
  <1> SUFFICES ASSUME IInv, [Next]_vars PROVE IInv' OBVIOUS
  <1>1. CASE Scan BY <1>1, ScanStep
  <1>2. CASE Serve \/ Tick \/ UNCHANGED vars
    <2>1. UNCHANGED <<scanned, days, valid, chainValid, issues>>
      BY <1>2 DEF Serve, Tick, vars
    <2>2. clock' \in 0..MaxTime /\ clock' >= clock
      BY <1>2 DEF IInv, Serve, Tick, vars
    <2>3. served' \in Targets BY <1>2 DEF IInv, Serve, Tick, vars
    <2>4. Reported'
      <3>1. scanned.at \in 0..clock => scanned.at \in 0..clock' BY <2>2 DEF IInv
      <3> QED BY <2>1, <3>1 DEF IInv, Reported
    <2> QED BY <2>1, <2>2, <2>3, <2>4 DEF IInv
  <1> QED BY <1>1, <1>2 DEF Next

LEMMA AlwaysIInv == Spec => []IInv
  BY InitIInv, NextIInv, PTL DEF Spec

------------------------------------------------------------------------------
(* The theorems *)

\* What is listed of the last scan
LEMMA ReportedDefects ==
  ASSUME IInv, scanned # <<>>
  PROVE  Lists(issues, Defects(ScannedChain, scanned.target.matches, scanned.at))
  <1>1. scanned.target \in Targets BY DEF IInv, Reported
  <1>2. PICK n \in Nat \ {0} : ScannedChain \in [1..n -> Certificates]
    BY <1>1, ChainOf DEF ScannedChain
  <1>3. issues = ChainIssues(ScannedChain, scanned.target.matches, scanned.at)
    BY DEF IInv, Reported, ScannedChain
  <1> QED BY <1>2, <1>3, ChainIssuesListed

\* A list has the elements of its set, and no other
LEMMA ListedElements ==
  ASSUME NEW s, NEW A, Lists(s, A)
  PROVE  /\ DOMAIN s = 1..Len(s)
         /\ \A k \in DOMAIN s : s[k] \in A
         /\ {s[k] : k \in DOMAIN s} = A
         /\ \A j, k \in DOMAIN s : s[j] = s[k] => j = k
  <1>1. s \in Seq(A) BY DEF Lists
  <1>2. DOMAIN s = 1..Len(s) BY <1>1, LenProperties
  <1>3. \A k \in DOMAIN s : s[k] \in A BY <1>1, <1>2, ElementOfSeq
  <1>4. \A x \in A : \E k \in DOMAIN s : s[k] = x BY <1>2 DEF Lists
  <1>5. \A j, k \in DOMAIN s : s[j] = s[k] => j = k BY <1>2 DEF Lists
  <1> QED BY <1>2, <1>3, <1>4, <1>5

\* The members of Defects, type by type
LEMMA DefectsByType ==
  ASSUME NEW chain, NEW matches, NEW now, NEW x, 1 \in DOMAIN chain
  PROVE  x \in Defects(chain, matches, now) <=>
           \/ \E i \in DOMAIN chain : Expired(chain[i], now) /\ x = Issue("expired", i)
           \/ \E i \in DOMAIN chain : NotYetValid(chain[i], now) /\ x = Issue("not_yet_valid", i)
           \/ \E i \in DOMAIN chain : chain[i].weak /\ x = Issue("weak_crypto", i)
           \/ chain[1].selfSigned /\ x = Issue("self_signed", 1)
           \/ ~matches /\ x = Issue("hostname_mismatch", 1)
  <1>1. \A i : x \in CertDefects(chain, i, now) <=>
                 \/ Expired(chain[i], now) /\ x = Issue("expired", i)
                 \/ NotYetValid(chain[i], now) /\ x = Issue("not_yet_valid", i)
                 \/ i = 1 /\ chain[1].selfSigned /\ x = Issue("self_signed", 1)
    BY DEF CertDefects, If
  <1>2. \A i : x \in WeakDefects(chain, i) <=> chain[i].weak /\ x = Issue("weak_crypto", i)
    BY DEF WeakDefects, If
  <1>3. x \in If(~matches, {Issue("hostname_mismatch", 1)}) <=>
          ~matches /\ x = Issue("hostname_mismatch", 1)
    BY DEF If
  <1>4. x \in Defects(chain, matches, now) <=>
          \/ \E i \in DOMAIN chain : x \in CertDefects(chain, i, now)
          \/ x \in If(~matches, {Issue("hostname_mismatch", 1)})
          \/ \E i \in DOMAIN chain : x \in WeakDefects(chain, i)
    BY DEF Defects
  <1> QED BY <1>1, <1>2, <1>3, <1>4

\* Every variable keeps its type, and an issue is one of a certificate of the chain.
THEOREM TypeCorrect == Spec => []TypeOK
  <1> SUFFICES ASSUME IInv PROVE TypeOK BY AlwaysIInv, PTL
  <1>1. ASSUME NEW k \in DOMAIN issues
        PROVE  issues[k].type \in IssueTypes /\ issues[k].index \in DOMAIN scanned.target.chain
    <2>1. scanned # <<>> BY <1>1 DEF IInv, Reported
    <2>2. issues[k] \in Defects(ScannedChain, scanned.target.matches, scanned.at)
      BY <2>1, ReportedDefects, ListedElements
    <2>3. 1 \in DOMAIN ScannedChain
      <3>1. scanned.target \in Targets BY <2>1 DEF IInv, Reported
      <3> QED BY <3>1, ChainOf DEF ScannedChain
    <2> QED BY <2>2, <2>3, DefectsByType, IssueParts DEF ScannedChain, IssueTypes
  <1>2. scanned = <<>> \/ (scanned.target \in Targets /\ scanned.at \in 0..clock)
    BY DEF IInv, Reported
  <1> QED BY <1>1, <1>2 DEF IInv, TypeOK

\* For a chain of any length and at any time: the gauge says whether the scan fell
\* into the windows of all its certificates, and so do the issues.
THEOREM ChainValidIsExact == Spec => []ChainValidExact
  <1> SUFFICES ASSUME IInv, scanned # <<>>
               PROVE  /\ chainValid <=> \A i \in DOMAIN ScannedChain :
                             scanned.at \in ScannedChain[i].from..ScannedChain[i].until
                      /\ chainValid <=> \A n \in DOMAIN issues :
                             issues[n].type \notin {"expired", "not_yet_valid"}
    BY AlwaysIInv, PTL DEF ChainValidExact
  <1>1. /\ scanned.target \in Targets /\ scanned.at \in 0..clock /\ clock \in 0..MaxTime
        /\ chainValid = ChainValid(ScannedChain, scanned.at)
    <2>1. clock \in 0..MaxTime /\ Reported BY DEF IInv
    <2>2. scanned.target \in Targets /\ scanned.at \in 0..clock
      BY <2>1 DEF Reported
    <2>3. chainValid = ChainValid(ScannedChain, scanned.at)
      BY <2>1, Zenon DEF Reported, ScannedChain
    <2> QED BY <2>1, <2>2, <2>3
  <1>2. PICK n \in Nat \ {0} : ScannedChain \in [1..n -> Certificates]
    BY <1>1, ChainOf DEF ScannedChain
  <1>3. scanned.at \in Int BY <1>1
  <1>4. ASSUME NEW i \in DOMAIN ScannedChain
        PROVE  scanned.at \in ScannedChain[i].from..ScannedChain[i].until <=>
                 /\ ~Expired(ScannedChain[i], scanned.at)
                 /\ ~NotYetValid(ScannedChain[i], scanned.at)
    <2>1. ScannedChain[i] \in Certificates BY <1>2
    <2>2. ScannedChain[i].from \in Int /\ ScannedChain[i].until \in Int BY <2>1
    <2> QED BY <1>3, <2>2 DEF Expired, NotYetValid
  <1>5. chainValid <=> \A i \in DOMAIN ScannedChain :
                          /\ ~Expired(ScannedChain[i], scanned.at)
                          /\ ~NotYetValid(ScannedChain[i], scanned.at)
    BY <1>1 DEF ChainValid
  <1> DEFINE A == Defects(ScannedChain, scanned.target.matches, scanned.at)
  <1>6. {issues[k] : k \in DOMAIN issues} = A BY ReportedDefects, ListedElements
  <1>7. 1 \in DOMAIN ScannedChain BY <1>2
  <1>8. (\A x \in A : x.type \notin {"expired", "not_yet_valid"}) <=>
          \A i \in DOMAIN ScannedChain :
             ~Expired(ScannedChain[i], scanned.at) /\ ~NotYetValid(ScannedChain[i], scanned.at)
    BY <1>7, DefectsByType, IssueParts
  <1> HIDE DEF A
  <1>9. (\A k \in DOMAIN issues : issues[k].type \notin {"expired", "not_yet_valid"}) <=>
          \A x \in A : x.type \notin {"expired", "not_yet_valid"}
    BY <1>6
  <1> QED BY <1>4, <1>5, <1>8, <1>9

\* For a chain of any length: every defect of it is reported once, of the
\* certificate that has it, and nothing else is.
THEOREM IssuesAreExact == Spec => []IssuesExact
  <1> SUFFICES ASSUME IInv, scanned # <<>> PROVE IssuesExact
    BY AlwaysIInv, PTL DEF IssuesExact
  <1> DEFINE A == Defects(ScannedChain, scanned.target.matches, scanned.at)
             B == {Issue("expired", i) : i \in {j \in DOMAIN ScannedChain :
                                              scanned.at > ScannedChain[j].until}}
                  \cup {Issue("not_yet_valid", i) : i \in {j \in DOMAIN ScannedChain :
                                              scanned.at < ScannedChain[j].from}}
                  \cup {Issue("weak_crypto", i) : i \in {j \in DOMAIN ScannedChain :
                                              ScannedChain[j].weak}}
                  \cup (IF ScannedChain[1].selfSigned THEN {Issue("self_signed", 1)} ELSE {})
                  \cup (IF scanned.target.matches THEN {} ELSE {Issue("hostname_mismatch", 1)})
  <1>1. /\ {issues[k] : k \in DOMAIN issues} = A
        /\ \A j, k \in DOMAIN issues : issues[j] = issues[k] => j = k
    BY ReportedDefects, ListedElements
  <1>2. 1 \in DOMAIN ScannedChain
    <2>1. scanned.target \in Targets BY DEF IInv, Reported
    <2> QED BY <2>1, ChainOf DEF ScannedChain
  <1>3. ASSUME NEW x PROVE x \in A <=> x \in B
    BY <1>2, DefectsByType DEF Expired, NotYetValid
  <1>4. A = B BY <1>3
  <1> QED BY <1>1, <1>4 DEF IssuesExact

================================================================================
