------------------------- MODULE ModuleLoaderProofs -------------------------
(***************************************************************************)
(* The working directory and the names of modules, for any tree, programs, *)
(* names and depth.                                                        *)
(***************************************************************************)
EXTENDS ModuleLoader, SequenceTheorems, WellFoundedInduction, TLAPS

\* what any text that is taken for a path is made of
All == Components \cup {Up, Here, Gone}
Text == Seq(All)

-----------------------------------------------------------------------------
(* Sequences.                                                              *)

\* A set of numbers that is not empty has a least one.
LEMMA LeastExists ==
  ASSUME NEW T \in SUBSET Nat, T # {}
  PROVE  \E x \in T : \A y \in T : x <= y
<1> DEFINE R == {ss \in Nat \X Nat : ss[1] < ss[2]}
<1>1. OpToRel(<, Nat) = R
  BY DEF OpToRel
<1>2. IsWellFoundedOn(R, Nat)
  BY <1>1, NatLessThanWellFounded
<1>3. \A x, y \in Nat : <<y, x>> \in R <=> y < x
  OBVIOUS
<1> HIDE DEF R
<1>4. PICK x \in T : \A y \in T : ~(<<y, x>> \in R)
  BY <1>2, WFMin
<1>5. \A y \in T : x <= y
  <2>1. TAKE y \in T
  <2>2. x \in Nat /\ y \in Nat
    OBVIOUS
  <2>3. ~(y < x)
    BY <1>3, <1>4, <2>2
  <2> QED
    BY <2>2, <2>3
<1> QED
  BY <1>5

\* Where 0 is in no set of numbers without the number before, the set is empty.
LEMMA NoneIsFirst ==
  ASSUME NEW T \in SUBSET Nat, 0 \notin T, \A n \in T \ {0} : n - 1 \in T
  PROVE  T = {}
<1> SUFFICES ASSUME T # {} PROVE FALSE
  OBVIOUS
<1>1. PICK x \in T : \A y \in T : x <= y
  BY LeastExists
<1>2. x \in Nat /\ x # 0 /\ x - 1 \in T
  BY <1>1
<1> QED
  BY <1>1, <1>2

\* A sequence is its beginning and its last element.
LEMMA Split ==
  ASSUME NEW S, NEW p \in Seq(S), p # <<>>
  PROVE  /\ Parent(p) \in Seq(S) /\ Len(Parent(p)) = Len(p) - 1
         /\ Last(p) \in S
         /\ p = Append(Parent(p), Last(p))
<1>1. PICK s \in Seq(S), e \in S : p = Append(s, e)
  BY SequenceEmptyOrAppend
<1>2. /\ Len(s) \in Nat /\ Len(p) = Len(s) + 1 /\ p[Len(p)] = e
      /\ \A i \in 1..Len(s) : p[i] = s[i] /\ s[i] \in S
  BY <1>1, AppendProperties, LenProperties, ElementOfSeq
<1>3. SubSeq(p, 1, Len(s)) \in Seq(S) /\ Len(SubSeq(p, 1, Len(s))) = Len(s)
      /\ \A i \in 1..Len(s) : SubSeq(p, 1, Len(s))[i] = p[i]
  BY <1>2, SubSeqProperties
<1>4. SubSeq(p, 1, Len(s)) = s
  BY <1>2, <1>3, SeqEqual
<1>5. Parent(p) = s /\ Last(p) = e
  BY <1>2, <1>4 DEF Parent, Last
<1> QED
  BY <1>1, <1>2, <1>5

LEMMA Appended ==
  ASSUME NEW S, NEW p \in Seq(S), NEW c \in S
  PROVE  Parent(Append(p, c)) = p /\ Last(Append(p, c)) = c
<1>1. Append(p, c) \in Seq(S) /\ Append(p, c) # <<>>
  BY AppendProperties
<1>2. /\ Parent(Append(p, c)) \in Seq(S) /\ Last(Append(p, c)) \in S
      /\ Append(p, c) = Append(Parent(Append(p, c)), Last(Append(p, c)))
  BY <1>1, Split
<1> QED
  BY <1>2, AppendInjective

\* The beginnings of a sequence, one after the other.
LEMMA Beginnings ==
  ASSUME NEW S, NEW p \in Seq(S)
  PROVE  /\ SubSeq(p, 1, 0) = <<>> /\ SubSeq(p, 1, Len(p)) = p /\ Len(p) \in Nat
         /\ \A n \in 0..Len(p) : SubSeq(p, 1, n) \in Seq(S) /\ Len(SubSeq(p, 1, n)) = n
         /\ \A n \in 1..Len(p) :
              p[n] \in S /\ SubSeq(p, 1, n) = Append(SubSeq(p, 1, n - 1), p[n])
<1>1. Len(p) \in Nat /\ \A i \in 1..Len(p) : p[i] \in S
  BY LenProperties, ElementOfSeq
<1>2. SubSeq(p, 1, 0) = <<>> /\ SubSeq(p, 1, Len(p)) = p
  BY SubSeqEmpty, SubSeqFull
<1>3. ASSUME NEW n \in 0..Len(p)
      PROVE  /\ SubSeq(p, 1, n) \in Seq(S) /\ Len(SubSeq(p, 1, n)) = n
             /\ \A i \in 1..n : SubSeq(p, 1, n)[i] = p[i]
  BY <1>1, SubSeqProperties
<1>4. ASSUME NEW n \in 1..Len(p)
      PROVE  SubSeq(p, 1, n) = Append(SubSeq(p, 1, n - 1), p[n])
  <2>1. n - 1 \in 0..Len(p) /\ n \in 0..Len(p) /\ p[n] \in S
    BY <1>1
  <2> DEFINE b == SubSeq(p, 1, n - 1)
  <2>2. b \in Seq(S) /\ Len(b) = n - 1 /\ \A i \in 1..(n - 1) : b[i] = p[i]
    BY <1>3, <2>1
  <2>3. /\ Append(b, p[n]) \in Seq(S) /\ Len(Append(b, p[n])) = n
        /\ \A i \in 1..n : Append(b, p[n])[i] = p[i]
    BY <2>1, <2>2, AppendProperties
  <2>4. /\ SubSeq(p, 1, n) \in Seq(S) /\ Len(SubSeq(p, 1, n)) = n
        /\ \A i \in 1..n : SubSeq(p, 1, n)[i] = p[i]
    BY <1>3, <2>1
  <2> QED
    BY <2>3, <2>4, SeqEqual
<1> QED
  BY <1>1, <1>2, <1>3, <1>4

-----------------------------------------------------------------------------
(* Walk.                                                                   *)

\* f is Walk's recursive function up to n.
WalksTo(f, p, n) ==
  f = [i \in 0..n |-> IF i = 0 THEN <<>> ELSE Entered(f[i - 1], p[i])]

LEMMA WalkExists ==
  ASSUME NEW p, NEW n \in Nat
  PROVE  \E f : WalksTo(f, p, n)
<1> DEFINE T == {m \in Nat : ~ \E f : WalksTo(f, p, m)}
<1>1. 0 \notin T
  <2> DEFINE f == [i \in 0..0 |-> <<>>]
  <2>1. f = [i \in 0..0 |-> IF i = 0 THEN <<>> ELSE Entered(f[i - 1], p[i])]
    OBVIOUS
  <2>2. WalksTo(f, p, 0)
    BY <2>1 DEF WalksTo
  <2> QED
    BY <2>2
<1>2. ASSUME NEW m \in T \ {0}, m - 1 \notin T
      PROVE  FALSE
  <2>1. m \in Nat /\ m # 0 /\ m - 1 \in Nat
    BY <1>2
  <2>2. PICK g : WalksTo(g, p, m - 1)
    BY <1>2, <2>1
  <2> DEFINE f == [i \in 0..m |-> IF i = m THEN Entered(g[m - 1], p[m]) ELSE g[i]]
  <2>3. g = [i \in 0..(m - 1) |-> IF i = 0 THEN <<>> ELSE Entered(g[i - 1], p[i])]
    BY <2>2 DEF WalksTo
  <2>4. ASSUME NEW i \in 0..m
        PROVE  f[i] = IF i = 0 THEN <<>> ELSE Entered(f[i - 1], p[i])
    <3>1. CASE i = m
      <4>1. f[i] = Entered(g[m - 1], p[m]) /\ f[i - 1] = g[m - 1] /\ i # 0
        BY <2>1, <3>1
      <4> QED
        BY <4>1, <3>1
    <3>2. CASE i # m /\ i # 0
      <4>1. i \in 0..(m - 1) /\ i - 1 \in 0..m /\ i - 1 # m
        BY <2>1, <3>2
      <4>2. f[i] = g[i] /\ f[i - 1] = g[i - 1]
        BY <3>2, <4>1
      <4>3. g[i] = Entered(g[i - 1], p[i])
        BY <2>3, <3>2, <4>1
      <4> QED
        BY <3>2, <4>2, <4>3
    <3>3. CASE i = 0
      <4>1. f[0] = g[0] /\ 0 \in 0..(m - 1)
        BY <2>1, <3>3
      <4>2. g[0] = <<>>
        BY <2>3, <4>1
      <4> QED
        BY <3>3, <4>1, <4>2
    <3> QED
      BY <3>1, <3>2, <3>3
  <2>5. f = [i \in 0..m |-> IF i = 0 THEN <<>> ELSE Entered(f[i - 1], p[i])]
    <3> HIDE DEF f
    <3>1. f = [i \in 0..m |-> f[i]]
      BY DEF f
    <3> QED
      BY <2>4, <3>1
  <2>6. \E h : WalksTo(h, p, m)
    BY <2>5 DEF WalksTo
  <2> QED
    BY <1>2, <2>6
<1>3. T = {}
  <2> HIDE DEF T
  <2>1. T \in SUBSET Nat
    BY DEF T
  <2> QED
    BY <1>1, <1>2, <2>1, NoneIsFirst
<1> QED
  BY <1>3

LEMMA WalkIs ==
  ASSUME NEW p, Len(p) \in Nat
  PROVE  \E f : /\ Walk(p) = f[Len(p)] /\ f[0] = <<>>
                /\ \A i \in 1..Len(p) : f[i] = Entered(f[i - 1], p[i])
<1> DEFINE f == CHOOSE f : f = [i \in 0..Len(p) |->
                                  IF i = 0 THEN <<>> ELSE Entered(f[i - 1], p[i])]
<1>1. f = [i \in 0..Len(p) |-> IF i = 0 THEN <<>> ELSE Entered(f[i - 1], p[i])]
  BY WalkExists DEF WalksTo
<1>2. Walk(p) = f[Len(p)]
  BY DEF Walk
<1> HIDE DEF f
<1>3. f[0] = <<>> /\ \A i \in 1..Len(p) : f[i] = Entered(f[i - 1], p[i])
  BY <1>1
<1> QED
  BY <1>2, <1>3

LEMMA WalkNowhere ==
  Walk(<<>>) = <<>>
<1>1. Len(<<>>) = 0
  BY EmptySeq
<1> QED
  BY <1>1, WalkIs

\* The walk along a path is the walk along the path before, and one step.
LEMMA WalkOn ==
  ASSUME NEW S, NEW p \in Seq(S), NEW c \in S
  PROVE  Walk(Append(p, c)) = Entered(Walk(p), c)
<1> DEFINE q == Append(p, c)
<1>2. /\ Len(p) \in Nat /\ Len(q) = Len(p) + 1 /\ q[Len(p) + 1] = c
      /\ \A i \in 1..Len(p) : q[i] = p[i]
  BY AppendProperties, LenProperties
<1> HIDE DEF q
<1>3. PICK f : /\ Walk(p) = f[Len(p)] /\ f[0] = <<>>
               /\ \A i \in 1..Len(p) : f[i] = Entered(f[i - 1], p[i])
  BY <1>2, WalkIs
<1>4. PICK g : /\ Walk(q) = g[Len(q)] /\ g[0] = <<>>
               /\ \A i \in 1..Len(q) : g[i] = Entered(g[i - 1], q[i])
  BY <1>2, WalkIs
<1> DEFINE T == {n \in 0..Len(p) : f[n] # g[n]}
<1>5. T = {}
  <2>1. T \in SUBSET Nat /\ 0 \notin T
    BY <1>2, <1>3, <1>4
  <2>2. ASSUME NEW n \in T \ {0}, n - 1 \notin T
        PROVE  FALSE
    <3>1. n \in 1..Len(p) /\ n \in 1..Len(q) /\ n - 1 \in 0..Len(p)
      BY <1>2
    <3>2. f[n - 1] = g[n - 1]
      BY <2>2, <3>1
    <3>3. f[n] = Entered(f[n - 1], p[n]) /\ g[n] = Entered(g[n - 1], q[n]) /\ q[n] = p[n]
      BY <1>2, <1>3, <1>4, <3>1
    <3> QED
      BY <3>2, <3>3
  <2> HIDE DEF T
  <2> QED
    BY <2>1, <2>2, NoneIsFirst
<1>6. f[Len(p)] = g[Len(p)]
  BY <1>2, <1>5
<1>7. g[Len(q)] = Entered(g[Len(p)], c)
  BY <1>2, <1>4
<1> QED
  BY <1>3, <1>4, <1>6, <1>7 DEF q

\* A directory is walked to.
LEMMA WalkToDirectory ==
  ASSUME Tree(dirs, Files), NEW d \in dirs
  PROVE  Walk(d) = d
<1>1. d \in Path /\ <<>> \in dirs /\ \A n \in 0..(Len(d) - 1) : SubSeq(d, 1, n) \in dirs
  BY DEF Tree
<1>2. /\ SubSeq(d, 1, 0) = <<>> /\ SubSeq(d, 1, Len(d)) = d /\ Len(d) \in Nat
      /\ \A n \in 0..Len(d) : SubSeq(d, 1, n) \in Path
      /\ \A n \in 1..Len(d) : /\ d[n] \in Components
                             /\ SubSeq(d, 1, n) = Append(SubSeq(d, 1, n - 1), d[n])
  BY <1>1, Beginnings DEF Path
<1> DEFINE T == {n \in 0..Len(d) : Walk(SubSeq(d, 1, n)) # SubSeq(d, 1, n)}
<1>3. T = {}
  <2>1. T \in SUBSET Nat /\ 0 \notin T
    <3>1. Walk(SubSeq(d, 1, 0)) = SubSeq(d, 1, 0)
      <4> HIDE DEF T
      <4> QED
        BY <1>2, WalkNowhere
    <3>2. T \in SUBSET Nat
      BY <1>2
    <3> QED
      BY <3>1, <3>2
  <2>2. ASSUME NEW n \in T \ {0}, n - 1 \notin T
        PROVE  FALSE
    <3>1. n \in 1..Len(d) /\ n - 1 \in 0..(Len(d) - 1) /\ n - 1 \in 0..Len(d)
      BY <1>2
    <3> DEFINE b == SubSeq(d, 1, n - 1)
    <3>2. b \in Path /\ b \in dirs /\ Walk(b) = b /\ SubSeq(d, 1, n) = Append(b, d[n])
          /\ d[n] \in Components
      BY <1>1, <1>2, <2>2, <3>1
    <3> HIDE DEF b
    <3>3. Walk(Append(b, d[n])) = Entered(b, d[n])
      BY <3>2, WalkOn DEF Path
    <3>4. Entered(b, d[n]) = Append(b, d[n])
      BY <3>2, NamesAssumption DEF Entered
    <3> QED
      BY <3>2, <3>3, <3>4
  <2> HIDE DEF T
  <2> QED
    BY <2>1, <2>2, NoneIsFirst
<1>4. Len(d) \in 0..Len(d) /\ Len(d) \notin T
  BY <1>2, <1>3
<1> QED
  BY <1>2, <1>4

LEMMA ParentIsDirectory ==
  ASSUME Tree(dirs, Files), NEW p \in dirs \cup Files
  PROVE  Parent(p) \in dirs
<1>1. p \in Path /\ <<>> \in dirs /\ \A n \in 0..(Len(p) - 1) : SubSeq(p, 1, n) \in dirs
  BY DEF Tree
<1>2. Len(p) \in Nat
  BY <1>1, LenProperties DEF Path
<1>3. CASE Len(p) = 0
  <2>1. Len(p) - 1 \in Int /\ Len(p) - 1 < 1
    BY <1>3
  <2>2. SubSeq(p, 1, Len(p) - 1) = <<>>
    BY <2>1, SubSeqEmpty
  <2> QED
    BY <1>1, <2>2 DEF Parent
<1>4. CASE Len(p) # 0
  <2>1. Len(p) - 1 \in 0..(Len(p) - 1)
    BY <1>2, <1>4
  <2> QED
    BY <1>1, <2>1 DEF Parent
<1> QED
  BY <1>3, <1>4

LEMMA UpIsNotHere == Up # Here
  BY DEF Up, Here

\* A walk ends at a directory or at what is not found, or no directory, in one.
LEMMA WalkEnds ==
  ASSUME Tree(dirs, Files), NEW p \in Text
  PROVE  \/ Walk(p) \in dirs
         \/ \E d \in dirs, c \in All \ {Up, Here} : Walk(p) = Append(d, c) /\ Walk(p) \notin dirs
<1> DEFINE Ends(x) == \/ x \in dirs
                      \/ \E d \in dirs, c \in All \ {Up, Here} : x = Append(d, c) /\ x \notin dirs
<1>1. <<>> \in dirs
  BY DEF Tree
<1>2. /\ SubSeq(p, 1, 0) = <<>> /\ SubSeq(p, 1, Len(p)) = p /\ Len(p) \in Nat
      /\ \A n \in 0..Len(p) : SubSeq(p, 1, n) \in Text
      /\ \A n \in 1..Len(p) : /\ p[n] \in All
                             /\ SubSeq(p, 1, n) = Append(SubSeq(p, 1, n - 1), p[n])
  BY Beginnings DEF Text
<1>3. ASSUME NEW x, Ends(x), NEW c \in All
      PROVE  Ends(Entered(x, c))
  <2>1. CASE x \notin dirs
    BY <1>3, <2>1 DEF Entered
  <2>2. CASE x \in dirs /\ c = Up
    BY <2>2, ParentIsDirectory, UpIsNotHere DEF Entered
  <2>3. CASE x \in dirs /\ c = Here
    BY <2>3 DEF Entered
  <2>4. CASE x \in dirs /\ c \notin {Up, Here}
    BY <1>3, <2>4 DEF Entered
  <2> QED
    BY <2>1, <2>2, <2>3, <2>4
<1> HIDE DEF Ends
<1> DEFINE T == {n \in 0..Len(p) : ~Ends(Walk(SubSeq(p, 1, n)))}
<1>4. T = {}
  <2>1. Ends(Walk(<<>>))
    BY <1>1, WalkNowhere DEF Ends
  <2>2. T \in SUBSET Nat /\ 0 \notin T
    <3>1. Ends(Walk(SubSeq(p, 1, 0)))
      <4> HIDE DEF T
      <4> QED
        BY <1>2, <2>1
    <3>2. T \in SUBSET Nat
      BY <1>2
    <3> QED
      BY <3>1, <3>2
  <2>3. ASSUME NEW n \in T \ {0}, n - 1 \notin T
        PROVE  FALSE
    <3>1. n \in 1..Len(p) /\ n - 1 \in 0..Len(p)
      BY <1>2
    <3> DEFINE b == SubSeq(p, 1, n - 1)
    <3>2. b \in Text /\ Ends(Walk(b)) /\ SubSeq(p, 1, n) = Append(b, p[n]) /\ p[n] \in All
      BY <1>2, <2>3, <3>1
    <3> HIDE DEF b
    <3>3. Walk(Append(b, p[n])) = Entered(Walk(b), p[n])
      BY <3>2, WalkOn DEF Text
    <3>4. Ends(Entered(Walk(b), p[n]))
      BY <1>3, <3>2
    <3> QED
      BY <3>2, <3>3, <3>4
  <2> HIDE DEF T
  <2> QED
    BY <2>2, <2>3, NoneIsFirst
<1>5. Len(p) \in 0..Len(p) /\ Len(p) \notin T
  BY <1>2, <1>4
<1>6. Ends(Walk(p))
  BY <1>2, <1>5
<1> QED
  BY <1>6 DEF Ends

\* What realpath leaves is what it makes of that.
LEMMA WalkTwice ==
  ASSUME Tree(dirs, Files), NEW p \in Text
  PROVE  Walk(Walk(p)) = Walk(p) /\ Walk(p) \in Text
<1>1. CASE Walk(p) \in dirs
  <2>1. Walk(p) \in Path /\ Path \subseteq Text
    BY <1>1, SeqMonotonic DEF Tree, Path, Text, All
  <2> QED
    BY <1>1, <2>1, WalkToDirectory
<1>2. ASSUME NEW d \in dirs, NEW c \in All \ {Up, Here}, Walk(p) = Append(d, c)
      PROVE  Walk(Walk(p)) = Walk(p) /\ Walk(p) \in Text
  <2>1. d \in Text
    BY SeqMonotonic DEF Tree, Path, Text, All
  <2>2. Append(d, c) \in Text
    BY <2>1, AppendProperties DEF Text
  <2>3. Walk(Append(d, c)) = Entered(Walk(d), c)
    BY <2>1, WalkOn DEF Text
  <2>4. Walk(d) = d
    BY WalkToDirectory
  <2>5. Entered(d, c) = Append(d, c)
    BY DEF Entered
  <2> QED
    BY <1>2, <2>2, <2>3, <2>4, <2>5
<1> QED
  BY <1>1, <1>2, WalkEnds

-----------------------------------------------------------------------------
(* FileExtension.                                                          *)

LastOf(full) == IF full = <<>> THEN Here ELSE Last(full)
With(full, ext) == Append(Parent(full), <<LastOf(full)[1], ext>>)

LEMMA TwoExts ==
  DOMAIN Exts = {1, 2} /\ Exts[1] = "fm" /\ Exts[2] = "js" /\ Range(Exts) = {"fm", "js"}
<1>1. DOMAIN Exts = {1, 2} /\ Exts[1] = "fm" /\ Exts[2] = "js"
  BY DEF Exts
<1> QED
  BY <1>1 DEF Range

\* The file that is found, case by case.
LEMMA Extension ==
  ASSUME NEW p
  PROVE  FileExtension(p) =
           IF LastOf(Walk(p))[2] # ""
           THEN IF LastOf(Walk(p))[2] \in {"fm", "js"} /\ Walk(p) \in Files
                THEN Walk(p) ELSE <<>>
           ELSE IF With(Walk(p), "fm") \in Files THEN With(Walk(p), "fm")
                ELSE IF With(Walk(p), "js") \in Files THEN With(Walk(p), "js")
                ELSE <<>>
<1> DEFINE full == Walk(p)
           last == LastOf(full)
           found == {i \in DOMAIN Exts : With(full, Exts[i]) \in Files}
           first == CHOOSE i \in found : \A k \in found : i <= k
<1>1. FileExtension(p) =
        CASE last[2] # "" /\ last[2] \in Range(Exts) /\ full \in Files -> full
          [] last[2] = "" /\ found # {} -> With(full, Exts[first])
          [] OTHER -> <<>>
  BY Zenon DEF FileExtension, Normalize, With, LastOf
<1> HIDE DEF full
<1>2. found \subseteq {1, 2} /\ (1 \in found <=> With(full, "fm") \in Files)
                             /\ (2 \in found <=> With(full, "js") \in Files)
  BY TwoExts
<1> HIDE DEF found
<1>3. CASE 1 \in found
  <2>1. \A k \in found : 1 <= k
    BY <1>2
  <2>2. \A i \in found : (\A k \in found : i <= k) => i = 1
    BY <1>2, <1>3
  <2>3. first = 1
    BY <1>3, <2>1, <2>2
  <2> HIDE DEF first
  <2> QED
    BY <1>1, <1>2, <1>3, <2>3, TwoExts DEF full
<1>4. CASE 1 \notin found /\ 2 \in found
  <2>1. found = {2}
    BY <1>2, <1>4
  <2>2. first = 2
    BY <2>1
  <2> HIDE DEF first
  <2> QED
    BY <1>1, <1>2, <1>4, <2>1, <2>2, TwoExts DEF full
<1>5. CASE 1 \notin found /\ 2 \notin found
  <2>1. found = {}
    BY <1>2, <1>5
  <2> HIDE DEF first
  <2> QED
    BY <1>1, <1>2, <2>1, TwoExts DEF full
<1> QED
  BY <1>3, <1>4, <1>5

\* What is found is a file beside what realpath leaves.
LEMMA FoundIsFile ==
  ASSUME Tree(dirs, Files), NEW p \in Text, FileExtension(p) # <<>>
  PROVE  FileExtension(p) \in Files /\ Parent(FileExtension(p)) = Parent(Walk(p))
<1> DEFINE full == Walk(p)
<1>1. full \in Text
  BY WalkTwice
<1>2. \/ FileExtension(p) = full /\ full \in Files
      \/ \E ext \in {"fm", "js"} :
           FileExtension(p) = With(full, ext) /\ With(full, ext) \in Files
  BY Extension
<1> HIDE DEF full
<1>3. ASSUME NEW ext
      PROVE  Parent(With(full, ext)) = Parent(full)
  <2> DEFINE S == All \cup {<<LastOf(full)[1], ext>>}
  <2>1. Parent(full) \in Text
    <3>1. CASE full = <<>>
      BY <3>1 DEF Parent, Text
    <3>2. CASE full # <<>>
      BY <1>1, <3>2, Split DEF Text
    <3> QED
      BY <3>1, <3>2
  <2>2. Parent(full) \in Seq(S)
    BY <2>1, SeqMonotonic DEF Text
  <2>3. Parent(Append(Parent(full), <<LastOf(full)[1], ext>>)) = Parent(full)
    BY <2>2, Appended
  <2> QED
    BY <2>3 DEF With
<1> QED
  BY <1>2, <1>3 DEF full

-----------------------------------------------------------------------------
(* Names and the directories they are looked up in.                        *)

LEMMA TextOfName ==
  ASSUME TypeOK, NEW name \in Names, NEW current \in dirs \cup {Nowhere}
  PROVE  /\ name.path \in Text /\ name.path # <<>> /\ current \in Text
         /\ name.path \in Seq(Components \cup {Up, Here})
         /\ current \o name.path \in Text
         /\ UsingPath(current, name) \in Text
<1>1. /\ name.path \in Seq(Components \cup {Up, Here}) /\ name.path # <<>>
  BY DEF Names
<1>2. name.path \in Text
  BY <1>1, SeqMonotonic DEF Text, All
<1>3. current \in Text
  <2>1. Nowhere \in Text
    <3>1. Gone \in All
      BY DEF All
    <3>2. <<Gone>> \in Seq(All)
      BY <3>1
    <3> QED
      BY <3>2 DEF Nowhere, Text
  <2>2. Path \subseteq Text
    BY SeqMonotonic DEF Path, Text, All
  <2> QED
    BY <2>1, <2>2 DEF TypeOK, Tree
<1>4. current \o name.path \in Text
  BY <1>2, <1>3, ConcatProperties DEF Text
<1>5. Walk(current \o name.path) \in Text
  BY <1>4, WalkTwice DEF TypeOK
<1> QED
  BY <1>1, <1>2, <1>3, <1>4, <1>5 DEF UsingPath, Normalize

-----------------------------------------------------------------------------
(* The stack.                                                              *)

\* A home is a directory as long as it was not moved or removed.
HomesExist ==
  /\ Nowhere \in lost
  /\ Start \in dirs \cup lost
  /\ \A i \in DOMAIN stack : stack[i].home \in dirs \cup lost

\* Modules are above the main script or a callback.
ModulesAbove ==
  \A i \in DOMAIN stack :
    /\ stack[i].kind = "module" <=> i > 1
    /\ i = 1 => stack[i].home = Start

IInv == TypeOK /\ HomesExist /\ ModulesAbove /\ CwdFollowsStack

\* The stack s differs from the one there is in what is left to do.
SameFrames(s) ==
  /\ s \in Seq(Frame) /\ Len(s) = Len(stack)
  /\ \A i \in 1..Len(stack) :
       s[i].kind = stack[i].kind /\ s[i].home = stack[i].home /\ s[i].back = stack[i].back

LEMMA StackFacts ==
  ASSUME TypeOK
  PROVE  /\ Len(stack) \in Nat /\ DOMAIN stack = 1..Len(stack)
         /\ \A i \in 1..Len(stack) : stack[i] \in Frame
         /\ stack = <<>> <=> Len(stack) = 0
         /\ stack # <<>> => Len(stack) \in 1..Len(stack) /\ Top \in Frame
         /\ SameFrames(stack)
<1>1. stack \in Seq(Frame)
  BY DEF TypeOK
<1>2. /\ Len(stack) \in Nat /\ DOMAIN stack = 1..Len(stack)
      /\ \A i \in 1..Len(stack) : stack[i] \in Frame
  BY <1>1, LenProperties, ElementOfSeq
<1>3. stack = <<>> <=> Len(stack) = 0
  BY <1>1, <1>2, EmptySeq
<1>4. stack # <<>> => Len(stack) \in 1..Len(stack) /\ Top \in Frame
  BY <1>2, <1>3 DEF Top, Last
<1> QED
  BY <1>1, <1>2, <1>3, <1>4 DEF SameFrames

\* Replacing what is left to do in the top frame.
LEMMA NewTodo ==
  ASSUME TypeOK, stack # <<>>, NEW todo \in Seq(Statement)
  PROVE  /\ SameFrames([stack EXCEPT ![Len(stack)].todo = todo])
         /\ [stack EXCEPT ![Len(stack)].todo = todo] # <<>>
<1> DEFINE n == Len(stack)
           top == [stack[n] EXCEPT !.todo = todo]
           s == [stack EXCEPT ![n] = top]
<1>1. /\ n \in Nat /\ n \in 1..n /\ stack[n] \in Frame /\ stack \in Seq(Frame)
  BY StackFacts DEF TypeOK, Top, Last
<1>2. /\ top \in Frame /\ top.kind = stack[n].kind /\ top.home = stack[n].home
      /\ top.back = stack[n].back
  BY <1>1 DEF Frame
<1>3. s = [stack EXCEPT ![Len(stack)].todo = todo]
  OBVIOUS
<1> HIDE DEF top
<1>4. /\ s \in Seq(Frame) /\ Len(s) = n
      /\ \A j \in 1..n : s[j] = IF j = n THEN top ELSE stack[j]
  BY <1>1, <1>2, ExceptSeq
<1> HIDE DEF s
<1>5. SameFrames(s)
  BY <1>1, <1>2, <1>4 DEF SameFrames
<1>6. s # <<>>
  BY <1>1, <1>4, EmptySeq
<1> QED
  BY <1>3, <1>5, <1>6

LEMMA RunningFacts ==
  ASSUME TypeOK, NEW ops, Running(ops)
  PROVE  /\ state = "run" /\ stack # <<>> /\ Top \in Frame
         /\ Now \in Statement /\ Now.op \in ops /\ Now.req \in Names
         /\ Now.op = "mv" => Now.to \in Names
         /\ SameFrames(Advance) /\ Advance # <<>> /\ SameFrames(Abort) /\ Abort # <<>>
<1>1. state = "run" /\ stack # <<>> /\ Top \in Frame /\ Top.todo # <<>> /\ Now.op \in ops
  BY StackFacts DEF Running, TypeOK
<1>2. Top.todo \in Seq(Statement) /\ Top = stack[Len(stack)]
  BY <1>1 DEF Frame, Top, Last
<1>3. Now \in Statement /\ Tail(Top.todo) \in Seq(Statement) /\ <<>> \in Seq(Statement)
  BY <1>1, <1>2, HeadTailProperties, EmptySeq DEF Now
<1>4. Now.req \in Names /\ (Now.op = "mv" => Now.to \in Names)
  BY <1>3 DEF Statement, Ops
<1>5. Advance = [stack EXCEPT ![Len(stack)].todo = Tail(Top.todo)]
  BY <1>2 DEF Advance
<1>6. SameFrames(Advance) /\ Advance # <<>>
  BY <1>1, <1>3, <1>5, NewTodo
<1>7. SameFrames(Abort) /\ Abort # <<>>
  BY <1>1, <1>3, NewTodo DEF Abort
<1> QED
  BY <1>1, <1>3, <1>4, <1>6, <1>7

\* A step that keeps the frames, their homes and the working directory but where
\* they are lost.
LEMMA OtherHomes ==
  ASSUME IInv, SameFrames(stack'), lost \subseteq lost', dirs \ lost' \subseteq dirs',
         cwd \in dirs \ lost' => cwd' = cwd
  PROVE  HomesExist' /\ ModulesAbove' /\ CwdFollowsStack'
<1>1. TypeOK /\ HomesExist /\ ModulesAbove /\ CwdFollowsStack
  BY DEF IInv
<1>2. /\ Len(stack) \in Nat /\ DOMAIN stack = 1..Len(stack) /\ stack = <<>> <=> Len(stack) = 0
      /\ stack # <<>> => Len(stack) \in 1..Len(stack)
  BY <1>1, StackFacts
<1>3. /\ stack' \in Seq(Frame) /\ Len(stack') = Len(stack)
      /\ \A i \in 1..Len(stack) : /\ stack'[i].kind = stack[i].kind
                                  /\ stack'[i].home = stack[i].home
                                  /\ stack'[i].back = stack[i].back
  BY DEF SameFrames
<1>4. DOMAIN stack' = 1..Len(stack) /\ (stack' = <<>> <=> Len(stack) = 0)
  BY <1>2, <1>3, LenProperties, EmptySeq
<1>5. HomesExist'
  BY <1>1, <1>2, <1>3, <1>4 DEF HomesExist
<1>6. ModulesAbove'
  BY <1>1, <1>2, <1>3, <1>4 DEF ModulesAbove
<1>7. CwdFollowsStack'
  <2>1. ASSUME NEW i \in DOMAIN stack', i > 1, stack'[i - 1].home \notin lost'
        PROVE  stack'[i].back = stack'[i - 1].home
    <3>1. i \in DOMAIN stack /\ i \in 1..Len(stack) /\ i - 1 \in 1..Len(stack)
      BY <1>2, <1>4, <2>1
    <3>2. stack[i - 1].home \notin lost
      BY <1>3, <2>1, <3>1
    <3>3. stack[i].back = stack[i - 1].home
      BY <1>1, <2>1, <3>1, <3>2 DEF CwdFollowsStack
    <3> QED
      BY <1>3, <3>1, <3>3
  <2>2. CASE stack = <<>>
    <3>1. Start \notin lost' => cwd = Start /\ Start \in dirs
      BY <1>1, <2>2 DEF CwdFollowsStack, HomesExist
    <3>2. Start \notin lost' => cwd' = Start
      BY <3>1
    <3> QED
      BY <1>2, <1>4, <2>1, <2>2, <3>2 DEF CwdFollowsStack
  <2>3. CASE stack # <<>>
    <3>1. stack[Len(stack)].home \notin lost' =>
            cwd = stack[Len(stack)].home /\ stack[Len(stack)].home \in dirs
      BY <1>1, <1>2, <2>3 DEF CwdFollowsStack, HomesExist, Top, Last
    <3>2. stack[Len(stack)].home \notin lost' => cwd' = stack[Len(stack)].home
      BY <3>1
    <3>3. Top'.home = stack[Len(stack)].home /\ stack' # <<>>
      BY <1>2, <1>3, <1>4, <2>3 DEF Top, Last
    <3> QED
      BY <2>1, <3>2, <3>3 DEF CwdFollowsStack
  <2> QED
    BY <2>2, <2>3
<1> QED
  BY <1>5, <1>6, <1>7

-----------------------------------------------------------------------------
(* The steps of scripts.                                                   *)

LEMMA ChdirType ==
  ASSUME NEW at, NEW p
  PROVE  Chdir(at, p) \in dirs \cup {at}
BY DEF Chdir

\* A statement that leaves the tree and the frames as they are.
LEMMA OwnStatement ==
  ASSUME IInv, UNCHANGED <<tree, cwd>>, SameFrames(stack'), stack' # <<>> \/ state' = "ended",
         state' \in {state, "ended"}, state = "run",
         callbacks' \subseteq [file : Path, req : Names]
  PROVE  IInv'
<1>1. TypeOK /\ UNCHANGED <<dirs, program, lost, cwd>>
  BY DEF IInv, tree
<1>2. stack' \in Seq(Frame) /\ Len(stack') = Len(stack)
  BY DEF SameFrames
<1>3. TypeOK'
  BY <1>1, <1>2 DEF TypeOK, Files
<1> QED
  BY <1>1, <1>3, OtherHomes DEF IInv

LEMMA StatementInv ==
  ASSUME IInv, Throw \/ Later \/ Exit \/ NotFound \/ ReadFails \/ LoadFails
  PROVE  IInv'
<1>1. TypeOK
  BY DEF IInv
<1>2. CASE Throw
  BY <1>1, <1>2, RunningFacts, OwnStatement DEF Throw, TypeOK
<1>3. CASE Later
  <2>1. Running({"later"}) /\ stack' = Advance /\ UNCHANGED <<state, tree, cwd>>
        /\ callbacks' = callbacks \cup {[file |-> Top.file, req |-> Now.req]}
    BY <1>3 DEF Later
  <2>2. Top.file \in Path /\ Now.req \in Names
    BY <1>1, <2>1, RunningFacts DEF Frame
  <2>3. callbacks' \subseteq [file : Path, req : Names]
    BY <1>1, <2>1, <2>2 DEF TypeOK
  <2> QED
    BY <1>1, <2>1, <2>3, RunningFacts, OwnStatement
<1>4. CASE Exit
  <2>1. SameFrames(stack') /\ state = "run"
    BY <1>1, <1>4, RunningFacts, StackFacts DEF Exit, SameFrames
  <2> QED
    BY <1>1, <1>4, <2>1, OwnStatement DEF Exit, TypeOK
<1>5. CASE NotFound
  <2>1. Running({"require", "try"}) /\ stack' \in {Advance, Abort}
        /\ UNCHANGED <<state, tree, cwd, callbacks>>
    BY <1>5 DEF NotFound
  <2> QED
    BY <1>1, <2>1, RunningFacts, OwnStatement DEF TypeOK
<1>6. CASE ReadFails \/ LoadFails
  <2>1. SameFrames(stack') /\ state = "run"
    BY <1>1, <1>6, RunningFacts, StackFacts DEF ReadFails, LoadFails, SameFrames
  <2> QED
    BY <1>1, <1>6, <2>1, OwnStatement DEF ReadFails, LoadFails, TypeOK
<1> QED
  BY <1>2, <1>3, <1>4, <1>5, <1>6

\* What a require that finds a file works with.
LEMMA FoundFacts ==
  ASSUME TypeOK, Running({"require", "try"}), NEW current \in CurrentPath,
         Found(current) # <<>>
  PROVE  /\ Found(current) \in Files /\ Found(current) \in Path
         /\ Parent(Found(current)) \in dirs
         /\ Parent(Found(current)) = Parent(Walk(UsingPath(current, Now.req)))
         /\ current \in dirs \cup {Nowhere}
<1>1. current \in dirs \cup {Nowhere} /\ Now.req \in Names /\ Tree(dirs, Files)
  BY RunningFacts DEF CurrentPath, TypeOK
<1>2. UsingPath(current, Now.req) \in Text
  BY <1>1, TextOfName
<1>3. /\ Found(current) \in Files
      /\ Parent(Found(current)) = Parent(Walk(UsingPath(current, Now.req)))
  BY <1>1, <1>2, FoundIsFile DEF Found
<1>4. Found(current) \in Path /\ Parent(Found(current)) \in dirs
  BY <1>1, <1>3, ParentIsDirectory DEF Tree
<1> QED
  BY <1>1, <1>3, <1>4

\* A shared library leaves the working directory as it was.
LEMMA LoadDsoInv ==
  ASSUME IInv, LoadDso
  PROVE  IInv'
<1>1. TypeOK /\ Tree(dirs, Files) /\ Running({"require", "try"})
  BY DEF IInv, TypeOK, LoadDso
<1>2. /\ SameFrames(stack') /\ stack' # <<>> /\ state = "run"
      /\ UNCHANGED <<state, dirs, program, lost, callbacks>>
  BY <1>1, RunningFacts DEF LoadDso, tree
<1>3. PICK current \in CurrentPath :
        cwd' = Chdir(Chdir(cwd, Parent(UsingPath(current, Now.req))), current)
  BY DEF LoadDso
<1>4. cwd' \in dirs \cup {cwd, Nowhere}
  BY <1>3, ChdirType
<1>5. cwd \in dirs => cwd' = cwd
  <2>1. cwd \in dirs => current = cwd /\ Walk(cwd) = cwd
    BY <1>1, WalkToDirectory DEF CurrentPath
  <2> QED
    BY <1>3, <2>1 DEF Chdir
<1>6. TypeOK'
  BY <1>1, <1>2, <1>4 DEF TypeOK, SameFrames, Files
<1> QED
  BY <1>2, <1>5, <1>6, OtherHomes DEF IInv

\* A module begins where it is at home, and goes back to where it was required.
LEMMA LoadJsInv ==
  ASSUME IInv, LoadJs
  PROVE  IInv'
<1>1. /\ TypeOK /\ HomesExist /\ ModulesAbove /\ CwdFollowsStack /\ Tree(dirs, Files)
      /\ Running({"require", "try"}) /\ Len(stack) < MaxDepth
      /\ UNCHANGED <<state, dirs, program, lost, callbacks>>
  BY DEF IInv, TypeOK, LoadJs, tree
<1>2. PICK current \in CurrentPath :
        /\ Found(current) # <<>> /\ program[Found(current)] # Broken
        /\ cwd' = Chdir(cwd, Parent(UsingPath(current, Now.req)))
        /\ stack' = Append(Advance,
             [kind |-> "module", file |-> Found(current), todo |-> program[Found(current)],
              back |-> current, home |-> HomeOf(Found(current), Now.req)])
  BY DEF LoadJs
<1> DEFINE f == Found(current)
           home == HomeOf(f, Now.req)
           frame == [kind |-> "module", file |-> f, todo |-> program[f],
                     back |-> current, home |-> home]
           using == UsingPath(current, Now.req)
<1>3. /\ f \in Files /\ f \in Path /\ Parent(f) \in dirs /\ Parent(f) = Parent(Walk(using))
      /\ current \in dirs \cup {Nowhere}
  BY <1>1, <1>2, FoundFacts
<1>4. /\ state = "run" /\ stack # <<>> /\ Top \in Frame /\ Now.req \in Names
      /\ SameFrames(Advance) /\ Advance # <<>>
  BY <1>1, RunningFacts
<1>5. cwd' = home
  <2>1. CASE Now.req.abs /\ (OfDirectory(Now.req) \/ Walk(Parent(Now.req.path)) \notin dirs)
    BY <1>2, <2>1 DEF HomeOf, UsingPath
  <2>2. CASE Now.req.abs /\ ~OfDirectory(Now.req) /\ Walk(Parent(Now.req.path)) \in dirs
    <3> DEFINE p == Now.req.path
    <3>1. p \in Text /\ p # <<>> /\ using = p
      BY <1>1, <1>3, <1>4, <2>2, TextOfName DEF UsingPath
    <3>2. Parent(p) \in Text /\ Last(p) \in All /\ p = Append(Parent(p), Last(p))
      BY <3>1, Split DEF Text
    <3>3. Walk(Append(Parent(p), Last(p))) = Entered(Walk(Parent(p)), Last(p))
      BY <3>2, WalkOn DEF Text
    <3>4. Walk(p) = Append(Walk(Parent(p)), Last(p))
      BY <2>2, <3>2, <3>3 DEF Entered, OfDirectory
    <3>5. Walk(Parent(p)) \in Text
      BY <1>1, <3>2, WalkTwice
    <3>6. Parent(Walk(p)) = Walk(Parent(p))
      BY <3>2, <3>4, <3>5, Appended DEF Text
    <3>7. home = Walk(Parent(p))
      BY <1>3, <2>2, <3>1, <3>6 DEF HomeOf
    <3>8. cwd' = Walk(Parent(p))
      BY <1>2, <2>2, <3>1 DEF Chdir
    <3> QED
      BY <3>7, <3>8
  <2>3. CASE ~Now.req.abs
    <3>1. using = Walk(current \o Now.req.path) /\ current \o Now.req.path \in Text
      BY <1>1, <1>3, <1>4, <2>3, TextOfName DEF UsingPath, Normalize
    <3>2. Walk(using) = using
      BY <1>1, <3>1, WalkTwice
    <3>3. Parent(using) = Parent(f) /\ Walk(Parent(f)) = Parent(f)
      BY <1>1, <1>3, <3>2, WalkToDirectory
    <3>4. cwd' = Parent(f)
      BY <1>2, <1>3, <3>3 DEF Chdir
    <3> QED
      BY <2>3, <3>4 DEF HomeOf
  <2> QED
    BY <2>1, <2>2, <2>3
<1>6. home \in dirs \cup lost /\ cwd' \in dirs \cup {Nowhere}
  <2>1. home \in dirs \cup {cwd}
    BY <1>3, ChdirType DEF HomeOf
  <2>2. cwd \in dirs \cup {Nowhere} /\ Nowhere \in lost
    BY <1>1 DEF TypeOK, HomesExist
  <2> QED
    BY <1>5, <2>1, <2>2
<1>7. frame \in Frame
  <2>1. program[f] \in Seq(Statement)
    BY <1>1, <1>2, <1>3 DEF TypeOK
  <2>2. current \in Path \cup {Nowhere} /\ home \in Path \cup {Nowhere}
    BY <1>1, <1>3, <1>6 DEF TypeOK, Tree
  <2> HIDE DEF home
  <2> QED
    BY <1>3, <2>1, <2>2 DEF Frame
<1>8. frame.kind = "module" /\ frame.back = current /\ frame.home = home
  OBVIOUS
<1> HIDE DEF frame
<1> DEFINE n == Len(stack)
<1>9. /\ n \in Nat /\ n \in 1..n /\ DOMAIN stack = 1..n /\ n <= MaxDepth
  BY <1>1, <1>4, StackFacts DEF TypeOK
<1>10. /\ Advance \in Seq(Frame) /\ Len(Advance) = n
       /\ \A i \in 1..n : /\ Advance[i].kind = stack[i].kind
                          /\ Advance[i].home = stack[i].home
                          /\ Advance[i].back = stack[i].back
  BY <1>4 DEF SameFrames
<1>11. /\ stack' \in Seq(Frame) /\ stack' # <<>> /\ Len(stack') = n + 1
       /\ stack'[n + 1] = frame /\ DOMAIN stack' = 1..(n + 1)
       /\ \A i \in 1..n : stack'[i] = Advance[i]
  BY <1>2, <1>7, <1>10, AppendProperties, LenProperties DEF frame
<1>12. \A i \in 1..n : /\ stack'[i].kind = stack[i].kind
                       /\ stack'[i].home = stack[i].home
                       /\ stack'[i].back = stack[i].back
  BY <1>10, <1>11
<1>13. TypeOK'
  BY <1>1, <1>4, <1>6, <1>9, <1>11, DepthAssumption DEF TypeOK, Files
<1>14. HomesExist'
  <2>1. ASSUME NEW i \in 1..(n + 1)
        PROVE  stack'[i].home \in dirs' \cup lost'
    <3>1. CASE i = n + 1
      BY <1>1, <1>6, <1>8, <1>11, <3>1
    <3>2. CASE i # n + 1
      <4>1. i \in 1..n
        BY <1>9, <3>2
      <4> QED
        BY <1>1, <1>9, <1>12, <4>1 DEF HomesExist
    <3> QED
      BY <3>1, <3>2
  <2> QED
    BY <1>1, <1>11, <2>1 DEF HomesExist
<1>15. ModulesAbove'
  <2>1. ASSUME NEW i \in 1..(n + 1)
        PROVE  /\ stack'[i].kind = "module" <=> i > 1
               /\ i = 1 => stack'[i].home = Start
    <3>1. CASE i = n + 1
      BY <1>8, <1>9, <1>11, <3>1
    <3>2. CASE i # n + 1
      <4>1. i \in 1..n
        BY <1>9, <3>2
      <4> QED
        BY <1>1, <1>9, <1>12, <4>1 DEF ModulesAbove
    <3> QED
      BY <3>1, <3>2
  <2> QED
    BY <1>11, <2>1 DEF ModulesAbove
<1>16. CwdFollowsStack'
  <2>1. Top'.home = cwd' /\ stack' # <<>>
    BY <1>5, <1>8, <1>11 DEF Top, Last
  <2>2. ASSUME NEW i \in 1..(n + 1), i > 1, stack'[i - 1].home \notin lost
        PROVE  stack'[i].back = stack'[i - 1].home
    <3>1. i - 1 \in 1..n /\ stack[i - 1].home \notin lost
      BY <1>9, <1>12, <2>2
    <3>2. CASE i = n + 1
      <4>1. Top.home = stack[n].home /\ i - 1 = n
        BY <1>9, <3>2 DEF Top, Last
      <4>2. cwd = stack[n].home /\ cwd \in dirs
        BY <1>1, <1>4, <1>9, <3>1, <4>1 DEF CwdFollowsStack, HomesExist
      <4>3. current = cwd
        BY <4>2 DEF CurrentPath
      <4> QED
        BY <1>8, <1>9, <1>11, <1>12, <3>2, <4>1, <4>2, <4>3
    <3>3. CASE i # n + 1
      <4>1. i \in 1..n
        BY <1>9, <3>3
      <4>2. stack[i].back = stack[i - 1].home
        BY <1>1, <1>9, <2>2, <3>1, <4>1 DEF CwdFollowsStack
      <4> QED
        BY <1>12, <3>1, <4>1, <4>2
    <3> QED
      BY <3>2, <3>3
  <2> QED
    BY <1>1, <1>11, <2>1, <2>2 DEF CwdFollowsStack
<1> QED
  BY <1>13, <1>14, <1>15, <1>16 DEF IInv

\* A module that returns goes back to the home of what required it.
LEMMA ReturnInv ==
  ASSUME IInv, Return
  PROVE  IInv'
<1>1. /\ TypeOK /\ HomesExist /\ ModulesAbove /\ CwdFollowsStack /\ Tree(dirs, Files)
      /\ state = "run" /\ stack # <<>> /\ stack' = Parent(stack)
      /\ state' = (IF stack' = <<>> THEN "loop" ELSE "run")
      /\ cwd' = (IF Top.kind = "module" THEN Chdir(cwd, Top.back) ELSE cwd)
      /\ UNCHANGED <<dirs, program, lost, callbacks>>
  BY DEF IInv, TypeOK, Return, tree
<1> DEFINE n == Len(stack)
<1>2. n \in Nat /\ n \in 1..n /\ DOMAIN stack = 1..n /\ stack \in Seq(Frame) /\ n <= MaxDepth
      /\ Top = stack[n]
  BY <1>1, StackFacts DEF TypeOK, Top, Last
<1>3. /\ stack' \in Seq(Frame) /\ Len(stack') = n - 1 /\ DOMAIN stack' = 1..(n - 1)
      /\ stack' = <<>> <=> n = 1
      /\ \A i \in 1..(n - 1) : stack'[i] = stack[i]
  <2>1. stack' \in Seq(Frame) /\ Len(stack') = n - 1
    BY <1>1, <1>2, Split
  <2>2. stack' = SubSeq(stack, 1, n - 1) /\ n - 1 \in 0..n
    BY <1>1, <1>2 DEF Parent
  <2>3. \A i \in 1..(n - 1) : stack'[i] = stack[i]
    BY <1>2, <2>2, SubSeqProperties, ElementOfSeq
  <2>4. DOMAIN stack' = 1..(n - 1) /\ (stack' = <<>> <=> n = 1)
    BY <1>2, <2>1, LenProperties, EmptySeq
  <2> QED
    BY <2>1, <2>3, <2>4
<1>4. cwd' \in dirs \cup {Nowhere}
  <2>1. Chdir(cwd, Top.back) \in dirs \cup {cwd}
    BY ChdirType
  <2> QED
    BY <1>1, <2>1 DEF TypeOK
<1>5. TypeOK'
  BY <1>1, <1>2, <1>3, <1>4, DepthAssumption DEF TypeOK, Files
<1>6. HomesExist' /\ ModulesAbove'
  BY <1>1, <1>2, <1>3 DEF HomesExist, ModulesAbove
<1>7. CwdFollowsStack'
  <2>1. ASSUME NEW i \in 1..(n - 1), i > 1, stack'[i - 1].home \notin lost
        PROVE  stack'[i].back = stack'[i - 1].home
    <3>1. i \in 1..n /\ i - 1 \in 1..(n - 1)
      BY <1>2, <2>1
    <3> QED
      BY <1>1, <1>2, <1>3, <2>1, <3>1 DEF CwdFollowsStack
  <2>2. CASE n = 1
    <3>1. Top.kind # "module" /\ Top.home = Start
      BY <1>1, <1>2, <2>2 DEF ModulesAbove
    <3>2. Start \notin lost => cwd' = Start
      BY <1>1, <3>1 DEF CwdFollowsStack
    <3> QED
      BY <1>1, <1>3, <2>1, <2>2, <3>2 DEF CwdFollowsStack
  <2>3. CASE n # 1
    <3>1. n > 1 /\ n - 1 \in 1..(n - 1) /\ n - 1 \in 1..n /\ Top.kind = "module"
      BY <1>1, <1>2, <2>3 DEF ModulesAbove
    <3>2. Top' = stack[n - 1]
      BY <1>3, <3>1 DEF Top, Last
    <3>3. ASSUME stack[n - 1].home \notin lost
          PROVE  cwd' = stack[n - 1].home
      <4>1. Top.back = stack[n - 1].home /\ stack[n - 1].home \in dirs
        BY <1>1, <1>2, <3>1, <3>3 DEF CwdFollowsStack, HomesExist
      <4>2. Walk(Top.back) = Top.back
        BY <1>1, <4>1, WalkToDirectory
      <4> QED
        BY <1>1, <3>1, <4>1, <4>2 DEF Chdir
    <3> QED
      BY <1>1, <1>3, <2>1, <2>3, <3>2, <3>3 DEF CwdFollowsStack
  <2> QED
    BY <2>2, <2>3
<1> QED
  BY <1>5, <1>6, <1>7 DEF IInv

LEMMA CallbackInv ==
  ASSUME IInv, Callback
  PROVE  IInv'
<1>1. /\ TypeOK /\ HomesExist /\ CwdFollowsStack /\ Tree(dirs, Files)
      /\ state = "loop" /\ stack = <<>> /\ state' = "run"
      /\ UNCHANGED <<dirs, program, lost, cwd>>
  BY DEF IInv, TypeOK, Callback, tree
<1>2. PICK c \in callbacks :
        /\ callbacks' = callbacks \ {c}
        /\ stack' = <<[kind |-> "callback", file |-> c.file,
                       todo |-> <<[op |-> "require", req |-> c.req]>>,
                       back |-> Start, home |-> Start]>>
  BY DEF Callback
<1> DEFINE todo == <<[op |-> "require", req |-> c.req]>>
           frame == [kind |-> "callback", file |-> c.file, todo |-> todo,
                     back |-> Start, home |-> Start]
<1>3. c.file \in Path /\ c.req \in Names /\ Start \in Path \cup {Nowhere}
  BY <1>1 DEF TypeOK, HomesExist, Tree
<1>4. todo \in Seq(Statement)
  <2>1. [op |-> "require", req |-> c.req] \in Statement
    BY <1>3 DEF Statement, Ops
  <2> QED
    BY <2>1
<1> HIDE DEF todo
<1>5. frame \in Frame /\ frame.kind = "callback" /\ frame.home = Start
  BY <1>3, <1>4 DEF Frame
<1> HIDE DEF frame
<1>6. stack' = <<frame>>
  BY <1>2 DEF frame, todo
<1>7. stack' \in Seq(Frame) /\ Len(stack') = 1 /\ stack'[1] = frame /\ DOMAIN stack' = {1}
      /\ stack' # <<>>
  BY <1>5, <1>6
<1>8. TypeOK'
  BY <1>1, <1>2, <1>7, DepthAssumption DEF TypeOK, Files
<1>9. HomesExist' /\ ModulesAbove'
  BY <1>1, <1>5, <1>7 DEF HomesExist, ModulesAbove
<1>10. CwdFollowsStack'
  <2>1. Top' = frame
    BY <1>7 DEF Top, Last
  <2>2. Start \notin lost => cwd = Start
    BY <1>1 DEF CwdFollowsStack
  <2> QED
    BY <1>1, <1>5, <1>7, <2>1, <2>2 DEF CwdFollowsStack
<1> QED
  BY <1>8, <1>9, <1>10 DEF IInv

-----------------------------------------------------------------------------
(* The steps that change the tree.                                         *)

\* A sequence begins with another one when its first elements are that one's.
LEMMA PrefixIs ==
  ASSUME NEW p \in Text, NEW x \in Text
  PROVE  /\ Len(p) \in Nat /\ Len(x) \in Nat
         /\ IsPrefix(p, x) <=> Len(p) <= Len(x) /\ SubSeq(x, 1, Len(p)) = p
         /\ IsPrefix(p, x) <=> Len(p) <= Len(x) /\ \A i \in 1..Len(p) : x[i] = p[i]
<1>1. Len(p) \in Nat /\ Len(x) \in Nat /\ SubSeq(p, 1, Len(p)) = p
  BY Beginnings DEF Text
<1>2. IsPrefix(p, x) <=> Len(p) <= Len(x) /\ SubSeq(x, 1, Len(p)) = p
  BY <1>1 DEF IsPrefix
<1>3. ASSUME Len(p) <= Len(x)
      PROVE  SubSeq(x, 1, Len(p)) = p <=> \A i \in 1..Len(p) : x[i] = p[i]
  <2>1. Len(p) \in 0..Len(x) /\ \A i \in 1..Len(p) : x[i] \in All
    BY <1>1, <1>3, ElementOfSeq DEF Text
  <2>2. /\ SubSeq(x, 1, Len(p)) \in Text /\ Len(SubSeq(x, 1, Len(p))) = Len(p)
        /\ \A i \in 1..Len(p) : SubSeq(x, 1, Len(p))[i] = x[i]
    BY <1>1, <2>1, SubSeqProperties DEF Text
  <2> QED
    BY <1>1, <2>2, SeqEqual DEF Text
<1> QED
  BY <1>1, <1>2, <1>3

\* What begins with p and is longer is under p.
LEMMA Under ==
  ASSUME Tree(dirs, Files), NEW p \in Path, NEW x \in dirs \cup Files,
         IsPrefix(p, x), x # p
  PROVE  p \in dirs /\ x \in Within(p)
<1>1. /\ x \in Path /\ p \in Text /\ x \in Text
      /\ \A n \in 0..(Len(x) - 1) : SubSeq(x, 1, n) \in dirs
  BY SeqMonotonic DEF Tree, Path, Text, All
<1>2. Len(p) \in Nat /\ Len(x) \in Nat /\ Len(p) <= Len(x) /\ SubSeq(x, 1, Len(p)) = p
  BY <1>1, PrefixIs
<1>3. Len(p) # Len(x)
  BY <1>1, <1>2, SubSeqFull DEF Text
<1>4. Len(p) \in 0..(Len(x) - 1)
  BY <1>2, <1>3
<1> QED
  BY <1>1, <1>2, <1>4 DEF Within

\* A name is looked up in a directory that exists, whatever it then finds.
LEMMA NamedFacts ==
  ASSUME TypeOK, NEW req \in Names, NEW p \in Named(cwd, req)
  PROVE  /\ p \in Path /\ p # <<>>
         /\ \A n \in 0..(Len(p) - 1) : SubSeq(p, 1, n) \in dirs
<1> DEFINE d == Walk(From(cwd, req) \o Parent(req.path))
           c == Last(req.path)
<1>1. d \in dirs /\ c \notin {Up, Here} /\ p = Append(d, c)
  BY DEF Named, OfDirectory
<1>2. c \in Components
  <2>1. req.path \in Seq(Components \cup {Up, Here}) /\ req.path # <<>>
    BY DEF Names
  <2>2. c \in Components \cup {Up, Here}
    BY <2>1, Split
  <2> QED
    BY <1>1, <2>2
<1> HIDE DEF d, c
<1>3. d \in Path /\ \A n \in 0..(Len(d) - 1) : SubSeq(d, 1, n) \in dirs
  BY <1>1 DEF TypeOK, Tree
<1>4. /\ p \in Path /\ p # <<>> /\ Len(p) = Len(d) + 1 /\ Len(d) \in Nat
      /\ \A i \in 1..Len(d) : p[i] = d[i] /\ d[i] \in Components
  BY <1>1, <1>2, <1>3, AppendProperties, LenProperties, ElementOfSeq DEF Path
<1>5. ASSUME NEW n \in 0..(Len(p) - 1)
      PROVE  SubSeq(p, 1, n) \in dirs
  <2>1. n \in 0..Len(d)
    BY <1>4
  <2>2. /\ SubSeq(p, 1, n) \in Path /\ Len(SubSeq(p, 1, n)) = n
        /\ \A i \in 1..n : SubSeq(p, 1, n)[i] = p[i]
    BY <1>4, <2>1, SubSeqProperties DEF Path
  <2>3. /\ SubSeq(d, 1, n) \in Path /\ Len(SubSeq(d, 1, n)) = n
        /\ \A i \in 1..n : SubSeq(d, 1, n)[i] = d[i]
    BY <1>4, <2>1, SubSeqProperties DEF Path
  <2>4. SubSeq(p, 1, n) = SubSeq(d, 1, n)
    BY <1>4, <2>1, <2>2, <2>3, SeqEqual DEF Path
  <2>5. CASE n = Len(d)
    BY <1>1, <1>3, <2>4, <2>5, SubSeqFull DEF Path
  <2>6. CASE n # Len(d)
    <3>1. n \in 0..(Len(d) - 1)
      BY <1>4, <2>1, <2>6
    <3> QED
      BY <1>3, <2>4, <3>1
  <2> QED
    BY <2>5, <2>6
<1> QED
  BY <1>4, <1>5

\* A statement that changes the tree, where it keeps it a tree.
LEMMA TreeStatement ==
  ASSUME IInv, NEW ops, Running(ops), stack' = Advance, UNCHANGED <<state, callbacks>>,
         Tree(dirs', Files'), \A f \in Files' : program'[f] \in Seq(Statement) \cup {Broken},
         cwd' \in dirs' \cup {Nowhere}, lost' \subseteq Path \cup {Nowhere},
         lost \subseteq lost', dirs \ lost' \subseteq dirs', cwd \in dirs \ lost' => cwd' = cwd
  PROVE  IInv'
<1>1. TypeOK /\ SameFrames(stack') /\ stack' # <<>> /\ state = "run"
  BY RunningFacts DEF IInv
<1>2. TypeOK'
  BY <1>1 DEF TypeOK, SameFrames
<1> QED
  BY <1>1, <1>2, OtherHomes DEF IInv

LEMMA RefusedInv ==
  ASSUME IInv, NEW op, Refused(op)
  PROVE  IInv'
<1>1. TypeOK /\ Running({op}) /\ stack' \in {Advance, Abort}
      /\ UNCHANGED <<state, tree, cwd, callbacks>>
  BY DEF IInv, Refused
<1> QED
  BY <1>1, RunningFacts, OwnStatement DEF TypeOK

LEMMA CreateInv ==
  ASSUME IInv, Create
  PROVE  IInv'
<1>1. CASE Refused("mkdir")
  BY <1>1, RefusedInv
<1>2. CASE ~Refused("mkdir")
  <2>1. /\ TypeOK /\ Tree(dirs, Files) /\ Running({"mkdir"}) /\ stack' = Advance
        /\ UNCHANGED <<state, callbacks, cwd>>
    BY <1>2 DEF IInv, TypeOK, Create, Done
  <2>2. PICK p \in Named(cwd, Now.req) :
          p \notin dirs \cup Files /\ dirs' = dirs \cup {p} /\ UNCHANGED <<program, lost>>
    BY <1>2 DEF Create, Mkdir
  <2>3. p \in Path /\ \A n \in 0..(Len(p) - 1) : SubSeq(p, 1, n) \in dirs
    BY <2>1, <2>2, RunningFacts, NamedFacts
  <2>4. Tree(dirs', Files')
    BY <2>1, <2>2, <2>3 DEF Tree, Files
  <2> QED
    BY <2>1, <2>2, <2>4, TreeStatement DEF TypeOK, Files
<1> QED
  BY <1>1, <1>2

LEMMA RemoveDirInv ==
  ASSUME IInv, RemoveDir
  PROVE  IInv'
<1>1. CASE Refused("rmdir")
  BY <1>1, RefusedInv
<1>2. CASE ~Refused("rmdir")
  <2>1. /\ TypeOK /\ Tree(dirs, Files) /\ Running({"rmdir"}) /\ stack' = Advance
        /\ UNCHANGED <<state, callbacks>>
    BY <1>2 DEF IInv, TypeOK, RemoveDir, Done
  <2>2. PICK p \in Named(cwd, Now.req) :
          /\ p \in dirs /\ Within(p) = {}
          /\ dirs' = dirs \ {p} /\ lost' = lost \cup {p} /\ program' = program
          /\ cwd' = IF cwd = p THEN Nowhere ELSE cwd
    BY <1>2 DEF RemoveDir, Rmdir
  <2>3. p \in Path /\ p # <<>>
    BY <2>1, <2>2, RunningFacts, NamedFacts
  <2>4. ASSUME NEW x \in dirs \cup Files, NEW n \in 0..(Len(x) - 1)
        PROVE  SubSeq(x, 1, n) \in dirs \ {p}
    <3>1. SubSeq(x, 1, n) \in dirs /\ x \in Path /\ x \in Text /\ p \in Text
      BY <2>1, <2>3, SeqMonotonic DEF Tree, Path, Text, All
    <3>2. Len(x) \in Nat /\ Len(SubSeq(x, 1, n)) = n
      BY <3>1, Beginnings DEF Text
    <3>3. SubSeq(x, 1, n) = p => IsPrefix(p, x) /\ x # p
      BY <3>1, <3>2, PrefixIs
    <3> QED
      BY <2>1, <2>2, <2>3, <3>1, <3>3, Under
  <2>5. Tree(dirs', Files')
    BY <2>1, <2>2, <2>3, <2>4 DEF Tree, Files
  <2>6. /\ \A f \in Files' : program'[f] \in Seq(Statement) \cup {Broken}
        /\ cwd' \in dirs' \cup {Nowhere} /\ lost' \subseteq Path \cup {Nowhere}
        /\ lost \subseteq lost' /\ dirs \ lost' \subseteq dirs'
        /\ cwd \in dirs \ lost' => cwd' = cwd
    BY <2>1, <2>2, <2>3 DEF TypeOK, Files
  <2> QED
    BY <2>1, <2>5, <2>6, TreeStatement
<1> QED
  BY <1>1, <1>2

\* Changing the beginning of a path, and back.
LEMMA ReplacedFacts ==
  ASSUME NEW p \in Path, NEW q \in Path, NEW x \in Path, IsPrefix(p, x)
  PROVE  /\ Replaced(x, p, q) \in Path /\ IsPrefix(q, Replaced(x, p, q))
         /\ Len(Replaced(x, p, q)) = Len(q) + Len(x) - Len(p)
         /\ \A i \in 1..(Len(q) + Len(x) - Len(p)) :
              Replaced(x, p, q)[i] = IF i <= Len(q) THEN q[i] ELSE x[i - Len(q) + Len(p)]
         /\ Replaced(Replaced(x, p, q), q, p) = x
<1>1. Path \subseteq Text
  BY SeqMonotonic DEF Path, Text, All
<1>2. \A y, z \in Path :
        /\ Len(y) \in Nat /\ Len(z) \in Nat
        /\ IsPrefix(y, z) <=> Len(y) <= Len(z) /\ \A i \in 1..Len(y) : z[i] = y[i]
  BY <1>1, PrefixIs
<1>3. /\ Len(p) \in Nat /\ Len(q) \in Nat /\ Len(x) \in Nat /\ Len(p) <= Len(x)
      /\ \A i \in 1..Len(p) : x[i] = p[i]
  BY <1>2
<1>4. ASSUME NEW u \in Path, NEW v \in Path, NEW y \in Path, Len(u) <= Len(y)
      PROVE  /\ v \o SubSeq(y, Len(u) + 1, Len(y)) \in Path
             /\ Len(v \o SubSeq(y, Len(u) + 1, Len(y))) = Len(v) + Len(y) - Len(u)
             /\ \A i \in 1..(Len(v) + Len(y) - Len(u)) :
                  (v \o SubSeq(y, Len(u) + 1, Len(y)))[i] =
                    IF i <= Len(v) THEN v[i] ELSE y[i - Len(v) + Len(u)]
  <2>1. Len(u) \in Nat /\ Len(v) \in Nat /\ Len(y) \in Nat
    BY <1>2
  <2> DEFINE rest == SubSeq(y, Len(u) + 1, Len(y))
  <2>2. \A i \in (Len(u) + 1)..Len(y) : y[i] \in Components
    BY <2>1, ElementOfSeq DEF Path
  <2>3. /\ rest \in Path /\ Len(rest) = Len(y) - Len(u)
        /\ \A i \in 1..(Len(y) - Len(u)) : rest[i] = y[Len(u) + i]
    <3>1. /\ rest \in Seq(Components)
          /\ Len(rest) = IF Len(u) + 1 <= Len(y) THEN Len(y) - (Len(u) + 1) + 1 ELSE 0
          /\ \A i \in 1..(Len(y) - (Len(u) + 1) + 1) : rest[i] = y[Len(u) + 1 + i - 1]
      BY <2>1, <2>2, SubSeqProperties
    <3> HIDE DEF rest
    <3> QED
      BY <1>4, <2>1, <3>1 DEF Path
  <2> HIDE DEF rest
  <2>4. /\ v \o rest \in Path /\ Len(v \o rest) = Len(v) + Len(rest)
        /\ \A i \in 1..(Len(v) + Len(rest)) :
             (v \o rest)[i] = IF i <= Len(v) THEN v[i] ELSE rest[i - Len(v)]
    BY <2>3, ConcatProperties DEF Path
  <2>5. Len(v) + Len(rest) = Len(v) + Len(y) - Len(u)
    BY <2>1, <2>3
  <2>6. ASSUME NEW i \in 1..(Len(v) + Len(y) - Len(u))
        PROVE  (v \o rest)[i] = IF i <= Len(v) THEN v[i] ELSE y[i - Len(v) + Len(u)]
    <3>1. (v \o rest)[i] = IF i <= Len(v) THEN v[i] ELSE rest[i - Len(v)]
      BY <2>4, <2>5
    <3>2. ~(i <= Len(v)) => /\ i - Len(v) \in 1..(Len(y) - Len(u))
                            /\ Len(u) + (i - Len(v)) = i - Len(v) + Len(u)
      BY <2>1
    <3> QED
      BY <2>3, <3>1, <3>2
  <2> QED
    BY <2>4, <2>5, <2>6 DEF rest
<1> DEFINE r == Replaced(x, p, q)
<1>5. /\ r \in Path /\ Len(r) = Len(q) + Len(x) - Len(p)
      /\ \A i \in 1..(Len(q) + Len(x) - Len(p)) :
           r[i] = IF i <= Len(q) THEN q[i] ELSE x[i - Len(q) + Len(p)]
  BY <1>3, <1>4 DEF Replaced
<1> HIDE DEF r
<1>6. IsPrefix(q, r)
  <2>1. Len(q) <= Len(r) /\ \A i \in 1..Len(q) : r[i] = q[i]
    BY <1>3, <1>5
  <2> QED
    BY <1>2, <1>5, <2>1
<1> DEFINE back == Replaced(r, q, p)
<1>7. /\ back \in Path /\ Len(back) = Len(p) + Len(r) - Len(q)
      /\ \A i \in 1..(Len(p) + Len(r) - Len(q)) :
           back[i] = IF i <= Len(p) THEN p[i] ELSE r[i - Len(p) + Len(q)]
  <2>1. Len(q) <= Len(r)
    BY <1>3, <1>5
  <2> QED
    <3>1. back = p \o SubSeq(r, Len(q) + 1, Len(r))
      BY <1>6 DEF Replaced
    <3> HIDE DEF back
    <3>2. /\ p \o SubSeq(r, Len(q) + 1, Len(r)) \in Path
          /\ Len(p \o SubSeq(r, Len(q) + 1, Len(r))) = Len(p) + Len(r) - Len(q)
          /\ \A i \in 1..(Len(p) + Len(r) - Len(q)) :
               (p \o SubSeq(r, Len(q) + 1, Len(r)))[i] =
                 IF i <= Len(p) THEN p[i] ELSE r[i - Len(p) + Len(q)]
      BY <1>4, <1>5, <2>1
    <3> QED
      BY <3>1, <3>2
<1> HIDE DEF back
<1>8. Len(back) = Len(x)
  BY <1>3, <1>5, <1>7
<1>9. ASSUME NEW i \in 1..Len(x)
      PROVE  back[i] = x[i]
  <2>1. back[i] = IF i <= Len(p) THEN p[i] ELSE r[i - Len(p) + Len(q)]
    BY <1>3, <1>5, <1>7
  <2>2. CASE i <= Len(p)
    BY <1>3, <2>1, <2>2
  <2>3. CASE ~(i <= Len(p))
    <3> DEFINE k == i - Len(p) + Len(q)
    <3>1. /\ k \in 1..(Len(q) + Len(x) - Len(p)) /\ ~(k <= Len(q))
          /\ k - Len(q) + Len(p) = i
      BY <1>3, <2>3
    <3> HIDE DEF k
    <3>2. r[k] = x[i]
      BY <1>5, <3>1
    <3> QED
      BY <2>1, <2>3, <3>2 DEF k
  <2> QED
    BY <2>2, <2>3
<1>10. back = x
  BY <1>7, <1>8, <1>9, SeqEqual DEF Path
<1> QED
  BY <1>5, <1>6, <1>10 DEF r, back

\* A path without the beginning p stays; so do the beginnings of it.
LEMMA BeginningOf ==
  ASSUME NEW x \in Path, NEW p \in Path, NEW n \in 0..Len(x)
  PROVE  /\ SubSeq(x, 1, n) \in Path /\ Len(SubSeq(x, 1, n)) = n /\ Len(x) \in Nat
         /\ \A i \in 1..n : SubSeq(x, 1, n)[i] = x[i]
         /\ IsPrefix(SubSeq(x, 1, n), x)
         /\ IsPrefix(p, SubSeq(x, 1, n)) => IsPrefix(p, x)
<1> DEFINE y == SubSeq(x, 1, n)
<1>1. Path \subseteq Text
  BY SeqMonotonic DEF Path, Text, All
<1>2. Len(x) \in Nat /\ y \in Path /\ Len(y) = n
  BY Beginnings DEF Path
<1>3. \A i \in 1..n : y[i] = x[i]
  <2>1. \A i \in 1..n : x[i] \in Components
    BY <1>2, ElementOfSeq DEF Path
  <2> QED
    BY <1>2, <2>1, SubSeqProperties
<1> HIDE DEF y
<1>4. \A u, v \in Path :
        /\ Len(u) \in Nat /\ Len(v) \in Nat
        /\ IsPrefix(u, v) <=> Len(u) <= Len(v) /\ \A i \in 1..Len(u) : v[i] = u[i]
  BY <1>1, PrefixIs
<1>5. IsPrefix(y, x)
  <2>1. Len(y) <= Len(x) /\ \A i \in 1..Len(y) : x[i] = y[i]
    BY <1>2, <1>3
  <2> QED
    BY <1>2, <1>4, <2>1
<1>6. ASSUME IsPrefix(p, y)
      PROVE  IsPrefix(p, x)
  <2>1. Len(p) \in Nat /\ Len(p) <= Len(y) /\ \A i \in 1..Len(p) : y[i] = p[i]
    BY <1>2, <1>4, <1>6
  <2>2. Len(p) <= Len(x) /\ \A i \in 1..Len(p) : x[i] = p[i]
    BY <1>2, <1>3, <2>1
  <2> QED
    BY <1>4, <2>2
<1> QED
  BY <1>2, <1>3, <1>5, <1>6 DEF y

\* What a rename does to a path that stays or moves, and back.
LEMMA Renamed ==
  ASSUME Tree(dirs, Files), NEW p \in Path, NEW q \in Path, CanTake(p, q),
         NEW x \in (dirs \cup Files) \ {q}
  PROVE  /\ x \in Path /\ Replaced(x, p, q) \in Path
         /\ ~IsPrefix(q, x)
         /\ Replaced(Replaced(x, p, q), q, p) = x
<1>1. x \in Path /\ dirs \cap Files = {}
  BY DEF Tree
<1>2. ~IsPrefix(q, x)
  <2> SUFFICES ASSUME IsPrefix(q, x) PROVE FALSE
    OBVIOUS
  <2>1. q \in dirs /\ x \in Within(q)
    BY Under
  <2> QED
    BY <2>1 DEF CanTake
<1>3. CASE IsPrefix(p, x)
  BY <1>1, <1>2, <1>3, ReplacedFacts
<1>4. CASE ~IsPrefix(p, x)
  BY <1>1, <1>2, <1>4 DEF Replaced
<1> QED
  BY <1>3, <1>4

\* A file or directory that a rename moves is in a directory again.
LEMMA MovedInDirectory ==
  ASSUME Tree(dirs, Files), NEW p \in Path, NEW q \in Path, CanTake(p, q),
         \A n \in 0..(Len(q) - 1) : SubSeq(q, 1, n) \in dirs,
         NEW x \in (dirs \cup Files) \ {q}, NEW n \in 0..(Len(Replaced(x, p, q)) - 1)
  PROVE  \E y \in dirs \ {q} : SubSeq(Replaced(x, p, q), 1, n) = Replaced(y, p, q)
<1>1. /\ x \in Path /\ ~IsPrefix(q, x) /\ dirs \cap Files = {}
      /\ \A k \in 0..(Len(x) - 1) : SubSeq(x, 1, k) \in dirs
  BY Renamed DEF Tree
<1>2. Len(x) \in Nat /\ Len(p) \in Nat /\ Len(q) \in Nat
  BY <1>1, LenProperties DEF Path
<1>3. CASE ~IsPrefix(p, x)
  <2>1. Replaced(x, p, q) = x /\ n \in 0..(Len(x) - 1) /\ n \in 0..Len(x)
    BY <1>2, <1>3 DEF Replaced
  <2> DEFINE y == SubSeq(x, 1, n)
  <2>2. y \in dirs /\ IsPrefix(y, x) /\ ~IsPrefix(p, y)
    BY <1>1, <1>3, <2>1, BeginningOf
  <2>3. y # q /\ Replaced(y, p, q) = y
    BY <1>1, <2>2 DEF Replaced
  <2> QED
    BY <2>1, <2>2, <2>3
<1>4. CASE IsPrefix(p, x)
  <2> DEFINE r == Replaced(x, p, q)
  <2>1. /\ r \in Path /\ Len(r) = Len(q) + Len(x) - Len(p)
        /\ \A i \in 1..(Len(q) + Len(x) - Len(p)) :
             r[i] = IF i <= Len(q) THEN q[i] ELSE x[i - Len(q) + Len(p)]
    BY <1>1, <1>4, ReplacedFacts
  <2>2. Len(p) <= Len(x) /\ \A i \in 1..Len(p) : x[i] = p[i]
    <3>1. x \in Text /\ p \in Text
      BY <1>1, SeqMonotonic DEF Path, Text, All
    <3> QED
      BY <1>4, <3>1, PrefixIs
  <2>3. n \in 0..(Len(r) - 1) /\ n \in 0..Len(r)
    BY <1>2, <2>1
  <2> DEFINE b == SubSeq(r, 1, n)
  <2>4. b \in Path /\ Len(b) = n /\ \A i \in 1..n : b[i] = r[i]
    BY <2>1, <2>3, BeginningOf
  <2>5. CASE n < Len(q)
    <3> DEFINE y == SubSeq(q, 1, n)
    <3>1. n \in 0..(Len(q) - 1) /\ n \in 0..Len(q)
      BY <1>2, <2>3, <2>5
    <3>2. /\ y \in dirs /\ y \in Path /\ Len(y) = n /\ \A i \in 1..n : y[i] = q[i]
          /\ IsPrefix(p, y) => IsPrefix(p, q)
      BY <3>1, BeginningOf
    <3>3. b = y
      <4> HIDE DEF r, b, y
      <4>1. ASSUME NEW i \in 1..n
            PROVE  b[i] = y[i]
        <5>1. i <= Len(q) /\ i \in 1..(Len(q) + Len(x) - Len(p))
          BY <1>2, <2>1, <2>3, <2>5
        <5>2. r[i] = q[i]
          BY <2>1, <5>1
        <5> QED
          BY <2>4, <3>2, <5>2
      <4> QED
        BY <2>4, <3>2, <4>1, SeqEqual DEF Path
    <3>4. y # q
      BY <1>2, <2>5, <3>2
    <3>5. ~IsPrefix(p, y)
      <4>1. CASE p \in dirs /\ ~IsPrefix(p, q)
        BY <3>2, <4>1
      <4>2. CASE p \in Files
        BY <1>1, <3>2, <4>2, Under
      <4> QED
        BY <4>1, <4>2 DEF CanTake
    <3> QED
      BY <3>2, <3>3, <3>4, <3>5 DEF Replaced
  <2>6. CASE ~(n < Len(q))
    <3> DEFINE m == n - Len(q) + Len(p)
               y == SubSeq(x, 1, m)
    <3>1. m \in 0..(Len(x) - 1) /\ m \in 0..Len(x) /\ Len(p) <= m
      BY <1>2, <2>1, <2>2, <2>3, <2>6
    <3>2. /\ y \in dirs /\ y \in Path /\ Len(y) = m /\ \A i \in 1..m : y[i] = x[i]
          /\ IsPrefix(y, x)
      <4> HIDE DEF m
      <4> QED
        BY <1>1, <3>1, BeginningOf
    <3>3. IsPrefix(p, y)
      <4> HIDE DEF y, m
      <4>1. Len(p) <= Len(y) /\ \A i \in 1..Len(p) : y[i] = p[i]
        BY <1>2, <2>2, <3>1, <3>2
      <4>2. p \in Text /\ y \in Text
        BY <3>2, SeqMonotonic DEF Path, Text, All
      <4> QED
        BY <4>1, <4>2, PrefixIs
    <3>4. y # q
      BY <1>1, <3>2
    <3> DEFINE t == Replaced(y, p, q)
    <3>5. /\ t \in Path /\ Len(t) = Len(q) + Len(y) - Len(p)
          /\ \A i \in 1..(Len(q) + Len(y) - Len(p)) :
               t[i] = IF i <= Len(q) THEN q[i] ELSE y[i - Len(q) + Len(p)]
      BY <3>2, <3>3, ReplacedFacts
    <3>6. t = b
      <4> HIDE DEF t, y, r, b
      <4>1. Len(t) = n
        BY <1>2, <2>3, <3>2, <3>5
      <4>2. ASSUME NEW i \in 1..n
            PROVE  t[i] = b[i]
        <5>1. i \in 1..Len(q) + Len(y) - Len(p) /\ i \in 1..(Len(q) + Len(x) - Len(p))
          BY <1>2, <2>1, <2>3, <3>2
        <5>2. /\ t[i] = IF i <= Len(q) THEN q[i] ELSE y[i - Len(q) + Len(p)]
              /\ b[i] = IF i <= Len(q) THEN q[i] ELSE x[i - Len(q) + Len(p)]
          BY <2>1, <2>4, <3>5, <5>1
        <5>3. ~(i <= Len(q)) => y[i - Len(q) + Len(p)] = x[i - Len(q) + Len(p)]
          <6>1. ~(i <= Len(q)) => i - Len(q) + Len(p) \in 1..m
            BY <1>2, <2>3
          <6> QED
            BY <3>2, <6>1
        <5> QED
          BY <5>2, <5>3
      <4> QED
        BY <2>4, <3>5, <4>1, <4>2, SeqEqual DEF Path
    <3> QED
      BY <3>2, <3>4, <3>6
  <2> QED
    BY <2>5, <2>6
<1> QED
  BY <1>3, <1>4

LEMMA MvInv ==
  ASSUME IInv, Mv
  PROVE  IInv'
<1>1. CASE Refused("mv")
  BY <1>1, RefusedInv
<1>2. CASE ~Refused("mv")
  <2>1. /\ TypeOK /\ Tree(dirs, Files) /\ Running({"mv"}) /\ stack' = Advance
        /\ UNCHANGED <<state, callbacks>>
    BY <1>2 DEF IInv, TypeOK, Mv, Done
  <2>2. Now.req \in Names /\ Now.to \in Names
    BY <2>1, RunningFacts
  <2>3. PICK p \in Named(cwd, Now.req), q \in Named(cwd, Now.to) :
          /\ CanTake(p, q)
          /\ dirs' = {Replaced(x, p, q) : x \in dirs \ {q}}
          /\ program' = [f \in {Replaced(x, p, q) : x \in Files \ {q}} |->
                           program[Replaced(f, q, p)]]
          /\ lost' = lost \cup {x \in dirs : x = q \/ IsPrefix(p, x)}
          /\ cwd' = IF cwd = q THEN Nowhere ELSE Replaced(cwd, p, q)
    BY <1>2 DEF Mv, Rename
  <2>4. /\ p \in Path /\ p # <<>> /\ q \in Path /\ q # <<>>
        /\ \A n \in 0..(Len(q) - 1) : SubSeq(q, 1, n) \in dirs
    BY <2>1, <2>2, <2>3, NamedFacts
  <2>5. Files' = {Replaced(x, p, q) : x \in Files \ {q}}
    BY <2>3 DEF Files
  <2>6. \A x \in (dirs \cup Files) \ {q} :
          /\ x \in Path /\ Replaced(x, p, q) \in Path
          /\ Replaced(Replaced(x, p, q), q, p) = x
    BY <2>1, <2>3, <2>4, Renamed
  <2>7. \A x \in dirs \ {q} : ~IsPrefix(p, x) => Replaced(x, p, q) = x /\ x \in dirs'
    BY <2>3 DEF Replaced
  <2>8. \A x \in {<<>>, Nowhere} : ~IsPrefix(p, x)
    <3>1. p \in Text /\ <<>> \in Text /\ Nowhere \in Text
      <4>1. Gone \in All
        BY DEF All
      <4>2. <<Gone>> \in Seq(All)
        BY <4>1
      <4> QED
        BY <2>4, <4>2, SeqMonotonic, EmptySeq DEF Path, Text, All, Nowhere
    <3>2. Len(p) \in Nat /\ Len(p) # 0 /\ p[1] \in Components
      BY <2>4, LenProperties, EmptySeq, ElementOfSeq DEF Path
    <3>3. Len(<<>>) = 0 /\ Nowhere[1] = Gone
      BY DEF Nowhere
    <3>4. p[1] # Nowhere[1]
      BY <3>2, <3>3, NamesAssumption
    <3>5. ~IsPrefix(p, <<>>)
      BY <3>1, <3>2, <3>3, PrefixIs
    <3>6. ~IsPrefix(p, Nowhere)
      BY <3>1, <3>2, <3>4, PrefixIs
    <3> QED
      BY <3>5, <3>6
  <2>9. Tree(dirs', Files')
    <3>1. dirs' \subseteq Path /\ Files' \subseteq Path
      BY <2>3, <2>5, <2>6
    <3>2. <<>> \in dirs'
      BY <2>1, <2>4, <2>7, <2>8 DEF Tree
    <3>3. dirs' \cap Files' = {}
      <4>1. ASSUME NEW x \in dirs \ {q}, NEW y \in Files \ {q},
                   Replaced(x, p, q) = Replaced(y, p, q)
            PROVE  FALSE
        <5>1. x = y
          BY <2>6, <4>1
        <5> QED
          BY <2>1, <5>1 DEF Tree
      <4> QED
        BY <2>3, <2>5, <4>1
    <3>4. ASSUME NEW r \in dirs' \cup Files', NEW n \in 0..(Len(r) - 1)
          PROVE  SubSeq(r, 1, n) \in dirs'
      <4>1. PICK x \in (dirs \cup Files) \ {q} : r = Replaced(x, p, q)
        BY <2>3, <2>5
      <4>2. n \in 0..(Len(Replaced(x, p, q)) - 1)
        BY <4>1
      <4>3. \E y \in dirs \ {q} : SubSeq(Replaced(x, p, q), 1, n) = Replaced(y, p, q)
        BY <2>1, <2>3, <2>4, <4>2, MovedInDirectory
      <4> QED
        BY <2>3, <4>1, <4>3
    <3> QED
      BY <3>1, <3>2, <3>3, <3>4 DEF Tree
  <2>10. \A f \in Files' : program'[f] \in Seq(Statement) \cup {Broken}
    <3>1. TAKE f \in Files'
    <3>2. PICK x \in Files \ {q} : f = Replaced(x, p, q)
      BY <2>5
    <3>3. program'[f] = program[Replaced(f, q, p)]
      BY <2>3, <2>5
    <3>4. program'[f] = program[x]
      BY <2>6, <3>2, <3>3
    <3> QED
      BY <2>1, <3>4 DEF TypeOK
  <2>11. cwd' \in dirs' \cup {Nowhere}
    <3>1. CASE cwd = q
      BY <2>3, <3>1
    <3>2. CASE cwd # q /\ cwd \in dirs
      BY <2>3, <3>2
    <3>3. CASE cwd # q /\ cwd = Nowhere
      BY <2>3, <2>8, <3>3 DEF Replaced
    <3> QED
      BY <2>1, <3>1, <3>2, <3>3 DEF TypeOK
  <2>12. /\ lost' \subseteq Path \cup {Nowhere} /\ lost \subseteq lost'
         /\ dirs \ lost' \subseteq dirs'
    BY <2>1, <2>3, <2>7 DEF TypeOK, Tree
  <2>13. cwd \in dirs \ lost' => cwd' = cwd
    BY <2>3, <2>7
  <2> QED
    BY <2>1, <2>3, <2>9, <2>10, <2>11, <2>12, <2>13, TreeStatement
<1> QED
  BY <1>1, <1>2

-----------------------------------------------------------------------------
(* The theorems.                                                           *)

LEMMA InitInv == Init => IInv
<1> SUFFICES ASSUME Init PROVE IInv
  OBVIOUS
<1> DEFINE frame == [kind |-> "main", file |-> Main, todo |-> program[Main],
                     back |-> Start, home |-> Start]
<1>1. /\ dirs = Dirs /\ program \in Programs /\ lost = {Nowhere} /\ cwd = Start
      /\ stack = <<frame>> /\ callbacks = {} /\ state = "run"
  BY DEF Init
<1>2. /\ Tree(dirs, Files) /\ \A f \in Files : program[f] \in Seq(Statement) \cup {Broken}
      /\ Main \in Files /\ program[Main] # Broken
  BY <1>1, FilesAssumption DEF Files
<1>3. /\ Start \in dirs /\ Start \in Path /\ Main \in Path
      /\ program[Main] \in Seq(Statement)
  BY <1>1, <1>2, DirsAssumption DEF Tree
<1>4. frame \in Frame /\ frame.kind = "main" /\ frame.home = Start
  BY <1>3 DEF Frame
<1> HIDE DEF frame
<1>5. /\ stack \in Seq(Frame) /\ Len(stack) = 1 /\ stack[1] = frame /\ DOMAIN stack = {1}
      /\ stack # <<>>
  BY <1>1, <1>4
<1>6. TypeOK
  BY <1>1, <1>2, <1>3, <1>5, DepthAssumption DEF TypeOK
<1>7. HomesExist /\ ModulesAbove
  BY <1>1, <1>3, <1>4, <1>5 DEF HomesExist, ModulesAbove
<1>8. CwdFollowsStack
  <2>1. Top = frame
    BY <1>5 DEF Top, Last
  <2> QED
    BY <1>1, <1>4, <1>5, <2>1 DEF CwdFollowsStack
<1> QED
  BY <1>6, <1>7, <1>8 DEF IInv

LEMMA StutterInv ==
  ASSUME IInv, UNCHANGED vars
  PROVE  IInv'
<1>1. UNCHANGED <<state, dirs, program, lost, cwd, stack, callbacks>>
  BY DEF vars, tree
<1>2. UNCHANGED <<Files, Top>>
  BY <1>1 DEF Files, Top
<1>3. TypeOK'
  BY <1>1, <1>2 DEF IInv, TypeOK
<1>4. HomesExist' /\ ModulesAbove' /\ CwdFollowsStack'
  BY <1>1, <1>2 DEF IInv, HomesExist, ModulesAbove, CwdFollowsStack
<1> QED
  BY <1>3, <1>4 DEF IInv

LEMMA Invariance == Spec => []IInv
<1>1. IInv /\ [Next]_vars => IInv'
  <2> SUFFICES ASSUME IInv, [Next]_vars PROVE IInv'
    OBVIOUS
  <2> QED
    BY StatementInv, LoadJsInv, LoadDsoInv, ReturnInv, CallbackInv, CreateInv,
       RemoveDirInv, MvInv, StutterInv DEF Next
<1> QED
  BY InitInv, <1>1, PTL DEF Spec

\* The tree stays one, whatever the scripts make, move and remove; the process
\* is in a directory of it or in one that was removed.
THEOREM TypeCorrect == Spec => []TypeOK
  BY Invariance, PTL DEF IInv

\* Modules run in their own directories and line 109 returns where line 98 came
\* from, unless the directory was moved or removed.
THEOREM DirectoryFollows == Spec => []CwdFollowsStack
  BY Invariance, PTL DEF IInv

\* require() finds from within a script that runs in the directory of its file the
\* file CommonJS has for a relative name, though Normalize goes through a buffer that
\* realpath() may have left half-done: only a name whose directory does not exist may
\* find something else.  The script is a module, the main script, or a callback: of
\* the callbacks only those of a module of another directory than Start, where they
\* run, do not find what CallbackNamesResolve asks for.
RelativeNamesResolve ==
  /\ Running({"require", "try"})
  /\ Top.home = Parent(Top.file) /\ Top.home \notin lost
  => FindsCommonJS(Top.file, Now.req)

\* What realpath and FileExtension make of a name is what CommonJS has for it, from
\* a directory that the name's directory is found from.
LEMMA Resolved ==
  ASSUME TypeOK, NEW at \in dirs, NEW req \in Names, ~OfDirectory(req),
         Walk(at \o Parent(req.path)) \in dirs, NEW u, Walk(u) = Walk(at \o req.path)
  PROVE  {FileExtension(u)} \ {<<>>} = CommonJS(at, req)
<1> DEFINE path == req.path
           c == Last(path)
           d == Walk(at \o Parent(path))
           full == Append(d, c)
           Name(ext) == Append(d, <<c[1], ext>>)
<1>1. Tree(dirs, Files) /\ d \in dirs /\ <<>> \notin Files
  BY DEF TypeOK, Tree
<1>2. /\ path \in Seq(Components \cup {Up, Here}) /\ path # <<>> /\ at \in Text
      /\ at \o path \in Text
  BY TextOfName
<1>3. Parent(path) \in Text /\ c \in Components /\ c \in All /\ path = Append(Parent(path), c)
  <2>1. c \in Components \cup {Up, Here} /\ path = Append(Parent(path), c)
    BY <1>2, Split
  <2>2. path \in Text
    BY TextOfName
  <2>3. Parent(path) \in Text
    BY <1>2, <2>2, Split DEF Text
  <2> QED
    BY <2>1, <2>3 DEF All, OfDirectory
<1>4. at \o Parent(path) \in Text /\ at \o path = Append(at \o Parent(path), c)
  <2> HIDE DEF c, path
  <2>1. /\ at \in Seq(All) /\ Parent(path) \in Seq(All) /\ <<c>> \in Seq(All)
        /\ at \o Parent(path) \in Seq(All)
    BY <1>2, <1>3, ConcatProperties DEF Text
  <2>2. (at \o Parent(path)) \o <<c>> = at \o (Parent(path) \o <<c>>)
    BY <2>1, ConcatAssociative
  <2>3. /\ Append(Parent(path), c) = Parent(path) \o <<c>>
        /\ Append(at \o Parent(path), c) = (at \o Parent(path)) \o <<c>>
    BY <1>3, <2>1, AppendIsConcat
  <2> QED
    BY <1>3, <2>1, <2>2, <2>3 DEF Text
<1>5. Walk(u) = full
  <2> HIDE DEF c, path
  <2>1. Walk(Append(at \o Parent(path), c)) = Entered(d, c)
    BY <1>3, <1>4, WalkOn DEF Text
  <2>2. c \notin {Up, Here} /\ Walk(u) = Walk(at \o path)
    BY DEF c, path, OfDirectory
  <2> QED
    BY <1>1, <1>4, <2>1, <2>2 DEF Entered
<1>6. full # <<>> /\ Parent(full) = d /\ Last(full) = c
  <2> HIDE DEF d, c, path
  <2>1. d \in Path
    BY <1>1 DEF Tree
  <2> QED
    BY <1>3, <2>1, Appended, AppendProperties DEF Path
<1>7. FileExtension(u) =
        IF c[2] # ""
        THEN IF c[2] \in {"fm", "js"} /\ full \in Files THEN full ELSE <<>>
        ELSE IF Name("fm") \in Files THEN Name("fm")
             ELSE IF Name("js") \in Files THEN Name("js") ELSE <<>>
  <2> HIDE DEF d, c, path
  <2>1. \A ext : With(full, ext) = Name(ext)
    BY <1>6 DEF With, LastOf
  <2> HIDE DEF full, Name
  <2> QED
    BY <1>5, <1>6, <2>1, Extension DEF LastOf
<1>8. CommonJS(at, req) =
        IF c[2] # "" THEN {f \in {full} \cap Files : Last(f)[2] \in {"fm", "js"}}
        ELSE IF Name("fm") \in Files THEN {Name("fm")} ELSE {Name("js")} \cap Files
  BY <1>1 DEF CommonJS
<1> HIDE DEF d, c, path, full, Name
<1> QED
  BY <1>1, <1>6, <1>7, <1>8

\* A script finds by a relative name the file that CommonJS has for it.
LEMMA OwnNames ==
  ASSUME IInv
  PROVE  RelativeNamesResolve
<1> SUFFICES ASSUME Running({"require", "try"}), Top.home = Parent(Top.file),
                    Top.home \notin lost, ~Now.req.abs,
                    ~OfDirectory(Now.req),
                    Walk(Parent(Top.file) \o Parent(Now.req.path)) \in dirs,
                    NEW current \in CurrentPath
             PROVE  {Found(current)} \ {<<>>} = CommonJS(Parent(Top.file), Now.req)
  BY DEF RelativeNamesResolve, FindsCommonJS
<1>1. TypeOK /\ HomesExist /\ CwdFollowsStack /\ stack # <<>> /\ Now.req \in Names
  BY RunningFacts DEF IInv
<1>2. cwd = Parent(Top.file) /\ cwd \in dirs
  <2>1. Len(stack) \in DOMAIN stack /\ Top = stack[Len(stack)]
    BY <1>1, StackFacts DEF Top, Last
  <2> QED
    BY <1>1, <2>1 DEF CwdFollowsStack, HomesExist
<1>3. current = cwd
  BY <1>2 DEF CurrentPath
<1>4. Walk(Walk(cwd \o Now.req.path)) = Walk(cwd \o Now.req.path)
  BY <1>1, <1>2, TextOfName, WalkTwice DEF TypeOK
<1> QED
  BY <1>1, <1>2, <1>3, <1>4, Resolved DEF Found, UsingPath, Normalize

\* As CommonJS has it, from each script that is at home in the directory of its file,
\* for any tree and through all that the scripts do to it.
THEOREM NamesResolve == Spec => []RelativeNamesResolve
  BY Invariance, OwnNames, PTL
=============================================================================
