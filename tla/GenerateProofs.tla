--------------------------- MODULE GenerateProofs ---------------------------
(***************************************************************************)
(* What is proved of Generate for every filesystem, every manifest and     *)
(* everything a generator may leave.                                       *)
(***************************************************************************)
EXTENDS Generate, SequenceTheorems, TLAPS

-----------------------------------------------------------------------------
(* Paths.                                                                  *)

(* A path other than the top one lies in the last of its ancestors.        *)
LEMMA ParentIsAncestor ==
    ASSUME NEW p \in Seq(Name), p # <<>>
    PROVE  Parent(p) \in Ancestors(p)
  <1>1. Len(p) \in Nat /\ Len(p) # 0
    OBVIOUS
  <1>2. Len(p) - 1 \in 0 .. Len(p) - 1
    BY <1>1
  <1> QED
    BY <1>2 DEF Parent, Ancestors

(* The record lies at the project's root.                                  *)
LEMMA RecordAtRoot == RecordPath # <<>> /\ Parent(RecordPath) = Root
  <1>1. Root \in Seq(Name)
    BY PathAssumption, RootAssumption
  <1>2. RecordPath = Append(Root, RecordName) /\ RecordName \in Name
    BY RootAssumption DEF RecordPath
  <1> QED
    BY <1>1, <1>2 DEF Parent

(* A path is one name longer than its parent.                              *)
LEMMA LenOfParent ==
    ASSUME NEW p \in Seq(Name), p # <<>>
    PROVE  Parent(p) \in Seq(Name) /\ Len(Parent(p)) = Len(p) - 1
  <1> DEFINE n == Len(p) - 1
  <1>1. Len(p) \in Nat /\ Len(p) # 0
    OBVIOUS
  <1>2. n \in Nat /\ n \in Int /\ 1 \in Int /\ \A i \in 1 .. n : p[i] \in Name
    BY <1>1
  <1>3. Parent(p) = SubSeq(p, 1, n)
    BY DEF Parent
  <1> HIDE DEF n
  <1>4. SubSeq(p, 1, n) \in Seq(Name) /\ Len(SubSeq(p, 1, n)) = IF 1 <= n THEN n - 1 + 1 ELSE 0
    BY <1>2, SubSeqProperties
  <1>5. Len(SubSeq(p, 1, n)) = n
    BY <1>2, <1>4
  <1> QED
    BY <1>3, <1>4, <1>5 DEF n

(* A path's parent is another path of the instance.                        *)
LEMMA ParentInPath ==
    ASSUME NEW p \in Path, p # <<>>
    PROVE  Parent(p) \in Path /\ Parent(p) # p
  <1>1. p \in Seq(Name)
    BY PathAssumption
  <1>2. Parent(p) \in Path
    BY <1>1, ParentIsAncestor, PathAssumption
  <1>3. Len(p) \in Nat /\ Len(p) # 0
    BY <1>1
  <1>4. Len(Parent(p)) = Len(p) - 1
    BY <1>1, LenOfParent
  <1> QED
    BY <1>2, <1>3, <1>4

(* What a shorter beginning of a beginning is.                             *)
LEMMA Beginnings ==
    ASSUME NEW p \in Seq(Name), NEW n \in 0 .. Len(p), NEW m \in 0 .. n
    PROVE  /\ SubSeq(p, 1, n) \in Seq(Name) /\ Len(SubSeq(p, 1, n)) = n
           /\ SubSeq(SubSeq(p, 1, n), 1, m) = SubSeq(p, 1, m)
  <1>1. Len(p) \in Nat /\ n \in Nat /\ m \in Nat /\ n <= Len(p) /\ m <= n
    OBVIOUS
  <1> QED
    BY <1>1

(* An ancestor is a shorter beginning of the path.                         *)
LEMMA AncestorIsBeginning ==
    ASSUME NEW p \in Seq(Name), NEW a
    PROVE  a \in Ancestors(p) <=> a \in Seq(Name) /\ Len(a) < Len(p) /\ a = SubSeq(p, 1, Len(a))
  <1>1. Len(p) \in Nat
    OBVIOUS
  <1>2. ASSUME a \in Ancestors(p)
        PROVE  a \in Seq(Name) /\ Len(a) < Len(p) /\ a = SubSeq(p, 1, Len(a))
    <2>1. PICK n \in 0 .. Len(p) - 1 : a = SubSeq(p, 1, n)
      BY <1>2 DEF Ancestors
    <2>2. n \in 0 .. Len(p) /\ n < Len(p) /\ n \in 0 .. n
      BY <1>1, <2>1
    <2>3. a \in Seq(Name) /\ Len(a) = n
      BY <2>1, <2>2, Beginnings
    <2> QED
      BY <2>1, <2>2, <2>3
  <1>3. ASSUME a \in Seq(Name), Len(a) < Len(p), a = SubSeq(p, 1, Len(a))
        PROVE  a \in Ancestors(p)
    <2>1. Len(a) \in 0 .. Len(p) - 1
      BY <1>1, <1>3
    <2> QED
      BY <1>3, <2>1 DEF Ancestors
  <1> QED
    BY <1>2, <1>3

(* To lie beneath a path is to have it for an ancestor.                    *)
LEMMA BeneathOrAncestor ==
    ASSUME NEW p \in Seq(Name), NEW q \in Seq(Name)
    PROVE  IsBeneath(q, p) <=> p \in Ancestors(q)
  <1>1. Len(p) \in Nat /\ Len(q) \in Nat
    OBVIOUS
  <1> QED
    BY <1>1, AncestorIsBeginning DEF IsBeneath

(* Of two beginnings of one path one is a beginning of the other.          *)
LEMMA OneAboveTheOther ==
    ASSUME NEW p \in Seq(Name), NEW a \in Ancestors(p) \cup {p}, NEW b \in Ancestors(p) \cup {p}
    PROVE  a = b \/ a \in Ancestors(b) \/ b \in Ancestors(a)
  <1>1. Len(p) \in Nat /\ p = SubSeq(p, 1, Len(p))
    OBVIOUS
  <1>2. a \in Seq(Name) /\ Len(a) \in Nat /\ Len(a) <= Len(p) /\ a = SubSeq(p, 1, Len(a))
    BY <1>1, AncestorIsBeginning
  <1>3. b \in Seq(Name) /\ Len(b) \in Nat /\ Len(b) <= Len(p) /\ b = SubSeq(p, 1, Len(b))
    BY <1>1, AncestorIsBeginning
  <1> DEFINE n == Len(a)
             m == Len(b)
  <1>4. n \in Nat /\ m \in Nat /\ n <= Len(p) /\ m <= Len(p)
    BY <1>2, <1>3
  <1>5. a = SubSeq(p, 1, n) /\ b = SubSeq(p, 1, m)
    BY <1>2, <1>3
  <1>6. CASE n = m
    BY <1>2, <1>3, <1>6
  <1>7. CASE n < m
    <2>1. a = SubSeq(b, 1, n)
      <3> HIDE DEF n, m
      <3>1. m \in 0 .. Len(p) /\ n \in 0 .. m
        BY <1>1, <1>4, <1>7
      <3> QED
        BY <1>5, <3>1, Beginnings
    <2> QED
      BY <1>2, <1>3, <1>7, <2>1, AncestorIsBeginning
  <1>8. CASE m < n
    <2>1. b = SubSeq(a, 1, m)
      <3> HIDE DEF n, m
      <3>1. n \in 0 .. Len(p) /\ m \in 0 .. n
        BY <1>1, <1>4, <1>8
      <3> QED
        BY <1>5, <3>1, Beginnings
    <2> QED
      BY <1>2, <1>3, <1>8, <2>1, AncestorIsBeginning
  <1>9. n = m \/ n < m \/ m < n
    BY <1>4
  <1> QED
    BY <1>6, <1>7, <1>8, <1>9

(* What stands above what stands above a path stands above it too.         *)
LEMMA AboveAnAncestor ==
    ASSUME NEW p \in Seq(Name), NEW b \in Ancestors(p), NEW a \in Ancestors(b)
    PROVE  a \in Ancestors(p)
  <1>1. b \in Seq(Name) /\ Len(b) < Len(p) /\ b = SubSeq(p, 1, Len(b))
    BY AncestorIsBeginning
  <1>2. a \in Seq(Name) /\ Len(a) < Len(b) /\ a = SubSeq(b, 1, Len(a))
    BY <1>1, AncestorIsBeginning
  <1> DEFINE n == Len(a)
             m == Len(b)
  <1>3. n \in Nat /\ m \in Nat /\ Len(p) \in Nat /\ n < m /\ m < Len(p) /\ b = SubSeq(p, 1, m)
        /\ a = SubSeq(b, 1, n)
    BY <1>1, <1>2
  <1>4. a = SubSeq(p, 1, n)
    <2> HIDE DEF n, m
    <2>1. m \in 0 .. Len(p) /\ n \in 0 .. m
      BY <1>3
    <2> QED
      BY <1>3, <2>1, Beginnings
  <1> QED
    BY <1>2, <1>3, <1>4, AncestorIsBeginning

(* Above a path stand its parent and what stands above that.               *)
LEMMA AboveTheParent ==
    ASSUME NEW p \in Seq(Name), p # <<>>
    PROVE  Ancestors(p) = Ancestors(Parent(p)) \cup {Parent(p)}
  <1>1. Parent(p) \in Ancestors(p) /\ Parent(p) \in Seq(Name) /\ Len(Parent(p)) = Len(p) - 1
    BY ParentIsAncestor, LenOfParent
  <1>2. ASSUME NEW a \in Ancestors(p), a # Parent(p)
        PROVE  a \in Ancestors(Parent(p))
    <2>1. a \in Ancestors(Parent(p)) \/ Parent(p) \in Ancestors(a)
      BY <1>1, <1>2, OneAboveTheOther
    <2>2. a \in Seq(Name) /\ Len(a) < Len(p) /\ Len(a) \in Nat /\ Len(p) \in Nat
      BY AncestorIsBeginning
    <2>3. Parent(p) \notin Ancestors(a)
      BY <1>1, <2>2, AncestorIsBeginning
    <2> QED
      BY <2>1, <2>3
  <1> QED
    BY <1>1, <1>2, AboveAnAncestor

(* An ancestor of a path has, on the way to that path, a child that is the *)
(* path or one of its ancestors.                                           *)
LEMMA NextTowards ==
    ASSUME NEW p \in Seq(Name), NEW d \in Ancestors(p)
    PROVE  \E c \in Ancestors(p) \cup {p} : c # <<>> /\ Parent(c) = d
  <1>1. d \in Seq(Name) /\ Len(d) \in Nat /\ Len(d) < Len(p) /\ Len(p) \in Nat
        /\ d = SubSeq(p, 1, Len(d))
    BY AncestorIsBeginning
  <1> DEFINE n == Len(d)
             c == SubSeq(p, 1, n + 1)
  <1>2. n \in Nat /\ n + 1 \in 0 .. Len(p) /\ n \in 0 .. n + 1 /\ d = SubSeq(p, 1, n)
    BY <1>1
  <1> HIDE DEF n
  <1>3. c \in Seq(Name) /\ Len(c) = n + 1 /\ SubSeq(c, 1, n) = d
    BY <1>2, Beginnings
  <1>4. Parent(c) = d /\ c # <<>>
    BY <1>2, <1>3 DEF Parent
  <1>5. c \in Ancestors(p) \cup {p}
    <2>1. CASE n + 1 = Len(p)
      BY <1>1, <2>1
    <2>2. CASE n + 1 # Len(p)
      <3>1. Len(c) < Len(p) /\ c = SubSeq(p, 1, Len(c))
        BY <1>1, <1>2, <1>3, <2>2
      <3> QED
        BY <1>3, <3>1, AncestorIsBeginning
    <2> QED
      BY <2>1, <2>2
  <1> QED
    BY <1>4, <1>5

(* What stands above a joined path stands above its first part, is it, or  *)
(* is it joined to what stands above the second.                           *)
LEMMA AboveAJoin ==
    ASSUME NEW s \in Seq(Name), NEW t \in Seq(Name), NEW a \in Ancestors(s \o t)
    PROVE  \/ a \in Ancestors(s) \cup {s}
           \/ \E n \in 1 .. Len(t) - 1 : a = s \o SubSeq(t, 1, n)
  <1>1. Len(s) \in Nat /\ Len(t) \in Nat /\ Len(s \o t) = Len(s) + Len(t) /\ s \o t \in Seq(Name)
    OBVIOUS
  <1>2. PICK m \in 0 .. Len(s \o t) - 1 : a = SubSeq(s \o t, 1, m)
    BY DEF Ancestors
  <1>3. m \in Nat /\ m < Len(s) + Len(t)
    BY <1>1, <1>2
  <1>4. CASE m < Len(s)
    <2>1. a = SubSeq(s, 1, m)
      BY <1>1, <1>2, <1>3, <1>4
    <2>2. m \in 0 .. Len(s) - 1
      BY <1>1, <1>3, <1>4
    <2> QED
      BY <2>1, <2>2 DEF Ancestors
  <1>5. CASE m = Len(s)
    BY <1>1, <1>2, <1>3, <1>5
  <1>6. CASE m > Len(s)
    <2> DEFINE n == m - Len(s)
    <2>1. n \in 1 .. Len(t) - 1 /\ m = Len(s) + n
      BY <1>1, <1>3, <1>6
    <2> HIDE DEF n
    <2>2. a = s \o SubSeq(t, 1, n)
      BY <1>1, <1>2, <1>3, <2>1
    <2> QED
      BY <2>1, <2>2
  <1>7. m < Len(s) \/ m = Len(s) \/ m > Len(s)
    BY <1>1, <1>3
  <1> QED
    BY <1>4, <1>5, <1>6, <1>7

(* What a path is of, beneath one of its ancestors.                        *)
LEMMA PartBeneath ==
    ASSUME NEW p \in Seq(Name), NEW l \in Ancestors(p)
    PROVE  \E s \in Seq(Name) : /\ s = SubSeq(p, Len(l) + 1, Len(p))
                                /\ Len(s) = Len(p) - Len(l) /\ s # <<>>
  <1> DEFINE n == Len(l)
             s == SubSeq(p, n + 1, Len(p))
  <1>1. n \in Nat /\ Len(p) \in Nat /\ n < Len(p)
    BY AncestorIsBeginning
  <1> HIDE DEF n
  <1>2. \A i \in n + 1 .. Len(p) : p[i] \in Name
    BY <1>1
  <1>3. s \in Seq(Name) /\ Len(s) = IF n + 1 <= Len(p) THEN Len(p) - (n + 1) + 1 ELSE 0
    BY <1>1, <1>2, SubSeqProperties
  <1>4. Len(s) = Len(p) - n
    BY <1>1, <1>3
  <1>5. s # <<>>
    <2> HIDE DEF s
    <2>1. Len(s) # 0
      BY <1>1, <1>4
    <2> QED
      BY <2>1
  <1> QED
    BY <1>3, <1>4, <1>5 DEF n

-----------------------------------------------------------------------------
(* Links.                                                                  *)

(* Beyond a link lies a path of the instance on which, and above which, no *)
(* link may stand, and neither the record does nor what it lies in.        *)
LEMMA BeyondALink ==
    ASSUME NEW l \in DOMAIN LinkTo, NEW p \in Path, l \in Ancestors(p)
    PROVE  /\ Beyond(l, p) \in Path
           /\ Beyond(l, p) \notin DOMAIN LinkTo
           /\ Ancestors(Beyond(l, p)) \cap DOMAIN LinkTo = {}
           /\ Beyond(l, p) \notin Ancestors(RecordPath) \cup {RecordPath}
           /\ LinkTo[l] \in Ancestors(Beyond(l, p))
  <1>1. l \in Path /\ l \in Seq(Name) /\ p \in Seq(Name)
    BY PathAssumption, LinkAssumption
  <1>2. Beyond(l, p) \in Path
    BY <1>1, BeneathOrAncestor, LinkAssumption
  <1>3. PICK T \in Path : T = LinkTo[l]
    BY LinkAssumption
  <1>4. T \in Seq(Name) /\ T \notin Ancestors(RecordPath)
        /\ \A k \in DOMAIN LinkTo : k # T /\ ~IsBeneath(k, T) /\ ~IsBeneath(T, k)
    BY <1>3, PathAssumption, LinkAssumption
  <1>5. PICK s \in Seq(Name) : s = SubSeq(p, Len(l) + 1, Len(p)) /\ s # <<>>
    BY <1>1, PartBeneath
  <1>6. PICK b \in Path : b = Beyond(l, p) /\ b = T \o s
    BY <1>2, <1>3, <1>5 DEF Beyond
  <1>7. b \in Seq(Name) /\ RecordPath \in Seq(Name)
    BY PathAssumption, RootAssumption
  <1>8. T \in Ancestors(b)
    <2>1. Len(T) < Len(b) /\ T = SubSeq(b, 1, Len(T))
      BY <1>4, <1>5, <1>6
    <2> QED
      BY <1>4, <1>7, <2>1, AncestorIsBeginning
  <1>9. b \notin DOMAIN LinkTo
    BY <1>4, <1>7, <1>8, BeneathOrAncestor
  <1>10. ASSUME NEW a \in Ancestors(b), a \in DOMAIN LinkTo PROVE FALSE
    <2>1. a \in Seq(Name) /\ a # T /\ ~IsBeneath(a, T) /\ ~IsBeneath(T, a)
      BY <1>4, <1>7, <1>10, AncestorIsBeginning
    <2>2. a \notin Ancestors(T) /\ T \notin Ancestors(a)
      BY <1>4, <2>1, BeneathOrAncestor
    <2> QED
      BY <1>7, <1>8, <1>10, <2>1, <2>2, OneAboveTheOther
  <1>11. b \notin Ancestors(RecordPath) \cup {RecordPath}
    BY <1>4, <1>7, <1>8, AboveAnAncestor
  <1> QED
    BY <1>3, <1>6, <1>8, <1>9, <1>10, <1>11

(* One link at most stands on the way to a path, since one that stood      *)
(* above another would have something beneath it.                          *)
LEMMA OneLinkOnTheWay ==
    ASSUME NEW t, WellFormed(t), NEW p \in Path,
           NEW l \in OnTheWay(t, p), NEW k \in OnTheWay(t, p)
    PROVE  l = k
  <1>1. p \in Seq(Name) /\ l \in Path /\ k \in Path /\ l \in Ancestors(p) /\ k \in Ancestors(p)
        /\ t[l] = "link" /\ t[k] = "link"
    BY PathAssumption DEF OnTheWay
  <1>2. l \notin Ancestors(k) /\ k \notin Ancestors(l)
    BY <1>1 DEF WellFormed
  <1> QED
    BY <1>1, <1>2, OneAboveTheOther

(* So a path's place is the path itself, or lies beyond the one link.      *)
LEMMA PlaceIs ==
    ASSUME NEW t, WellFormed(t), NEW p \in Path
    PROVE  \/ OnTheWay(t, p) = {} /\ Place(t, p) = p
           \/ \E l \in Path : /\ OnTheWay(t, p) = {l} /\ l \in DOMAIN LinkTo /\ l \in Ancestors(p)
                              /\ t[l] = "link" /\ Place(t, p) = Beyond(l, p)
  <1>1. CASE OnTheWay(t, p) = {}
    BY <1>1 DEF Place
  <1>2. CASE OnTheWay(t, p) # {}
    <2> DEFINE l == CHOOSE k \in OnTheWay(t, p) : TRUE
    <2>1. l \in OnTheWay(t, p)
      BY <1>2
    <2>2. Place(t, p) = Beyond(l, p)
      BY <1>2 DEF Place
    <2> HIDE DEF l
    <2>3. OnTheWay(t, p) = {l}
      BY <2>1, OneLinkOnTheWay
    <2>4. l \in Ancestors(p) /\ t[l] = "link"
      BY <2>1 DEF OnTheWay
    <2>5. l \in Path /\ l \in DOMAIN LinkTo
      BY <2>4, PathAssumption DEF WellFormed
    <2> QED
      BY <2>2, <2>3, <2>4, <2>5
  <1> QED
    BY <1>1, <1>2

(* No link stands on the way to a place.                                   *)
LEMMA PlaceOfPlace ==
    ASSUME NEW t, WellFormed(t), NEW p \in Path
    PROVE  /\ Place(t, p) \in Path
           /\ OnTheWay(t, Place(t, p)) = {}
           /\ Place(t, p) \in DOMAIN LinkTo => Place(t, p) = p
           /\ Place(t, p) \in Ancestors(RecordPath) \cup {RecordPath} => Place(t, p) = p
  <1>1. CASE OnTheWay(t, p) = {} /\ Place(t, p) = p
    BY <1>1
  <1>2. CASE \E l \in Path : /\ OnTheWay(t, p) = {l} /\ l \in DOMAIN LinkTo /\ l \in Ancestors(p)
                             /\ t[l] = "link" /\ Place(t, p) = Beyond(l, p)
    <2>1. PICK l \in Path : /\ l \in DOMAIN LinkTo /\ l \in Ancestors(p)
                            /\ Place(t, p) = Beyond(l, p)
      BY <1>2
    <2>2. PICK b : b = Place(t, p)
      OBVIOUS
    <2>3. b \in Path /\ b \notin DOMAIN LinkTo /\ Ancestors(b) \cap DOMAIN LinkTo = {}
          /\ b \notin Ancestors(RecordPath) \cup {RecordPath}
      BY <2>1, <2>2, BeyondALink
    <2>4. OnTheWay(t, b) = {}
      BY <2>3, PathAssumption DEF OnTheWay, WellFormed
    <2> QED
      BY <2>2, <2>3, <2>4
  <1> QED
    BY <1>1, <1>2, PlaceIs

(* A place lies in what its path's parent leads to.                        *)
LEMMA ParentOfPlace ==
    ASSUME NEW t, WellFormed(t), NEW p \in Path, p # <<>>
    PROVE  Place(t, p) # <<>> /\ Parent(Place(t, p)) = Followed(t, Parent(p))
  <1>1. p \in Seq(Name) /\ Parent(p) \in Path /\ Parent(p) \in Seq(Name)
    BY ParentInPath, PathAssumption
  <1>2. Ancestors(p) = Ancestors(Parent(p)) \cup {Parent(p)}
    BY <1>1, AboveTheParent
  <1>3. CASE OnTheWay(t, p) = {} /\ Place(t, p) = p
    <2>1. OnTheWay(t, Parent(p)) = {} /\ t[Parent(p)] # "link"
      BY <1>2, <1>3 DEF OnTheWay
    <2> QED
      BY <1>3, <2>1 DEF Followed, Place
  <1>4. CASE \E l \in Path : /\ OnTheWay(t, p) = {l} /\ l \in DOMAIN LinkTo /\ l \in Ancestors(p)
                             /\ t[l] = "link" /\ Place(t, p) = Beyond(l, p)
    <2>1. PICK l \in Path : /\ OnTheWay(t, p) = {l} /\ l \in DOMAIN LinkTo /\ l \in Ancestors(p)
                            /\ t[l] = "link" /\ Place(t, p) = Beyond(l, p)
      BY <1>4
    <2>2. PICK T \in Path : T = LinkTo[l]
      BY <2>1, LinkAssumption
    <2>3. T \in Seq(Name) /\ l \in Seq(Name)
      BY PathAssumption
    <2>4. PICK s \in Seq(Name) : s = SubSeq(p, Len(l) + 1, Len(p)) /\ Len(s) = Len(p) - Len(l) /\ s # <<>>
      BY <1>1, <2>1, PartBeneath
    <2>5. Beyond(l, p) = T \o s
      BY <2>2, <2>4 DEF Beyond
    <2>6. T \o s # <<>>
      BY <2>3, <2>4
    <2>7. Parent(T \o s) = T \o SubSeq(s, 1, Len(s) - 1)
      <3>1. Len(s) \in Nat /\ Len(s) # 0 /\ Len(T) \in Nat /\ Len(T \o s) = Len(T) + Len(s)
        BY <2>3, <2>4
      <3> DEFINE n == Len(s) - 1
      <3>2. n \in Nat /\ n <= Len(s) /\ Len(T \o s) - 1 = Len(T) + n
        BY <3>1
      <3>3. Parent(T \o s) = SubSeq(T \o s, 1, Len(T) + n)
        BY <3>2 DEF Parent
      <3> HIDE DEF n
      <3>4. SubSeq(T \o s, 1, Len(T) + n) = T \o SubSeq(s, 1, n)
        <4>1. CASE n = 0
          <5>1. SubSeq(T \o s, 1, Len(T)) = T /\ Len(T) + n = Len(T)
            BY <2>3, <2>4, <3>1, <4>1
          <5>2. T \o SubSeq(s, 1, n) = T
            BY <2>3, <2>4, <4>1
          <5> QED
            BY <5>1, <5>2
        <4>2. CASE n # 0
          <5>1. n \in 1 .. Len(s)
            BY <3>1, <3>2, <4>2
          <5> QED
            BY <2>3, <2>4, <3>1, <5>1
        <4> QED
          BY <4>1, <4>2
      <3> QED
        BY <3>3, <3>4 DEF n
    <2>8. Len(Parent(p)) = Len(p) - 1 /\ Len(p) \in Nat /\ Len(l) \in Nat /\ Len(l) < Len(p)
          /\ Len(s) \in Nat
      BY <1>1, <2>1, <2>3, LenOfParent, AncestorIsBeginning
    <2>9. CASE l = Parent(p)
      <3>1. Len(s) = 1
        BY <2>4, <2>8, <2>9
      <3>2. T \o SubSeq(s, 1, Len(s) - 1) = T
        BY <2>3, <2>4, <3>1
      <3> QED
        BY <2>1, <2>2, <2>5, <2>6, <2>7, <2>9, <3>2 DEF Followed
    <2>10. CASE l # Parent(p)
      <3>1. l \in Ancestors(Parent(p)) /\ t[Parent(p)] # "link"
        BY <1>2, <2>1, <2>10, ParentIsAncestor, <1>1 DEF OnTheWay
      <3>2. OnTheWay(t, Parent(p)) = {l}
        BY <1>2, <2>1, <3>1 DEF OnTheWay
      <3>3. Place(t, Parent(p)) = Beyond(l, Parent(p))
        <4>1. PICK k \in Path : OnTheWay(t, Parent(p)) = {k} /\ Place(t, Parent(p)) = Beyond(k, Parent(p))
          BY <1>1, <3>2, PlaceIs
        <4> QED
          BY <3>2, <4>1
      <3>4. Beyond(l, Parent(p)) = T \o SubSeq(Parent(p), Len(l) + 1, Len(p) - 1)
        BY <2>2, <2>8 DEF Beyond
      <3>5. SubSeq(Parent(p), Len(l) + 1, Len(p) - 1) = SubSeq(s, 1, Len(s) - 1)
        <4> DEFINE n == Len(l)
                   m == Len(p)
        <4>1. n \in Nat /\ m \in Nat /\ n < m /\ Parent(p) = SubSeq(p, 1, m - 1)
              /\ s = SubSeq(p, n + 1, m) /\ Len(s) = m - n
          BY <2>4, <2>8 DEF Parent
        <4>2. SubSeq(SubSeq(p, 1, m - 1), n + 1, m - 1) = SubSeq(SubSeq(p, n + 1, m), 1, m - n - 1)
          BY <1>1, <4>1
        <4> QED
          BY <4>1, <4>2
      <3> QED
        BY <2>1, <2>5, <2>6, <2>7, <3>1, <3>3, <3>4, <3>5 DEF Followed
    <2> QED
      BY <2>9, <2>10
  <1> QED
    BY <1>3, <1>4, PlaceIs

(* Nothing stands above itself.                                            *)
LEMMA NotAboveItself ==
    ASSUME NEW p \in Seq(Name)
    PROVE  p \notin Ancestors(p)
  <1>1. Len(p) \in Nat
    OBVIOUS
  <1> QED
    BY <1>1, AncestorIsBeginning

(* Where no link on the way comes or goes, a path keeps its place.         *)
LEMMA SameWay ==
    ASSUME NEW t, NEW u, NEW p, OnTheWay(t, p) = OnTheWay(u, p)
    PROVE  Place(t, p) = Place(u, p)
  BY DEF Place

(* Something else than a link is put where no link on the way stands.      *)
LEMMA OffTheWay ==
    ASSUME NEW t \in Tree, NEW q \in Path, NEW n \in Node, n # "link", NEW p \in Path,
           t[q] # "link" \/ q \notin Ancestors(p)
    PROVE  /\ OnTheWay([t EXCEPT ![q] = n], p) = OnTheWay(t, p)
           /\ Place([t EXCEPT ![q] = n], p) = Place(t, p)
  <1>1. Ancestors(p) \subseteq Path
    BY PathAssumption
  <1>2. \A a \in Path : [t EXCEPT ![q] = n][a] = IF a = q THEN n ELSE t[a]
    BY DEF Tree
  <1>3. OnTheWay([t EXCEPT ![q] = n], p) = OnTheWay(t, p)
    BY <1>1, <1>2 DEF OnTheWay
  <1> QED
    BY <1>3, SameWay

(* So a change at a path's own place leaves it its place.                  *)
LEMMA AtItsPlace ==
    ASSUME NEW t \in Tree, WellFormed(t), NEW n \in Node, n # "link", NEW p \in Path
    PROVE  /\ OnTheWay([t EXCEPT ![Place(t, p)] = n], p) = OnTheWay(t, p)
           /\ Place([t EXCEPT ![Place(t, p)] = n], p) = Place(t, p)
  <1>1. PICK q \in Path : q = Place(t, p)
    BY PlaceOfPlace
  <1>2. t[q] # "link" \/ q \notin Ancestors(p)
    <2> SUFFICES ASSUME t[q] = "link" PROVE q \notin Ancestors(p)
      OBVIOUS
    <2>1. q = p
      BY <1>1, PlaceOfPlace DEF WellFormed
    <2> QED
      BY <2>1, PathAssumption, NotAboveItself
  <1> QED
    BY <1>1, <1>2, OffTheWay

-----------------------------------------------------------------------------
(* Changes to a tree that leave it well formed.                            *)

(* Something is put where nothing lay, in a directory.                     *)
LEMMA PuttingIn ==
    ASSUME NEW t \in Tree, WellFormed(t), NEW p \in Path, NEW n \in Node,
           n = "link" => p \in DOMAIN LinkTo,
           p # <<>>, t[p] # "dir", t[Parent(p)] = "dir"
    PROVE  [t EXCEPT ![p] = n] \in Tree /\ WellFormed([t EXCEPT ![p] = n])
  <1> DEFINE u == [t EXCEPT ![p] = n]
  <1>1. u \in Tree
    BY DEF Tree
  <1>2. \A q \in Path : u[q] = IF q = p THEN n ELSE t[q]
    BY DEF Tree
  <1>3. \A a \in Ancestors(Root) \cup {<<>>, Root} : u[a] = "dir"
    BY <1>2, PathAssumption, RootAssumption DEF WellFormed
  <1>4. ASSUME NEW q \in Path, u[q] # "none", NEW a \in Ancestors(q)
        PROVE  u[a] = "dir"
    <2>1. a \in Path
      BY PathAssumption
    <2>2. t[a] = "dir"
      <3>1. CASE q = p
        <4>1. a = Parent(p) \/ a \in Ancestors(Parent(p))
          BY <1>4, <3>1, PathAssumption, AboveTheParent
        <4>2. Parent(p) \in Path
          BY ParentInPath
        <4> QED
          BY <4>1, <4>2 DEF WellFormed
      <3>2. CASE q # p
        BY <3>2, <1>2, <1>4 DEF WellFormed
      <3> QED
        BY <3>1, <3>2
    <2> QED
      BY <1>2, <2>1, <2>2
  <1>5. \A q \in Path : u[q] = "link" => q \in DOMAIN LinkTo
    BY <1>2 DEF WellFormed
  <1> QED
    BY <1>1, <1>3, <1>4, <1>5 DEF WellFormed

(* Above a path that holds nothing nothing stands.                         *)
LEMMA NothingBeneath ==
    ASSUME NEW t, WellFormed(t), NEW p \in Path, Empty(t, p), NEW q \in Path, p \in Ancestors(q)
    PROVE  t[q] = "none"
  <1>1. q \in Seq(Name)
    BY PathAssumption
  <1>2. PICK c \in Ancestors(q) \cup {q} : c # <<>> /\ Parent(c) = p
    BY <1>1, NextTowards
  <1>3. c \in Path
    BY <1>2, PathAssumption
  <1>4. t[c] = "none"
    BY <1>2, <1>3 DEF Empty
  <1> QED
    BY <1>2, <1>4 DEF WellFormed

(* What holds nothing goes, below the top and not on the way to the root.  *)
LEMMA TakingOut ==
    ASSUME NEW t \in Tree, WellFormed(t), NEW p \in Path, Empty(t, p),
           p # <<>>, p # Root
    PROVE  [t EXCEPT ![p] = "none"] \in Tree /\ WellFormed([t EXCEPT ![p] = "none"])
  <1> DEFINE u == [t EXCEPT ![p] = "none"]
  <1>1. u \in Tree
    BY DEF Tree, Node
  <1>2. \A q \in Path : u[q] = IF q = p THEN "none" ELSE t[q]
    BY DEF Tree
  <1>3. p \notin Ancestors(Root)
    BY NothingBeneath, RootAssumption DEF WellFormed
  <1>4. \A a \in Ancestors(Root) \cup {<<>>, Root} : u[a] = "dir"
    BY <1>2, <1>3, PathAssumption, RootAssumption DEF WellFormed
  <1>5. ASSUME NEW q \in Path, u[q] # "none", NEW a \in Ancestors(q)
        PROVE  u[a] = "dir"
    <2>1. a \in Path
      BY PathAssumption
    <2>2. q # p /\ t[q] # "none"
      BY <1>2, <1>5
    <2>3. a # p
      BY <1>5, <2>2, NothingBeneath
    <2> QED
      BY <1>2, <1>5, <2>1, <2>2, <2>3 DEF WellFormed
  <1>6. \A q \in Path : u[q] = "link" => q \in DOMAIN LinkTo
    BY <1>2 DEF WellFormed
  <1> QED
    BY <1>1, <1>4, <1>5, <1>6 DEF WellFormed

(* What is no directory holds nothing.                                     *)
LEMMA NothingInAFile ==
    ASSUME NEW t, WellFormed(t), NEW p \in Path, t[p] # "dir"
    PROVE  Empty(t, p) /\ p # <<>> /\ p # Root
  <1>1. p # <<>> /\ p # Root
    BY DEF WellFormed
  <1>2. ASSUME NEW q \in Path, q # <<>>, Parent(q) = p
        PROVE  t[q] = "none"
    <2>1. p \in Ancestors(q)
      BY <1>2, PathAssumption, ParentIsAncestor
    <2> QED
      BY <2>1 DEF WellFormed
  <1> QED
    BY <1>1, <1>2 DEF Empty

(* Nothing moves when a run takes over from the one before it.             *)
LEMMA Ageing ==
    ASSUME NEW t \in Tree, WellFormed(t)
    PROVE  Aged(t) \in Tree /\ WellFormed(Aged(t))
  <1>1. Aged(t) \in Tree
    BY DEF Tree, Aged, Node, File, GeneratedFile
  <1>2. \A p \in Path : /\ Aged(t)[p] = "dir" <=> t[p] = "dir"
                        /\ Aged(t)[p] = "none" <=> t[p] = "none"
                        /\ Aged(t)[p] = "link" <=> t[p] = "link"
    BY DEF Aged
  <1>3. \A p \in Path : Ancestors(p) \subseteq Path
    BY PathAssumption
  <1>4. \A a \in Ancestors(Root) \cup {<<>>, Root} : Aged(t)[a] = "dir"
    BY <1>2, PathAssumption, RootAssumption DEF WellFormed
  <1> QED
    BY <1>1, <1>2, <1>3, <1>4 DEF WellFormed
-----------------------------------------------------------------------------
(* Type correctness.                                                       *)

(* Everything that was left has somewhere to land.                         *)
Landing == \A pos \in Positions : Entry(pos).dest \in Path /\ Entry(pos).dest # <<>>

(* What stands at the place merger.copy is filling, and around it.         *)
Copying ==
    /\ pc \in {"clearing", "creating", "filling"}
          => dest # <<>> /\ tree[Parent(Place(tree, dest))] = "dir"
    /\ pc = "creating" => tree[Place(tree, dest)] = "none"
    /\ pc = "filling" => tree[Place(tree, dest)] = "newpart"

Typed == TypeOK /\ Landing /\ Copying

(* No generators, no positions.                                            *)
LEMMA NobodyDeclared ==
    ASSUME manifest = <<>>
    PROVE  Generators = {} /\ Positions = {}
  BY DEF Generators, Positions

(* A run that has ended holds nothing.                                     *)
LEMMA Resting ==
    ASSUME Forget, tree' \in Tree, WellFormed(tree'), listed' \in SUBSET Path,
           scratch' \in BOOLEAN, outcome' \in Outcome
    PROVE  Typed'
  <1> USE DEF Forget
  <1>1. Generators' = {} /\ Positions' = {}
    BY DEF Generators, Positions
  <1>2. <<>> \in Path
    BY PathAssumption
  <1>3. start' \in Tree
    BY DEF NoTree, Tree, Node
  <1>4. exits' \in [Generators' -> {"running", "ok", "failed"}]
    BY <1>1
  <1>5. left' \in [Generators' -> Leaving \cup {<<>>}]
    BY <1>1
  <1>6. pending' \in SUBSET Positions'
    BY <1>1
  <1>7. TypeOK'
    BY <1>2, <1>3, <1>4, <1>5, <1>6 DEF TypeOK, Stage, MergeStage
  <1> QED
    BY <1>1, <1>7 DEF Typed, Landing, Copying

(* The project before its first run is typed.                              *)
LEMMA InitTyped == Init => Typed
  <1> SUFFICES ASSUME Init PROVE Typed
    OBVIOUS
  <1> USE DEF Init
  <1>1. Generators = {} /\ Positions = {}
    BY NobodyDeclared
  <1>2. tree \in Tree /\ start \in Tree
    BY DEF NoTree, Tree, Node
  <1>3. WellFormed(tree)
    <2>1. Root \in Seq(Name) /\ Ancestors(Root) \subseteq Path /\ Root \in Path /\ <<>> \in Path
      BY PathAssumption, RootAssumption
    <2>2. <<>> \in Ancestors(Root) \cup {Root}
      <3>1. CASE Root # <<>>
        <4>1. 0 \in 0 .. Len(Root) - 1 /\ SubSeq(Root, 1, 0) = <<>>
          BY <2>1, <3>1
        <4> QED
          BY <4>1 DEF Ancestors
      <3> QED
        BY <3>1
    <2>3. \A a \in Ancestors(Root) \cup {<<>>, Root} : tree[a] = "dir"
      BY <2>1, <2>2
    <2>4. ASSUME NEW p \in Path, tree[p] # "none", NEW a \in Ancestors(p)
          PROVE  tree[a] = "dir"
      <3>1. p = Root \/ p \in Ancestors(Root)
        BY <2>4
      <3>2. a \in Ancestors(Root)
        BY <2>1, <2>4, <3>1, AboveAnAncestor
      <3> QED
        BY <2>3, <3>2
    <2>5. \A p \in Path : tree[p] # "link"
      OBVIOUS
    <2> QED
      BY <2>3, <2>4, <2>5 DEF WellFormed
  <1>4. <<>> \in Path
    BY PathAssumption
  <1>5. exits \in [Generators -> {"running", "ok", "failed"}]
    BY <1>1
  <1>6. left \in [Generators -> Leaving \cup {<<>>}]
    BY <1>1
  <1>7. TypeOK
    BY <1>1, <1>2, <1>3, <1>4, <1>5, <1>6 DEF TypeOK, Stage, MergeStage, Outcome
  <1> QED
    BY <1>1, <1>7 DEF Typed, Landing, Copying
(* A person's edit.                                                        *)
LEMMA EditTyped ==
    ASSUME Typed, NEW p \in HandPath, NEW node \in {"none", "dir", "hand", "link", "other"},
           Edit(p, node)
    PROVE  Typed'
  <1> USE DEF Edit, Typed, TypeOK
  <1>1. p \in Path /\ p # <<>> /\ p # Root /\ node \in Node
    BY PersonAssumption DEF Node, File
  <1>2. tree' \in Tree /\ WellFormed(tree')
    <2>1. CASE tree[p] # "dir"
      BY <1>1, <2>1, PuttingIn
    <2>2. CASE tree[p] = "dir"
      BY <1>1, <2>2, TakingOut
    <2> QED
      BY <2>1, <2>2
  <1>3. listed' \in SUBSET Path
    OBVIOUS
  <1>4. UNCHANGED <<pc, runVars, work, fate>>
    OBVIOUS
  <1>5. TypeOK'
    BY <1>2, <1>3, <1>4 DEF runVars, work, fate, Generators, Positions
  <1>6. Landing' /\ Copying'
    BY <1>4 DEF runVars, work, Landing, Copying, Positions, Generators, Entry
  <1> QED
    BY <1>5, <1>6

(* A run takes over.                                                       *)
LEMMA BeginTyped ==
    ASSUME Typed, NEW m \in Manifest, Begin(m)
    PROVE  Typed'
  <1> USE DEF Begin, Typed, TypeOK
  <1>1. tree' \in Tree /\ WellFormed(tree') /\ start' \in Tree
    BY Ageing
  <1>2. Generators' = DOMAIN m /\ exits' \in [DOMAIN m -> {"running", "ok", "failed"}]
    BY DEF Generators
  <1>3. left' \in [DOMAIN m -> Leaving \cup {<<>>}]
    OBVIOUS
  <1>4. pending = {}
    BY DEF MergeStage
  <1>5. Positions' = {}
    BY <1>2 DEF Positions
  <1>6. TypeOK'
    BY <1>1, <1>2, <1>3, <1>4, <1>5 DEF work, Stage, MergeStage, Outcome
  <1> QED
    BY <1>5, <1>6 DEF Landing, Copying

(* A generator's output directory is a path.                               *)
LEMMA ManifestPaths ==
    ASSUME manifest \in Manifest \cup {<<>>}, NEW i \in Generators
    PROVE  manifest[i] \in Path /\ manifest[i] \in Seq(Name)
  <1>1. i \in DOMAIN manifest /\ manifest # <<>>
    BY NobodyDeclared DEF Generators
  <1>2. manifest \in Seq(Path)
    BY <1>1, ManifestAssumption
  <1>3. i \in 1 .. Len(manifest)
    BY <1>1, <1>2
  <1>4. manifest[i] \in Path
    BY <1>2, <1>3, ElementOfSeq
  <1> QED
    BY <1>4, PathAssumption

(* A generator's output lands on paths of the instance, below the top.     *)
LEMMA SucceedsTyped ==
    ASSUME Typed, NEW g \in Generators, NEW l \in Leaving, GeneratorSucceeds(g, l)
    PROVE  Typed'
  <1> USE DEF GeneratorSucceeds, Typed, TypeOK
  <1>1. UNCHANGED <<pc, manifest, previous, start, tree, listed, stale, emptied,
                    faulted, pending, dest, scratch, signalled, outcome>>
    BY DEF project, work, fate
  <1>2. exits' \in [Generators -> {"running", "ok", "failed"}]
    OBVIOUS
  <1>3. left' \in [Generators -> Leaving \cup {<<>>}]
    OBVIOUS
  <1>4. Generators' = Generators
    BY <1>1 DEF Generators
  <1>5. pending = {} /\ pc = "running"
    BY DEF MergeStage
  <1>6. TypeOK'
    BY <1>1, <1>2, <1>3, <1>4, <1>5
  <1>7. ASSUME NEW pos \in Positions'
        PROVE  Entry(pos)'.dest \in Path /\ Entry(pos)'.dest # <<>>
    <2>1. PICK i \in Generators : \E k \in DOMAIN left'[i] : pos = <<i, k>>
      BY <1>4, <1>7 DEF Positions
    <2>2. PICK k \in DOMAIN left'[i] : pos = <<i, k>>
      BY <2>1
    <2>3. Entry(pos)'.dest = manifest[i] \o left'[i][k].path
      BY <1>1, <2>2 DEF Entry
    <2>4. CASE i = g
      <3>1. left'[i] = l
        BY <2>4
      <3>2. manifest[i] \o l[k].path \in Path
        BY <2>2, <2>4, <3>1
      <3>3. l[k].path \in Seq(Name) /\ l[k].path # <<>>
        <4>1. l \in Seq([path : Seq(Name) \ {<<>>}, kind : EntryKind])
          BY ManifestAssumption
        <4>2. k \in 1 .. Len(l)
          BY <2>2, <3>1, <4>1
        <4>3. l[k] \in [path : Seq(Name) \ {<<>>}, kind : EntryKind]
          BY <4>1, <4>2, ElementOfSeq
        <4> QED
          BY <4>3
      <3>4. manifest[i] \in Seq(Name)
        BY <2>1, ManifestPaths
      <3>5. manifest[i] \o l[k].path # <<>>
        BY <3>3, <3>4
      <3> QED
        BY <2>3, <3>1, <3>2, <3>5
    <2>5. CASE i # g
      <3>1. left'[i] = left[i]
        BY <2>1, <2>5
      <3>2. pos \in Positions
        BY <2>1, <2>2, <3>1 DEF Positions
      <3>3. Entry(pos)'.dest = Entry(pos).dest
        BY <2>2, <2>3, <3>1 DEF Entry
      <3> QED
        BY <3>2, <3>3 DEF Landing
    <2> QED
      BY <2>4, <2>5
  <1>8. Landing'
    BY <1>7 DEF Landing
  <1>9. Copying'
    BY <1>1, <1>5 DEF Copying
  <1> QED
    BY <1>6, <1>8, <1>9

(* A step that leaves the generators' verdicts alone leaves the plan alone. *)
LEMMA PlanStays ==
    ASSUME UNCHANGED <<manifest, left>>
    PROVE  /\ Generators' = Generators
           /\ Positions' = Positions
           /\ \A pos : Entry(pos)' = Entry(pos)
           /\ Generated' = Generated
           /\ Wanted' = Wanted
  BY DEF Generators, Positions, Entry, Generated, PlannedFiles, Produced, Wanted, NeededDirs

(* What is generated are paths below the top.                              *)
LEMMA GeneratedPaths ==
    ASSUME Typed
    PROVE  Generated \subseteq Path \ {<<>>}
  <1>1. ASSUME NEW i \in Generators, NEW k \in DOMAIN left[i]
        PROVE  manifest[i] \o left[i][k].path \in Path \ {<<>>}
    <2>1. <<i, k>> \in Positions
      BY DEF Positions
    <2> QED
      BY <2>1 DEF Typed, Landing, Entry
  <1>2. ASSUME NEW i \in Generators, NEW e \in Produced(i)
        PROVE  e.dest \in Path \ {<<>>}
    <2>1. PICK k \in DOMAIN left[i] :
             e = [dest |-> manifest[i] \o left[i][k].path, kind |-> left[i][k].kind]
      BY DEF Produced
    <2> QED
      BY <1>1, <2>1
  <1>3. \A i \in Generators : PlannedFiles(i) \subseteq Path \ {<<>>}
    BY <1>2 DEF PlannedFiles
  <1> QED
    BY <1>3 DEF Generated
(* However a run ends, it ends typed.                                      *)
LEMMA EndTyped ==
    ASSUME Typed, NEW how \in Outcome, End(how), tree' \in Tree, WellFormed(tree'),
           listed' \in SUBSET Path
    PROVE  Typed'
  <1>1. scratch' \in BOOLEAN /\ outcome' \in Outcome
    BY DEF End, Outcome
  <1> QED
    BY <1>1, Resting DEF End

(* The root and the top are found nowhere but where they are.              *)
LEMMA TopStays ==
    ASSUME NEW t, WellFormed(t), NEW p \in Path
    PROVE  /\ Place(t, p) = <<>> <=> p = <<>>
           /\ Place(t, p) = Root <=> p = Root
           /\ Place(t, p) = RecordPath <=> p = RecordPath
  <1>1. Root \in Ancestors(RecordPath) /\ RecordPath \in Seq(Name) /\ Root \in Seq(Name)
    BY PathAssumption, RootAssumption, RecordAtRoot, ParentIsAncestor
  <1>2. <<>> \in Ancestors(RecordPath)
    <2>1. 0 \in 0 .. Len(RecordPath) - 1 /\ SubSeq(RecordPath, 1, 0) = <<>>
      BY <1>1, RecordAtRoot
    <2> QED
      BY <2>1 DEF Ancestors
  <1>3. ASSUME NEW a \in Ancestors(RecordPath) \cup {RecordPath} PROVE Place(t, a) = a
    <2>1. a \in Path /\ RecordPath \in Path
      BY PathAssumption, RootAssumption
    <2>2. \A k \in DOMAIN LinkTo : k \notin Ancestors(a)
      BY <1>1, LinkAssumption, AboveAnAncestor
    <2> QED
      BY <2>1, <2>2, PlaceIs
  <1> QED
    BY <1>1, <1>2, <1>3, PlaceOfPlace

(* What pruning and tidying do to the tree.                                *)
LEMMA PruneTyped ==
    ASSUME Typed, NEW f \in stale, Prune(f)
    PROVE  Typed'
  <1> USE DEF Prune, Typed, TypeOK
  <1>1. UNCHANGED <<listed, pc, faulted, pending, dest, manifest, exits, left,
                    previous, start, scratch, signalled, outcome>>
    BY DEF runVars, fate
  <1>2. f \in Path
    OBVIOUS
  <1>3. tree' \in Tree /\ WellFormed(tree') /\ emptied' \in SUBSET Path
    <2>1. CASE Removable(f)
      <3>1. PICK q \in Path : q = Place(tree, f)
        BY <1>2, PlaceOfPlace
      <3>2. tree[q] # "dir" /\ tree' = [tree EXCEPT ![q] = "none"]
        BY <2>1, <3>1 DEF Removable, File, GeneratedFile
      <3>3. Empty(tree, q) /\ q # <<>> /\ q # Root
        BY <3>2, NothingInAFile
      <3>4. tree' \in Tree /\ WellFormed(tree')
        BY <3>2, <3>3, TakingOut
      <3>5. f # <<>>
        BY <3>1, <3>3, TopStays
      <3> QED
        BY <1>2, <2>1, <3>4, <3>5, ParentInPath
    <2>2. CASE ~Removable(f)
      BY <2>2
    <2> QED
      BY <2>1, <2>2
  <1>4. TypeOK'
    BY <1>1, <1>3, PlanStays
  <1>5. Landing' /\ Copying'
    BY <1>1, PlanStays DEF Landing, Copying
  <1> QED
    BY <1>4, <1>5

LEMMA TidyTyped ==
    ASSUME Typed, NEW d \in emptied, Tidy(d)
    PROVE  Typed'
  <1> USE DEF Tidy, Typed, TypeOK
  <1>1. UNCHANGED <<listed, pc, stale, faulted, pending, dest, manifest, exits, left,
                    previous, start, scratch, signalled, outcome>>
    BY DEF runVars, fate
  <1>2. d \in Path
    OBVIOUS
  <1>3. tree' \in Tree /\ WellFormed(tree') /\ emptied' \in SUBSET Path
    <2>1. CASE Tidiable(d)
      <3>1. PICK q \in Path : q = Place(tree, d)
        BY <1>2, PlaceOfPlace
      <3>2. d # <<>> /\ d # Root /\ Empty(tree, q) /\ tree' = [tree EXCEPT ![q] = "none"]
        BY <2>1, <3>1 DEF Tidiable
      <3>3. q # <<>> /\ q # Root
        BY <1>2, <3>1, <3>2, TopStays
      <3>4. tree' \in Tree /\ WellFormed(tree')
        BY <3>2, <3>3, TakingOut
      <3> QED
        BY <1>2, <2>1, <3>2, <3>4, ParentInPath DEF WalkedOn
    <2>2. CASE ~Tidiable(d)
      BY <2>2 DEF WalkedOn
    <2> QED
      BY <2>1, <2>2
  <1>4. TypeOK'
    BY <1>1, <1>3, PlanStays
  <1>5. Landing' /\ Copying'
    BY <1>1, PlanStays DEF Landing, Copying
  <1> QED
    BY <1>4, <1>5

(* However a directory is looked for, it is found where its path leads.    *)
LEMMA DirThereFollowed ==
    ASSUME WellFormed(tree), NEW pos, NEW d \in Path, DirThere(pos, d)
    PROVE  tree[Followed(tree, d)] = "dir"
  <1>1. CASE tree[d] = "link"
    <2>1. OnTheWay(tree, d) = {}
      BY <1>1 DEF WellFormed, OnTheWay
    <2>2. Place(tree, d) = d
      BY <2>1 DEF Place
    <2> QED
      BY <1>1, <2>2 DEF DirThere
  <1>2. CASE tree[d] # "link"
    BY <1>2 DEF DirThere, Followed
  <1> QED
    BY <1>1, <1>2

(* What the merge does to it.                                              *)
LEMMA MakeDirectoryTyped ==
    ASSUME Typed, NEW pos \in pending, NEW d \in Path, MakeDirectory(pos, d)
    PROVE  Typed'
  <1> USE DEF MakeDirectory, Missing, IsNext, Typed, TypeOK
  <1>1. UNCHANGED <<listed, pc, stale, emptied, faulted, pending, dest, manifest, exits,
                    left, previous, start, scratch, signalled, outcome>>
    BY DEF runVars, work, fate
  <1>2. tree' \in Tree /\ WellFormed(tree')
    <2>1. PICK q \in Path : q = Place(tree, d)
      BY PlaceOfPlace
    <2>2. d # <<>> /\ tree[q] = "none" /\ tree' = [tree EXCEPT ![q] = "dir"]
      BY <2>1
    <2>3. Parent(d) \in Path
      BY <2>2, ParentInPath
    <2>4. q # <<>> /\ tree[Parent(q)] = "dir"
      BY <2>1, <2>2, <2>3, ParentOfPlace, DirThereFollowed
    <2>5. tree \in Tree /\ WellFormed(tree) /\ "dir" \in Node /\ "dir" # "link" /\ tree[q] # "dir"
      BY <2>2 DEF Node
    <2> HIDE DEF MakeDirectory, Missing, IsNext, Typed, TypeOK
    <2>6. [tree EXCEPT ![q] = "dir"] \in Tree /\ WellFormed([tree EXCEPT ![q] = "dir"])
      BY <2>4, <2>5, PuttingIn
    <2> QED
      BY <2>2, <2>6
  <1>3. TypeOK'
    BY <1>1, <1>2, PlanStays
  <1>4. Landing' /\ Copying'
    BY <1>1, PlanStays DEF Landing, Copying
  <1> QED
    BY <1>3, <1>4

LEMMA WriteFileTyped ==
    ASSUME Typed, NEW pos \in pending, WriteFile(pos)
    PROVE  Typed'
  <1> USE DEF WriteFile, IsNext, Typed, TypeOK
  <1>1. UNCHANGED <<tree, listed, stale, emptied, faulted, manifest, exits,
                    left, previous, start, scratch, signalled, outcome>>
    BY DEF runVars, project, fate
  <1>2. pos \in Positions
    OBVIOUS
  <1>3. dest' \in Path /\ dest' # <<>>
    BY <1>2 DEF Landing
  <1>4. dest' \in Seq(Name)
    BY <1>3, PathAssumption
  <1>5. Parent(dest') \in Ancestors(Entry(pos).dest)
    BY <1>3, <1>4, ParentIsAncestor
  <1>6. tree[Parent(Place(tree, dest'))] = "dir"
    <2>1. Parent(dest') \in Path /\ DirThere(pos, Parent(dest'))
      BY <1>3, <1>5, ParentInPath DEF InPlace, NeededDirs
    <2> QED
      BY <1>3, <2>1, ParentOfPlace, DirThereFollowed
  <1>7. TypeOK'
    BY <1>1, <1>3, PlanStays DEF Stage, MergeStage
  <1>8. Landing'
    BY <1>1, PlanStays DEF Landing
  <1>9. Copying'
    BY <1>1, <1>3, <1>6 DEF Copying
  <1> QED
    BY <1>7, <1>8, <1>9

LEMMA WriteRecordTyped ==
    ASSUME Typed, WriteRecord
    PROVE  Typed'
  <1> USE DEF WriteRecord, Typed, TypeOK
  <1>1. UNCHANGED <<tree, listed, stale, emptied, faulted, pending, manifest, exits,
                    left, previous, start, scratch, signalled, outcome>>
    BY DEF runVars, project, fate
  <1>2. dest' \in Path /\ dest' # <<>> /\ Parent(dest') = Root
    BY RecordAtRoot, RootAssumption
  <1>3. Place(tree, dest') = dest' /\ tree[Root] = "dir"
    BY RootAssumption, TopStays DEF WellFormed
  <1>4. TypeOK'
    BY <1>1, <1>2, PlanStays DEF Stage, MergeStage
  <1>5. Landing'
    BY <1>1, PlanStays DEF Landing
  <1>6. Copying'
    BY <1>1, <1>2, <1>3 DEF Copying
  <1> QED
    BY <1>4, <1>5, <1>6

LEMMA ClearTyped ==
    ASSUME Typed, Clear
    PROVE  Typed'
  <1> USE DEF Clear, Typed, TypeOK
  <1>1. PICK q \in Path : q = Place(tree, dest)
    BY PlaceOfPlace
  <1>2. CASE Occupied(q)
    BY <1>1, <1>2, EndTyped DEF project, Outcome
  <1>3. CASE ~Occupied(q)
    <2>1. UNCHANGED <<dest, stale, emptied, faulted, pending, manifest, exits, left,
                      previous, start, scratch, signalled, outcome>>
      BY <1>1, <1>3 DEF runVars, work, fate
    <2>2. /\ pc' = "creating" /\ tree' = [tree EXCEPT ![q] = "none"]
          /\ listed' = listed \/ listed' = {}
      BY <1>1, <1>3
    <2>3. dest # <<>> /\ q # <<>> /\ tree[Parent(q)] = "dir"
      BY <1>1, ParentOfPlace DEF Copying
    <2>4. Empty(tree, q) /\ q # Root
      BY <1>3, NothingInAFile DEF Occupied
    <2>5. tree' \in Tree /\ WellFormed(tree')
      BY <2>2, <2>3, <2>4, TakingOut
    <2>6. tree'[q] = "none" /\ tree'[Parent(q)] = "dir"
      BY <2>2, <2>3, ParentInPath DEF Tree
    <2>7. Place(tree', dest) = q
      BY <1>1, <2>2, AtItsPlace DEF Node
    <2>8. TypeOK'
      BY <2>1, <2>2, <2>5, PlanStays DEF Stage, MergeStage
    <2>9. Landing'
      BY <2>1, PlanStays DEF Landing
    <2>10. Copying'
      BY <2>1, <2>2, <2>3, <2>6, <2>7 DEF Copying
    <2> QED
      BY <2>8, <2>9, <2>10
  <1> QED
    BY <1>2, <1>3

LEMMA CreateTyped ==
    ASSUME Typed, Create
    PROVE  Typed'
  <1> USE DEF Create, Typed, TypeOK
  <1>1. UNCHANGED <<dest, listed, stale, emptied, faulted, pending, manifest, exits,
                    left, previous, start, scratch, signalled, outcome>>
    BY DEF runVars, work, fate
  <1>2. PICK q \in Path : q = Place(tree, dest)
    BY PlaceOfPlace
  <1>3. dest # <<>> /\ q # <<>> /\ tree[Parent(q)] = "dir" /\ tree[q] = "none"
    BY <1>2, ParentOfPlace DEF Copying
  <1>4. tree' = [tree EXCEPT ![q] = "newpart"] /\ pc' = "filling"
    BY <1>2
  <1>5. tree' \in Tree /\ WellFormed(tree') /\ Place(tree', dest) = q
    <2>1. /\ tree \in Tree /\ WellFormed(tree) /\ dest \in Path /\ tree[q] # "dir"
          /\ "newpart" \in Node /\ "newpart" # "link"
      BY <1>3 DEF Node, File, GeneratedFile
    <2> HIDE DEF Create, Typed, TypeOK
    <2>2. [tree EXCEPT ![q] = "newpart"] \in Tree /\ WellFormed([tree EXCEPT ![q] = "newpart"])
      BY <1>3, <2>1, PuttingIn
    <2>3. Place([tree EXCEPT ![q] = "newpart"], dest) = q
      BY <1>2, <2>1, AtItsPlace
    <2> QED
      BY <1>4, <2>2, <2>3
  <1>6. tree'[q] = "newpart" /\ tree'[Parent(q)] = "dir"
    BY <1>3, <1>4, ParentInPath DEF Tree
  <1>7. TypeOK'
    BY <1>1, <1>4, <1>5, PlanStays DEF Stage, MergeStage
  <1>8. Landing'
    BY <1>1, PlanStays DEF Landing
  <1>9. Copying'
    BY <1>1, <1>3, <1>4, <1>5, <1>6 DEF Copying
  <1> QED
    BY <1>7, <1>8, <1>9

LEMMA FillTyped ==
    ASSUME Typed, Fill
    PROVE  Typed'
  <1> USE DEF Fill, Typed, TypeOK
  <1>1. PICK q \in Path : q = Place(tree, dest)
    BY PlaceOfPlace
  <1>2. dest # <<>> /\ q # <<>> /\ tree[Parent(q)] = "dir" /\ tree[q] = "newpart"
    BY <1>1, ParentOfPlace DEF Copying
  <1>3. tree' \in Tree /\ WellFormed(tree')
    <2>1. tree' = [tree EXCEPT ![q] = "new"]
      BY <1>1
    <2>2. /\ tree \in Tree /\ WellFormed(tree) /\ tree[q] # "dir"
          /\ "new" \in Node /\ "new" # "link"
      BY <1>2 DEF Node, File, GeneratedFile
    <2> HIDE DEF Fill, Typed, TypeOK
    <2>3. [tree EXCEPT ![q] = "new"] \in Tree /\ WellFormed([tree EXCEPT ![q] = "new"])
      BY <1>2, <2>2, PuttingIn
    <2> QED
      BY <2>1, <2>3
  <1>4. CASE dest = RecordPath
    <2>1. listed' \in SUBSET Path
      BY <1>4, GeneratedPaths DEF Recorded
    <2> QED
      BY <1>3, <1>4, <2>1, EndTyped DEF Outcome
  <1>5. CASE dest # RecordPath
    <2>1. UNCHANGED <<dest, listed, stale, emptied, faulted, pending, manifest, exits,
                      left, previous, start, scratch, signalled, outcome>>
      BY <1>5 DEF runVars, work, fate
    <2>2. TypeOK'
      BY <1>3, <1>5, <2>1, PlanStays DEF Stage, MergeStage
    <2>3. Landing' /\ Copying'
      BY <1>5, <2>1, PlanStays DEF Landing, Copying
    <2> QED
      BY <2>2, <2>3
  <1> QED
    BY <1>4, <1>5

(* A step that changes neither the project nor the plan, and either leaves *)
(* the merge alone or takes one thing off it.                              *)
LEMMA QuietTyped ==
    ASSUME Typed, UNCHANGED <<project, manifest, left, start, dest>>,
           pc' \in Stage, pc' \notin {"clearing", "creating", "filling"} \/ pc' = pc,
           exits' \in [Generators -> {"running", "ok", "failed"}],
           previous' \in SUBSET Path, stale' \in SUBSET Path, emptied' \in SUBSET Path,
           faulted' \in BOOLEAN, pending' \in SUBSET Positions,
           pc' \notin MergeStage => pending' = {},
           scratch' \in BOOLEAN, signalled' \in BOOLEAN, outcome' \in Outcome
    PROVE  Typed'
  <1>1. UNCHANGED <<tree, listed>>
    BY DEF project
  <1>2. TypeOK'
    BY <1>1, PlanStays DEF Typed, TypeOK
  <1>3. Landing'
    BY PlanStays DEF Typed, Landing
  <1>4. Copying'
    BY <1>1 DEF Typed, Copying
  <1> QED
    BY <1>2, <1>3, <1>4 DEF Typed
(* Every step of every actor leaves it typed.                              *)
LEMMA StepTyped == Typed /\ [Next]_vars => Typed'
  <1> SUFFICES ASSUME Typed, [Next]_vars PROVE Typed'
    OBVIOUS
  <1> USE DEF Typed, TypeOK
  <1>1. tree \in Tree /\ WellFormed(tree) /\ listed \in SUBSET Path
    OBVIOUS
  <1>2. CASE PersonEdits
    BY <1>2, EditTyped DEF PersonEdits
  <1>3. CASE RefuseToStart
    BY <1>3, QuietTyped DEF RefuseToStart, project, runVars, work, Outcome
  <1>4. CASE \E m \in Manifest : Begin(m)
    BY <1>4, BeginTyped
  <1>5. CASE \E i \in Generators, l \in Leaving : GeneratorSucceeds(i, l)
    BY <1>5, SucceedsTyped
  <1>6. CASE \E i \in Generators : GeneratorFails(i)
    <2>1. PICK i \in Generators : GeneratorFails(i)
      BY <1>6
    <2> QED
      BY <2>1, QuietTyped DEF GeneratorFails, project, work, fate
  <1>7. CASE Collect
    <2>1. CASE AllSucceeded
      BY <1>7, <2>1, QuietTyped DEF Collect, project, runVars, work, fate, Stage, MergeStage
    <2>2. CASE ~AllSucceeded
      BY <1>1, <1>7, <2>2, EndTyped DEF Collect, project, Outcome
    <2> QED
      BY <2>1, <2>2
  <1>8. CASE Plan
    <2>1. CASE Refused
      BY <1>1, <1>8, <2>1, EndTyped DEF Plan, project, Outcome
    <2>2. CASE ~Refused
      BY <1>8, <2>2, QuietTyped DEF Plan, NoLonger, project, runVars, fate, Stage, MergeStage
    <2> QED
      BY <2>1, <2>2
  <1>9. CASE \E f \in stale : Prune(f)
    BY <1>9, PruneTyped
  <1>10. CASE \E f \in stale : PruneFault(f)
    BY <1>10, QuietTyped DEF PruneFault, project, runVars, fate, Stage, MergeStage
  <1>11. CASE Pruned
    <2>1. CASE faulted
      BY <1>1, <1>11, <2>1, EndTyped DEF Pruned, project, Outcome
    <2>2. CASE ~faulted
      BY <1>11, <2>2, QuietTyped DEF Pruned, project, runVars, work, fate, Stage, MergeStage
    <2> QED
      BY <2>1, <2>2
  <1>12. CASE \E d \in emptied : Tidy(d)
    BY <1>12, TidyTyped
  <1>13. CASE Tidied
    BY <1>13, QuietTyped DEF Tidied, project, runVars, fate, Stage, MergeStage
  <1>14. CASE Merge
    <2>1. CASE \E pos \in pending, d \in Path : MakeDirectory(pos, d)
      BY <2>1, MakeDirectoryTyped
    <2>2. CASE \E pos \in pending, d \in Path : Obstructed(pos, d)
      BY <1>1, <2>2, EndTyped DEF Obstructed, project, Outcome
    <2>3. CASE \E pos \in pending : WriteDirectory(pos)
      BY <2>3, QuietTyped DEF WriteDirectory, IsNext, project, runVars, fate, MergeStage
    <2>4. CASE \E pos \in pending : WriteFile(pos)
      BY <2>4, WriteFileTyped
    <2> QED
      BY <1>14, <2>1, <2>2, <2>3, <2>4, WriteRecordTyped, ClearTyped, CreateTyped, FillTyped
         DEF Merge
  <1>15. CASE \E d \in emptied : TidyFault(d)
    BY <1>15, QuietTyped DEF TidyFault, project, runVars, fate, Stage, MergeStage
  <1>16. CASE FilesystemFails
    BY <1>1, <1>16, EndTyped DEF FilesystemFails, project, Outcome
  <1>17. CASE Signal
    BY <1>17, QuietTyped DEF Signal, project, runVars, work
  <1>18. CASE Killed
    BY <1>1, <1>18, Resting DEF Killed, project, Outcome
  <1>19. CASE UNCHANGED vars
    BY <1>19, QuietTyped DEF vars, project, runVars, work, fate
  <1> QED
    BY <1>2, <1>3, <1>4, <1>5, <1>6, <1>7, <1>8, <1>9, <1>10, <1>11, <1>12, <1>13, <1>14,
       <1>15, <1>16, <1>17, <1>18, <1>19 DEF Next, Step

(* Whatever the project, its manifests and its generators are, every       *)
(* variable of every run holds what the code can put there, and what       *)
(* stands in the tree always stands in a directory: no run and no          *)
(* interruption of one leaves anything hanging in the air.                 *)
THEOREM TypeCorrect == Spec => []TypeOK
  <1>1. Typed => TypeOK
    BY DEF Typed
  <1> QED
    BY InitTyped, StepTyped, <1>1, PTL DEF Spec

(* The same for the strengthening the theorems below rest on.              *)
THEOREM AlwaysTyped == Spec => []Typed
  BY InitTyped, StepTyped, PTL DEF Spec
-----------------------------------------------------------------------------
(* Nothing is touched before everything has been accepted.                 *)

(* What the run has established by the time it reaches each stage.         *)
Settled ==
    /\ pc \in {"running", "planning"} => tree = start
    /\ pc \notin {"idle", "running"} => AllSucceeded
    /\ pc \notin {"idle", "running", "planning"} => ~Refused

(* A run that is past its verdict stays past it, or ends.                  *)
LEMMA SettledStays ==
    ASSUME Settled, pc \notin {"idle", "running", "planning"},
           \/ pc' = "idle"
           \/ UNCHANGED <<manifest, exits, left>> /\ pc' \notin {"idle", "running", "planning"}
    PROVE  Settled'
  <1>1. CASE pc' = "idle"
    BY <1>1 DEF Settled
  <1>2. CASE UNCHANGED <<manifest, exits, left>> /\ pc' \notin {"idle", "running", "planning"}
    <2>1. Refused' = Refused /\ AllSucceeded' = AllSucceeded
      BY <1>2 DEF Refused, AllSucceeded, Generators, Unmergeable, Produced, Collides,
                  PlannedFiles, PlannedDirs, Required, Generated
    <2> QED
      BY <1>2, <2>1 DEF Settled
  <1> QED
    BY <1>1, <1>2

LEMMA StepSettled == Typed /\ Settled /\ [Next]_vars => Settled'
  <1> SUFFICES ASSUME Typed, Settled, [Next]_vars PROVE Settled'
    OBVIOUS
  <1> USE DEF project, runVars, work, fate, End, Forget
  <1>1. CASE PersonEdits
    BY <1>1 DEF PersonEdits, Edit, Settled
  <1>2. CASE RefuseToStart
    BY <1>2 DEF RefuseToStart, Settled
  <1>3. CASE \E m \in Manifest : Begin(m)
    BY <1>3 DEF Begin, Settled
  <1>4. CASE \E i \in Generators, l \in Leaving : GeneratorSucceeds(i, l)
    BY <1>4 DEF GeneratorSucceeds, Settled
  <1>5. CASE \E i \in Generators : GeneratorFails(i)
    BY <1>5 DEF GeneratorFails, Settled
  <1>6. CASE Collect
    <2>1. CASE AllSucceeded
      BY <1>6, <2>1 DEF Collect, Settled, AllSucceeded, Generators
    <2>2. CASE ~AllSucceeded
      BY <1>6, <2>2 DEF Collect, Settled
    <2> QED
      BY <2>1, <2>2
  <1>7. CASE Plan
    <2>1. CASE Refused
      BY <1>7, <2>1 DEF Plan, Settled
    <2>2. CASE ~Refused
      <3>1. UNCHANGED <<manifest, exits, left>> /\ pc' = "pruning" /\ pc = "planning"
        BY <1>7, <2>2 DEF Plan
      <3>2. Refused' = Refused /\ AllSucceeded' = AllSucceeded
        BY <3>1 DEF Refused, AllSucceeded, Generators, Unmergeable, Produced, Collides,
                    PlannedFiles, PlannedDirs, Required, Generated
      <3> QED
        BY <2>2, <3>1, <3>2 DEF Settled
    <2> QED
      BY <2>1, <2>2
  <1>8. CASE \E f \in stale : Prune(f) \/ PruneFault(f)
    BY <1>8, SettledStays DEF Prune, PruneFault
  <1>9. CASE Pruned
    BY <1>9, SettledStays DEF Pruned
  <1>10. CASE \E d \in emptied : Tidy(d) \/ TidyFault(d)
    BY <1>10, SettledStays DEF Tidy, TidyFault
  <1>11. CASE Tidied
    BY <1>11, SettledStays DEF Tidied
  <1>12. CASE Merge
    <2>1. CASE \E pos \in pending, d \in Path : MakeDirectory(pos, d) \/ Obstructed(pos, d)
      BY <2>1, SettledStays DEF MakeDirectory, Obstructed, IsNext
    <2>2. CASE \E pos \in pending : WriteDirectory(pos) \/ WriteFile(pos)
      BY <2>2, SettledStays DEF WriteDirectory, WriteFile, IsNext
    <2>3. CASE WriteRecord
      BY <2>3, SettledStays DEF WriteRecord
    <2>4. CASE Clear
      BY <2>4, SettledStays DEF Clear
    <2>5. CASE Create
      BY <2>5, SettledStays DEF Create
    <2>6. CASE Fill
      BY <2>6, SettledStays DEF Fill
    <2> QED
      BY <1>12, <2>1, <2>2, <2>3, <2>4, <2>5, <2>6 DEF Merge
  <1>13. CASE FilesystemFails
    BY <1>13 DEF FilesystemFails, Settled
  <1>14. CASE Signal
    <2>1. UNCHANGED <<pc, tree, start, manifest, exits, left>>
      BY <1>14 DEF Signal
    <2>2. Refused' = Refused /\ AllSucceeded' = AllSucceeded
      BY <2>1 DEF Refused, AllSucceeded, Generators, Unmergeable, Produced, Collides,
                  PlannedFiles, PlannedDirs, Required, Generated
    <2> QED
      BY <2>1, <2>2 DEF Settled
  <1>15. CASE Killed
    BY <1>15 DEF Killed, Settled
  <1>16. CASE UNCHANGED vars
    <2>1. UNCHANGED <<pc, tree, start, manifest, exits, left>>
      BY <1>16 DEF vars
    <2>2. Refused' = Refused /\ AllSucceeded' = AllSucceeded
      BY <2>1 DEF Refused, AllSucceeded, Generators, Unmergeable, Produced, Collides,
                  PlannedFiles, PlannedDirs, Required, Generated
    <2> QED
      BY <2>1, <2>2 DEF Settled
  <1> QED
    BY <1>1, <1>2, <1>3, <1>4, <1>5, <1>6, <1>7, <1>8, <1>9, <1>10, <1>11, <1>12, <1>13,
       <1>14, <1>15, <1>16 DEF Next, Step

(* What a generator left, told by kind, is what the plan calls it.         *)
LEMMA LandedIsPlanned ==
    ASSUME NEW i \in Generators
    PROVE  /\ Landed(manifest, left, i, "file") = PlannedFiles(i)
           /\ Landed(manifest, left, i, "dir") = PlannedDirs(i)
           /\ Landed(manifest, left, i, "other") # {} => Unmergeable(i)
  <1>1. ASSUME NEW kind
        PROVE  Landed(manifest, left, i, kind)
                 = {e.dest : e \in {f \in Produced(i) : f.kind = kind}}
    <2> DEFINE planned == {e.dest : e \in {f \in Produced(i) : f.kind = kind}}
    <2>1. ASSUME NEW p \in Landed(manifest, left, i, kind) PROVE p \in planned
      <3>1. PICK k \in DOMAIN left[i] :
               left[i][k].kind = kind /\ p = manifest[i] \o left[i][k].path
        BY <2>1 DEF Landed
      <3> DEFINE e == [dest |-> manifest[i] \o left[i][k].path, kind |-> left[i][k].kind]
      <3>2. e \in Produced(i) /\ e.kind = kind /\ e.dest = p
        BY <3>1 DEF Produced
      <3> QED
        BY <3>2
    <2>2. ASSUME NEW p \in planned PROVE p \in Landed(manifest, left, i, kind)
      <3>1. PICK e \in Produced(i) : e.kind = kind /\ p = e.dest
        BY <2>2
      <3>2. PICK k \in DOMAIN left[i] :
               e = [dest |-> manifest[i] \o left[i][k].path, kind |-> left[i][k].kind]
        BY <3>1 DEF Produced
      <3>3. left[i][k].kind = kind /\ p = manifest[i] \o left[i][k].path
        BY <3>1, <3>2
      <3> QED
        BY <3>3 DEF Landed
    <2> QED
      BY <2>1, <2>2
  <1> QED
    BY <1>1 DEF PlannedFiles, PlannedDirs, Unmergeable

(* What the run does not refuse is what nobody could object to.            *)
LEMMA NotRefused ==
    ASSUME Typed, ~Refused
    PROVE  Acceptable(manifest, left)
  <1> SUFFICES ASSUME NEW i \in Generators
               PROVE  /\ Landed(manifest, left, i, "other") = {}
                      /\ \A f \in Landed(manifest, left, i, "file") :
                            /\ f = Root \/ IsBeneath(f, Root)
                            /\ f # RecordPath
                            /\ \A j \in Generators \ {i} :
                                  /\ f \notin Landed(manifest, left, j, "file")
                                                \cup Landed(manifest, left, j, "dir")
                                  /\ f # manifest[j] /\ ~IsBeneath(manifest[j], f)
    BY DEF Acceptable, Generators
  <1>1. Landed(manifest, left, i, "other") = {}
    BY LandedIsPlanned DEF Refused
  <1>2. ASSUME NEW f \in Landed(manifest, left, i, "file")
        PROVE  /\ f = Root \/ IsBeneath(f, Root)
               /\ f # RecordPath
               /\ \A j \in Generators \ {i} :
                     /\ f \notin Landed(manifest, left, j, "file")
                                   \cup Landed(manifest, left, j, "dir")
                     /\ f # manifest[j] /\ ~IsBeneath(manifest[j], f)
    <2>1. f \in PlannedFiles(i)
      BY LandedIsPlanned
    <2>2. f \in Generated
      BY <2>1 DEF Generated
    <2>3. (f = Root \/ IsBeneath(f, Root)) /\ f # RecordPath
      BY <2>2 DEF Refused, Recordable
    <2>4. ASSUME NEW j \in Generators \ {i}
          PROVE  /\ f \notin Landed(manifest, left, j, "file")
                               \cup Landed(manifest, left, j, "dir")
                 /\ f # manifest[j] /\ ~IsBeneath(manifest[j], f)
      <3>1. f \notin PlannedFiles(j) \cup PlannedDirs(j) \cup Required(j)
        BY <2>1 DEF Refused, Collides
      <3>2. f \in Seq(Name)
        BY <2>2, GeneratedPaths, PathAssumption
      <3>3. manifest[j] \in Seq(Name)
        BY ManifestPaths DEF Typed, TypeOK
      <3>4. ~IsBeneath(manifest[j], f)
        BY <3>1, <3>2, <3>3, BeneathOrAncestor DEF Required
      <3> QED
        BY <3>1, <3>4, LandedIsPlanned DEF Required
    <2> QED
      BY <2>3, <2>4
  <1> QED
    BY <1>1, <1>2

(* No generator that fails, no symlink one leaves and no path two of them  *)
(* claim ever costs the project anything: until every one has succeeded    *)
(* and the whole plan has been accepted, the tree is the one the run found. *)
THEOREM NothingBeforeTheVerdict == Spec => []UntouchedUntilAccepted
  <1>1. Init => Settled
    BY DEF Init, Settled
  <1>2. Typed /\ Settled => UntouchedUntilAccepted
    <2> SUFFICES ASSUME Typed, Settled, pc # "idle", tree # start
                 PROVE  AllSucceeded /\ Acceptable(manifest, left)
      BY DEF UntouchedUntilAccepted
    <2> QED
      BY NotRefused DEF Settled
  <1> QED
    BY AlwaysTyped, StepSettled, <1>1, <1>2, PTL DEF Spec
-----------------------------------------------------------------------------
(* What the order of the merge rests on: one plan, walked once.            *)

(* What a generator left is one of the walks there may be, or nothing.     *)
LEMMA EntriesLeft ==
    ASSUME Typed, NEW i \in Generators, NEW k \in DOMAIN left[i]
    PROVE  /\ left[i] \in Leaving
           /\ k \in 1 .. Len(left[i])
           /\ left[i][k].path \in Seq(Name) /\ left[i][k].path # <<>>
           /\ manifest[i] \in Seq(Name)
  <1>1. left[i] \in Leaving \cup {<<>>}
    BY DEF Typed, TypeOK
  <1>2. left[i] # <<>>
    OBVIOUS
  <1>3. left[i] \in Leaving /\ left[i] \in Seq([path : Seq(Name) \ {<<>>}, kind : EntryKind])
    BY <1>1, <1>2, ManifestAssumption
  <1>4. k \in 1 .. Len(left[i])
    BY <1>3
  <1>5. left[i][k] \in [path : Seq(Name) \ {<<>>}, kind : EntryKind]
    BY <1>3, <1>4, ElementOfSeq
  <1>6. manifest[i] \in Seq(Name)
    BY ManifestPaths DEF Typed, TypeOK
  <1> QED
    BY <1>3, <1>4, <1>5, <1>6

(* Joining is injective in its second part.                                *)
LEMMA SameJoin ==
    ASSUME NEW s \in Seq(Name), NEW t \in Seq(Name), NEW u \in Seq(Name), s \o t = s \o u
    PROVE  t = u
  <1>1. Len(s) \in Nat /\ Len(t) \in Nat /\ Len(u) \in Nat
        /\ Len(s \o t) = Len(s) + Len(t) /\ Len(s \o u) = Len(s) + Len(u)
    OBVIOUS
  <1>2. Len(t) = Len(u)
    BY <1>1
  <1>3. ASSUME NEW k \in 1 .. Len(t) PROVE t[k] = u[k]
    <2>1. (s \o t)[Len(s) + k] = t[k]
      BY <1>1
    <2>2. (s \o u)[Len(s) + k] = u[k]
      BY <1>1, <1>2
    <2> QED
      BY <2>1, <2>2
  <1> QED
    BY <1>2, <1>3

(* A directory above an entry is one its generator left, or is above its   *)
(* output.                                                                 *)
LEMMA WalkedAbove ==
    ASSUME Typed, NEW pos \in Positions, NEW a \in NeededDirs(Entry(pos))
    PROVE  a \in Required(pos[1]) \cup PlannedDirs(pos[1])
  <1>1. PICK i \in Generators : \E k \in DOMAIN left[i] : pos = <<i, k>>
    BY DEF Positions
  <1>2. PICK k \in DOMAIN left[i] : pos = <<i, k>>
    BY <1>1
  <1> DEFINE s == manifest[i]
             t == left[i][k].path
  <1>3. Entry(pos) = [dest |-> s \o t, kind |-> left[i][k].kind]
    BY <1>1, <1>2 DEF Entry
  <1>4. s \in Seq(Name) /\ t \in Seq(Name) /\ left[i] \in Leaving /\ k \in 1 .. Len(left[i])
    BY <1>1, <1>2, EntriesLeft
  <1>5. CASE a = s \o t /\ left[i][k].kind = "dir"
    <2> DEFINE e == [dest |-> s \o t, kind |-> left[i][k].kind]
    <2>1. e \in Produced(i)
      BY <1>2 DEF Produced
    <2>2. e.kind = "dir" /\ e.dest = a
      BY <1>5
    <2>3. a \in PlannedDirs(i)
      BY <2>1, <2>2 DEF PlannedDirs
    <2> QED
      BY <1>2, <2>3
  <1>6. CASE a \in Ancestors(s \o t)
    <2>1. CASE a \in Ancestors(s) \cup {s}
      BY <1>1, <1>2, <2>1 DEF Required
    <2>2. CASE \E n \in 1 .. Len(t) - 1 : a = s \o SubSeq(t, 1, n)
      <3>1. PICK n \in 1 .. Len(t) - 1 : a = s \o SubSeq(t, 1, n)
        BY <2>2
      <3>2. PICK j \in 1 .. k - 1 : left[i][j] = [path |-> SubSeq(t, 1, n), kind |-> "dir"]
        BY <1>1, <1>2, <1>4, <3>1, WalkAssumption
      <3>3. left[i] \in Seq([path : Seq(Name) \ {<<>>}, kind : EntryKind])
        BY <1>4, ManifestAssumption
      <3>4. j \in DOMAIN left[i]
        BY <1>4, <3>3
      <3> DEFINE e == [dest |-> a, kind |-> "dir"]
      <3>5. e = [dest |-> s \o left[i][j].path, kind |-> left[i][j].kind]
        BY <3>1, <3>2
      <3>6. e \in Produced(i)
        BY <3>4, <3>5 DEF Produced
      <3>7. e.kind = "dir" /\ e.dest = a
        OBVIOUS
      <3>8. a \in PlannedDirs(i)
        BY <3>6, <3>7 DEF PlannedDirs
      <3> QED
        BY <1>2, <3>8
    <2> QED
      BY <1>4, <1>6, <2>1, <2>2, AboveAJoin
  <1>7. Entry(pos).dest = s \o t /\ Entry(pos).kind = left[i][k].kind
    <2>1. pos[1] = i /\ pos[2] = k
      BY <1>2
    <2> QED
      BY <2>1 DEF Entry
  <1>8. \/ a \in Ancestors(s \o t)
        \/ a = s \o t /\ left[i][k].kind = "dir"
    BY <1>7 DEF NeededDirs
  <1> QED
    BY <1>5, <1>6, <1>8

(* Where one generator's file is planned, it needs no directory itself.    *)
LEMMA OwnFilesApart ==
    ASSUME Typed, NEW i \in Generators
    PROVE  PlannedFiles(i) \cap (Required(i) \cup PlannedDirs(i)) = {}
  <1> SUFFICES ASSUME NEW f \in PlannedFiles(i)
               PROVE  f \notin Required(i) \cup PlannedDirs(i)
    OBVIOUS
  <1>1. PICK e \in Produced(i) : e.kind = "file" /\ f = e.dest
    BY DEF PlannedFiles
  <1>2. PICK k \in DOMAIN left[i] : e = [dest |-> manifest[i] \o left[i][k].path, kind |-> left[i][k].kind]
    BY DEF Produced
  <1>3. f = manifest[i] \o left[i][k].path /\ left[i][k].kind = "file"
    BY <1>1, <1>2
  <1> DEFINE s == manifest[i]
             t == left[i][k].path
  <1>4. s \in Seq(Name) /\ t \in Seq(Name) /\ t # <<>> /\ left[i] \in Leaving
    BY <1>3, EntriesLeft
  <1>5. Len(f) > Len(s)
    <2>1. Len(s) \in Nat /\ Len(t) \in Nat /\ Len(t) # 0 /\ Len(s \o t) = Len(s) + Len(t)
      BY <1>4
    <2>2. Len(f) = Len(s) + Len(t)
      BY <1>3, <2>1
    <2> HIDE DEF s, t
    <2> QED
      BY <2>1, <2>2
  <1>6. \A a \in Required(i) : Len(a) <= Len(s)
    BY <1>4 DEF Required, Ancestors
  <1>7. ASSUME f \in PlannedDirs(i) PROVE FALSE
    <2>1. PICK d \in Produced(i) : d.kind = "dir" /\ f = d.dest
      BY <1>7 DEF PlannedDirs
    <2>2. PICK j \in DOMAIN left[i] : d = [dest |-> s \o left[i][j].path, kind |-> left[i][j].kind]
      BY DEF Produced
    <2>3. f = s \o left[i][j].path /\ left[i][j].kind = "dir"
      BY <2>1, <2>2
    <2>4. left[i][j].path \in Seq(Name)
      BY <2>3, EntriesLeft
    <2>5. left[i][j].path = t
      BY <1>3, <1>4, <2>3, <2>4, SameJoin
    <2>6. j = k
      BY <1>3, <1>4, <2>3, <2>5, WalkAssumption
    <2> QED
      BY <1>3, <2>3, <2>6
  <1>8. f \notin Required(i)
    BY <1>4, <1>5, <1>6
  <1> QED
    BY <1>7, <1>8

(* The directories a plan needs are paths, and with each the one above it.  *)
LEMMA WantedPaths ==
    ASSUME Typed
    PROVE  Wanted \subseteq Path
  <1> SUFFICES ASSUME NEW pos \in Positions, NEW a \in NeededDirs(Entry(pos))
               PROVE  a \in Path
    BY DEF Wanted
  <1>1. Entry(pos).dest \in Path
    BY DEF Typed, Landing
  <1>2. a \in Ancestors(Entry(pos).dest) \cup {Entry(pos).dest}
    BY DEF NeededDirs
  <1> QED
    BY <1>1, <1>2, PathAssumption

(* Nowhere in an accepted plan are a file and a directory wanted at once.  *)
LEMMA FilesApart ==
    ASSUME Typed, ~Refused
    PROVE  Generated \cap Wanted = {}
  <1> SUFFICES ASSUME NEW f \in Generated, f \in Wanted PROVE FALSE
    OBVIOUS
  <1>1. PICK i \in Generators : f \in PlannedFiles(i)
    BY DEF Generated
  <1>2. PICK pos \in Positions : f \in NeededDirs(Entry(pos))
    BY DEF Wanted
  <1>3. PICK j \in Generators : pos[1] = j
    BY <1>2 DEF Positions
  <1>4. f \in Required(j) \cup PlannedDirs(j)
    BY <1>2, <1>3, WalkedAbove
  <1>5. i = j
    BY <1>1, <1>3, <1>4 DEF Refused, Collides
  <1> QED
    BY <1>1, <1>4, <1>5, OwnFilesApart

(* An accepted plan writes no file twice.                                  *)
LEMMA FilesOnce ==
    ASSUME Typed, ~Refused, NEW a \in Positions, NEW b \in Positions,
           Entry(a).kind = "file", Entry(b).kind = "file", Entry(a).dest = Entry(b).dest
    PROVE  a = b
  <1>1. PICK i \in Generators : \E k \in DOMAIN left[i] : a = <<i, k>>
    BY DEF Positions
  <1>2. PICK k \in DOMAIN left[i] : a = <<i, k>>
    BY <1>1
  <1>3. PICK j \in Generators : \E m \in DOMAIN left[j] : b = <<j, m>>
    BY DEF Positions
  <1>4. PICK m \in DOMAIN left[j] : b = <<j, m>>
    BY <1>3
  <1>5. Entry(a) \in Produced(i) /\ Entry(b) \in Produced(j)
    BY <1>1, <1>2, <1>3, <1>4 DEF Produced, Entry
  <1>6. Entry(a).dest \in PlannedFiles(i) \cap PlannedFiles(j)
    BY <1>5 DEF PlannedFiles
  <1>7. i = j
    BY <1>6 DEF Refused, Collides
  <1>8. left[i][k].path \in Seq(Name) /\ left[i][m].path \in Seq(Name) /\ manifest[i] \in Seq(Name)
        /\ left[i] \in Leaving
    BY <1>1, <1>2, <1>3, <1>4, <1>7, EntriesLeft
  <1>9. manifest[i] \o left[i][k].path = manifest[i] \o left[i][m].path
    BY <1>1, <1>2, <1>3, <1>4, <1>7 DEF Entry
  <1>10. left[i][k].path = left[i][m].path
    BY <1>8, <1>9, SameJoin
  <1>11. k = m
    BY <1>1, <1>2, <1>3, <1>4, <1>7, <1>8, <1>10, WalkAssumption
  <1> QED
    BY <1>1, <1>2, <1>3, <1>4, <1>7, <1>11

(* What a planned entry is, the plan names.                                *)
LEMMA PlannedEntries ==
    ASSUME NEW pos \in Positions
    PROVE  /\ NeededDirs(Entry(pos)) \subseteq Wanted
           /\ Entry(pos).kind = "file" => Entry(pos).dest \in Generated
  <1>1. NeededDirs(Entry(pos)) \subseteq Wanted
    BY DEF Wanted
  <1>2. ASSUME Entry(pos).kind = "file" PROVE Entry(pos).dest \in Generated
    <2>1. PICK i \in Generators : \E k \in DOMAIN left[i] : pos = <<i, k>>
      BY DEF Positions
    <2>2. PICK k \in DOMAIN left[i] : pos = <<i, k>>
      BY <2>1
    <2>3. Entry(pos) \in Produced(i)
      BY <2>2 DEF Entry, Produced
    <2>4. Entry(pos).dest \in PlannedFiles(i)
      BY <1>2, <2>3 DEF PlannedFiles
    <2> QED
      BY <2>4 DEF Generated
  <1> QED
    BY <1>1, <1>2

(* What the plan needs for a directory, or to put a file in, lies in       *)
(* nothing but what it needs.                                              *)
LEMMA WantedAbove ==
    ASSUME Typed, NEW p \in Wanted \cup Generated
    PROVE  Ancestors(p) \subseteq Wanted
  <1>1. CASE p \in Wanted
    <2>1. PICK pos \in Positions : p \in NeededDirs(Entry(pos))
      BY <1>1 DEF Wanted
    <2>2. Entry(pos).dest \in Seq(Name)
      BY PathAssumption DEF Typed, Landing
    <2>3. p = Entry(pos).dest \/ p \in Ancestors(Entry(pos).dest)
      BY <2>1 DEF NeededDirs
    <2>4. Ancestors(p) \subseteq Ancestors(Entry(pos).dest)
      BY <2>2, <2>3, AboveAnAncestor
    <2>5. Ancestors(Entry(pos).dest) \subseteq Wanted
      BY PlannedEntries DEF NeededDirs
    <2> QED
      BY <2>4, <2>5
  <1>2. CASE p \in Generated
    <2>1. PICK i \in Generators : p \in PlannedFiles(i)
      BY <1>2 DEF Generated
    <2>2. PICK e \in Produced(i) : p = e.dest
      BY <2>1 DEF PlannedFiles
    <2>3. PICK k \in DOMAIN left[i] :
             e = [dest |-> manifest[i] \o left[i][k].path, kind |-> left[i][k].kind]
      BY DEF Produced
    <2>4. <<i, k>> \in Positions
      BY <2>3 DEF Positions
    <2>5. PICK pos : pos = <<i, k>> /\ pos \in Positions
      BY <2>4
    <2>6. Entry(pos).dest = p
      BY <2>2, <2>3, <2>5 DEF Entry
    <2> QED
      BY <2>5, <2>6, PlannedEntries DEF NeededDirs
  <1> QED
    BY <1>1, <1>2
-----------------------------------------------------------------------------
(* What a run may change.                                                  *)

(* A path lies beneath its parent.                                         *)
LEMMA BeneathParent ==
    ASSUME NEW p \in Seq(Name), p # <<>>
    PROVE  IsBeneath(p, Parent(p))
  BY ParentIsAncestor, LenOfParent, BeneathOrAncestor

(* What lies beneath a path lies beneath its parent.                       *)
LEMMA BeneathTheParentToo ==
    ASSUME NEW p \in Seq(Name), p # <<>>, NEW q \in Seq(Name), IsBeneath(q, p)
    PROVE  IsBeneath(q, Parent(p))
  <1>1. p \in Ancestors(q) /\ Parent(p) \in Ancestors(p) /\ Parent(p) \in Seq(Name)
    BY ParentIsAncestor, LenOfParent, BeneathOrAncestor
  <1>2. Parent(p) \in Ancestors(q)
    BY <1>1, AboveAnAncestor
  <1> QED
    BY <1>1, <1>2, BeneathOrAncestor

(* The parent of what lies beneath a path is that path or lies beneath it. *)
LEMMA ParentOfBeneath ==
    ASSUME NEW r \in Seq(Name), NEW p \in Seq(Name), IsBeneath(p, r)
    PROVE  p # <<>> /\ (Parent(p) = r \/ IsBeneath(Parent(p), r))
  <1>1. r \in Ancestors(p)
    BY BeneathOrAncestor
  <1>2. p # <<>>
    BY DEF IsBeneath
  <1>3. Parent(p) \in Seq(Name) /\ (r = Parent(p) \/ r \in Ancestors(Parent(p)))
    BY <1>1, <1>2, AboveTheParent, LenOfParent
  <1> QED
    BY <1>2, <1>3, BeneathOrAncestor

(* A directory the walk upward may come to, or a link to one.              *)
Reached(d) ==
    /\ start[Place(start, d)] \in {"dir", "link"}
    /\ d = Root \/ IsBeneath(d, Root)
    /\ \E f \in previous \ Generated : IsBeneath(f, d)

(* Before the merge, all that has happened is that files, and then         *)
(* directories and links to them, have gone.                               *)
OnlyGone ==
    /\ pc = "pruning" => \A p \in Path : tree[p] # start[p] => PrunedAway(p)
    /\ pc \in {"pruning", "tidying"} =>
        /\ \A d \in emptied : Reached(d)
        /\ \A p \in Path : tree[p] # start[p] => PrunedAway(p) \/ TidiedAway(p)

(* No run makes a link, nor takes one away that is on its way: where the   *)
(* plan leads stays the same for as long as the run lasts.                 *)
Straight ==
    pc # "idle" => \A p \in Path :
        /\ tree[p] = "link" => start[p] = "link"
        /\ start[p] = "link" /\ p \in Wanted => tree[p] = "link"

CopyStage == {"clearing", "creating", "filling"}

Bounded ==
    /\ \A p \in listed \cup previous : Recordable(p)
    /\ pc # "idle" => WellFormed(start)
    /\ pc = "pruning" => stale \subseteq previous \ Generated
    /\ pc \in {"idle", "running", "planning"} => emptied = {}
    /\ OnlyGone
    /\ pc \in CopyStage => dest \in Generated \cup {RecordPath}
    /\ Straight
    /\ Confined

(* What the run writes and makes leads where it led when the run began.    *)
LEMMA WhereThePlanLeads ==
    ASSUME Typed, Bounded, pc # "idle", NEW p \in Wanted \cup Generated \cup {RecordPath}
    PROVE  /\ p \in Path
           /\ Place(tree, p) = Place(start, p)
           /\ p \in Wanted => Followed(tree, p) = Followed(start, p)
  <1>1. p \in Path
    BY WantedPaths, GeneratedPaths, RootAssumption
  <1>2. \A a \in Ancestors(p) : a \in DOMAIN LinkTo => a \in Wanted
    <2>1. CASE p \in Wanted \cup Generated
      BY <2>1, WantedAbove
    <2>2. CASE p = RecordPath
      BY <2>2, LinkAssumption
    <2> QED
      BY <2>1, <2>2
  <1>3. WellFormed(tree) /\ WellFormed(start) /\ Straight
    BY DEF Typed, TypeOK, Bounded
  <1>4. OnTheWay(tree, p) = OnTheWay(start, p)
    <2>1. Ancestors(p) \subseteq Path
      BY <1>1, PathAssumption
    <2>2. \A a \in Ancestors(p) : tree[a] = "link" <=> start[a] = "link"
      BY <1>2, <1>3, <2>1 DEF Straight, WellFormed
    <2> QED
      BY <2>2 DEF OnTheWay
  <1>5. Place(tree, p) = Place(start, p)
    BY <1>4, SameWay
  <1>6. p \in Wanted => (tree[p] = "link" <=> start[p] = "link")
    BY <1>1, <1>3 DEF Straight
  <1> QED
    BY <1>1, <1>5, <1>6 DEF Followed

(* A change at one path leaves the run within its bounds if that change    *)
(* is itself within them.                                                  *)
LEMMA ConfinedChange ==
    ASSUME Typed, Confined, pc # "idle", UNCHANGED <<manifest, left, previous, start>>,
           NEW p \in Path, NEW n \in Node, tree' = [tree EXCEPT ![p] = n],
           Written(p) \/ Made(p)' \/ PrunedAway(p)' \/ TidiedAway(p)'
    PROVE  Confined'
  <1> SUFFICES ASSUME NEW q \in Path, tree'[q] # start[q]
               PROVE  Written(q)' \/ Made(q)' \/ PrunedAway(q)' \/ TidiedAway(q)'
    BY DEF Confined
  <1>1. Generated' = Generated /\ Wanted' = Wanted
    BY PlanStays
  <1>2. CASE q = p
    BY <1>1, <1>2 DEF Written
  <1>3. CASE q # p
    <2>1. tree'[q] = tree[q]
      BY <1>3 DEF Typed, TypeOK, Tree
    <2>2. Written(q) \/ Made(q) \/ PrunedAway(q) \/ TidiedAway(q)
      BY <2>1 DEF Confined
    <2> QED
      BY <1>1, <2>1, <2>2 DEF Written, Made, PrunedAway, TidiedAway
  <1> QED
    BY <1>2, <1>3

(* And it leaves the way straight if no link that is on it goes.           *)
LEMMA StraightChange ==
    ASSUME Typed, Straight, pc # "idle", UNCHANGED <<manifest, left, start>>,
           NEW p \in Path, NEW n \in Node, n # "link", tree' = [tree EXCEPT ![p] = n],
           tree[p] # "link" \/ p \notin Wanted
    PROVE  Straight'
  <1>1. Wanted' = Wanted
    BY PlanStays
  <1>2. \A q \in Path : tree'[q] = IF q = p THEN n ELSE tree[q]
    BY DEF Typed, TypeOK, Tree
  <1> QED
    BY <1>1, <1>2 DEF Straight

(* A step that changes nothing of the tree leaves it there as well.        *)
LEMMA ConfinedStays ==
    ASSUME Confined, Straight, pc # "idle", UNCHANGED <<manifest, left, previous, start, tree>>
    PROVE  Confined' /\ Straight'
  <1>1. Generated' = Generated /\ Wanted' = Wanted
    BY PlanStays
  <1>2. Confined'
    BY <1>1 DEF Confined, Written, Made, PrunedAway, TidiedAway
  <1> QED
    BY <1>1, <1>2 DEF Straight

LEMMA OnlyGoneStays ==
    ASSUME OnlyGone, pc \in {"pruning", "tidying"}, emptied' \subseteq emptied,
           pc' = "pruning" => pc = "pruning",
           UNCHANGED <<manifest, left, previous, start, tree>>
    PROVE  OnlyGone'
  <1>1. Generated' = Generated /\ Wanted' = Wanted
    BY PlanStays
  <1> QED
    BY <1>1 DEF OnlyGone, Reached, PrunedAway, TidiedAway

(* A run that ends is within its bounds whatever it leaves.                *)
LEMMA EndBounded ==
    ASSUME Bounded, Forget, listed' \subseteq listed \/ \A p \in listed' : Recordable(p)
    PROVE  Bounded'
  BY DEF Bounded, Forget, OnlyGone, Confined, Straight, CopyStage

(* A step that touches neither the tree nor the plan.                      *)
LEMMA QuietBounded ==
    ASSUME Bounded, UNCHANGED <<tree, listed, manifest, left, previous, start>>,
           pc # "idle" <=> pc' # "idle",
           pc' \in {"idle", "running", "planning"} =>
              pc \in {"idle", "running", "planning"} /\ emptied' = emptied,
           pc' = "pruning" => pc = "pruning" /\ stale' \subseteq stale,
           pc' \in {"pruning", "tidying"} => pc \in {"pruning", "tidying"} /\ emptied' \subseteq emptied,
           pc' \in CopyStage =>
              dest' \in Generated \cup {RecordPath} \/ (pc \in CopyStage /\ dest' = dest)
    PROVE  Bounded'
  <1>1. Generated' = Generated
    BY PlanStays
  <1>2. OnlyGone'
    <2>1. CASE pc' \in {"pruning", "tidying"}
      BY <2>1, OnlyGoneStays DEF Bounded
    <2>2. CASE pc' \notin {"pruning", "tidying"}
      BY <2>2 DEF OnlyGone
    <2> QED
      BY <2>1, <2>2
  <1>3. Confined' /\ Straight'
    <2>1. CASE pc # "idle"
      BY <2>1, ConfinedStays DEF Bounded
    <2>2. CASE pc = "idle"
      BY <2>2 DEF Confined, Straight
    <2> QED
      BY <2>1, <2>2
  <1> QED
    BY <1>1, <1>2, <1>3 DEF Bounded

(* In what a path leads to, a directory stands, or a link to one does.     *)
LEMMA DirectoryOrLink ==
    ASSUME NEW t, WellFormed(t), NEW d \in Path, t[Followed(t, d)] = "dir"
    PROVE  t[Place(t, d)] \in {"dir", "link"}
  <1>1. CASE t[d] = "link"
    <2>1. OnTheWay(t, d) = {}
      BY <1>1 DEF WellFormed, OnTheWay
    <2> QED
      BY <1>1, <2>1 DEF Place
  <1>2. CASE t[d] # "link"
    BY <1>2 DEF Followed
  <1> QED
    BY <1>1, <1>2

(* So does one in what holds something: the walk upward goes on to it.     *)
LEMMA WalkReaches ==
    ASSUME WellFormed(start), NEW p \in Path, p # <<>>, start[Place(start, p)] # "none"
    PROVE  start[Place(start, Parent(p))] \in {"dir", "link"}
  <1>1. PICK q \in Path : q = Place(start, p)
    BY PlaceOfPlace
  <1>2. q # <<>> /\ Parent(q) = Followed(start, Parent(p))
    BY <1>1, ParentOfPlace
  <1>3. Parent(q) \in Ancestors(q)
    BY <1>2, PathAssumption, ParentIsAncestor
  <1>4. start[Parent(q)] = "dir"
    BY <1>1, <1>3 DEF WellFormed
  <1> QED
    BY <1>2, <1>4, ParentInPath, DirectoryOrLink

LEMMA PruneBounded ==
    ASSUME Typed, Bounded, NEW f \in stale, Prune(f)
    PROVE  Bounded'
  <1>1. UNCHANGED <<listed, pc, manifest, left, previous, start, dest>> /\ pc = "pruning"
        /\ stale' \subseteq stale
    BY DEF Prune, runVars
  <1>2. f \in previous \ Generated /\ f \in Path /\ Recordable(f) /\ WellFormed(start)
    BY <1>1 DEF Bounded, Typed, TypeOK
  <1>3. Generated' = Generated /\ Wanted' = Wanted
    BY <1>1, PlanStays
  <1>4. CASE Removable(f)
    <2>1. OnTheWay(tree, f) = OnTheWay(start, f)
      <3>1. \A a \in Ancestors(f) : tree[a] # start[a] => start[a] \in File /\ tree[a] = "none"
        BY <1>1, <1>2, PathAssumption DEF Bounded, OnlyGone, PrunedAway
      <3>2. \A a \in Ancestors(f) : tree[a] = "link" <=> start[a] = "link"
        BY <3>1 DEF File, GeneratedFile
      <3> QED
        BY <3>2 DEF OnTheWay
    <2>2. PICK q \in Path : q = Place(tree, f) /\ q = Place(start, f)
      BY <1>2, <2>1, SameWay, PlaceOfPlace
    <2>3. tree[q] \in File /\ tree[q] \notin {"dir", "link", "none"}
      BY <1>4, <2>2 DEF Removable, File, GeneratedFile
    <2>4. start[q] \in File /\ start[q] # "none"
      BY <1>1, <2>3 DEF Bounded, OnlyGone, PrunedAway
    <2>5. f # <<>> /\ f # Root
      BY <1>2, <2>2, <2>4, TopStays DEF WellFormed, File, GeneratedFile
    <2>6. Reached(Parent(f))
      <3>1. f \in Seq(Name) /\ Root \in Seq(Name)
        BY <1>2, PathAssumption, RootAssumption
      <3>2. start[Place(start, Parent(f))] \in {"dir", "link"}
        BY <1>2, <2>2, <2>4, <2>5, WalkReaches
      <3>3. Parent(f) = Root \/ IsBeneath(Parent(f), Root)
        BY <1>2, <2>5, <3>1, ParentOfBeneath DEF Recordable
      <3>4. IsBeneath(f, Parent(f))
        BY <2>5, <3>1, BeneathParent
      <3> QED
        BY <1>2, <3>2, <3>3, <3>4 DEF Reached
    <2>7. tree' = [tree EXCEPT ![q] = "none"] /\ emptied' = emptied \cup {Parent(f)}
      BY <1>4, <2>2 DEF Prune
    <2>8. tree'[q] = "none" /\ \A p \in Path \ {q} : tree'[p] = tree[p]
      BY <2>7 DEF Typed, TypeOK, Tree
    <2>9. PrunedAway(q)'
      BY <1>1, <1>2, <1>3, <2>2, <2>4, <2>8 DEF PrunedAway
    <2>10. OnlyGone'
      <3>1. \A d \in emptied' : Reached(d)'
        BY <1>1, <1>3, <2>6, <2>7 DEF Bounded, OnlyGone, Reached
      <3>2. ASSUME NEW p \in Path, tree'[p] # start[p]
            PROVE  PrunedAway(p)'
        <4>1. CASE p = q
          BY <2>9, <4>1
        <4>2. CASE p # q
          BY <1>1, <1>3, <2>8, <3>2, <4>2 DEF Bounded, OnlyGone, PrunedAway
        <4> QED
          BY <4>1, <4>2
      <3> QED
        BY <1>1, <3>1, <3>2 DEF OnlyGone
    <2>11. Confined' /\ Straight'
      <3>1. "none" \in Node /\ pc # "idle"
        BY <1>1 DEF Node
      <3>2. Confined'
        BY <1>1, <2>7, <2>9, <3>1, ConfinedChange DEF Bounded
      <3>3. Straight'
        BY <1>1, <2>3, <2>7, <3>1, StraightChange DEF Bounded
      <3> QED
        BY <3>2, <3>3
    <2> QED
      BY <1>1, <1>3, <2>10, <2>11 DEF Bounded, CopyStage
  <1>5. CASE ~Removable(f)
    <2>1. UNCHANGED <<tree, emptied>>
      BY <1>5 DEF Prune
    <2> QED
      BY <1>1, <2>1, QuietBounded DEF CopyStage
  <1> QED
    BY <1>4, <1>5

(* What the walk takes away was found where it is.                         *)
LEMMA TidiedWhereFound ==
    ASSUME Typed, Bounded, pc = "tidying", NEW d \in Path, Tidiable(d)
    PROVE  Place(tree, d) = Place(start, d)
  <1>1. WellFormed(tree) /\ WellFormed(start)
    BY DEF Typed, TypeOK, Bounded
  <1>2. Ancestors(d) \subseteq Path
    BY PathAssumption
  <1>3. OnTheWay(tree, d) \subseteq OnTheWay(start, d)
    BY <1>2 DEF OnTheWay, Bounded, Straight
  <1>4. ASSUME NEW l \in OnTheWay(start, d), l \notin OnTheWay(tree, d) PROVE FALSE
    <2>1. start[l] = "link" /\ l \in Path /\ l \in Ancestors(d) /\ tree[l] # "link"
      BY <1>2, <1>4 DEF OnTheWay
    <2>2. tree[l] = "none"
      BY <2>1 DEF Bounded, OnlyGone, PrunedAway, TidiedAway
    <2>3. OnTheWay(tree, d) = {}
      BY <1>1, <1>3, <1>4, OneLinkOnTheWay
    <2>4. Place(tree, d) = d
      BY <2>3 DEF Place
    <2>5. tree[d] # "none"
      BY <2>4 DEF Tidiable
    <2> QED
      BY <1>1, <2>1, <2>2, <2>5 DEF WellFormed
  <1>5. OnTheWay(tree, d) = OnTheWay(start, d)
    BY <1>3, <1>4
  <1> QED
    BY <1>5, SameWay

LEMMA TidyBounded ==
    ASSUME Typed, Bounded, NEW d \in emptied, Tidy(d)
    PROVE  Bounded'
  <1>1. UNCHANGED <<listed, pc, manifest, left, previous, start, dest>> /\ pc = "tidying"
    BY DEF Tidy, runVars
  <1>2. d \in Path /\ d \in Seq(Name) /\ Root \in Seq(Name) /\ Reached(d) /\ WellFormed(start)
    BY <1>1, PathAssumption, RootAssumption DEF Bounded, OnlyGone, Typed, TypeOK
  <1>3. Generated' = Generated /\ Wanted' = Wanted
    BY <1>1, PlanStays
  <1>4. CASE Tidiable(d)
    <2>1. d # Root /\ d # <<>> /\ d \notin Wanted
      BY <1>4 DEF Tidiable
    <2>2. PICK q \in Path : q = Place(tree, d) /\ q = Place(start, d)
      BY <1>1, <1>2, <1>4, TidiedWhereFound, PlaceOfPlace
    <2>3. tree' = [tree EXCEPT ![q] = "none"] /\ emptied' \subseteq emptied \cup {Parent(d)}
      BY <1>4, <2>2 DEF Tidy, WalkedOn
    <2>4. tree'[q] = "none" /\ \A p \in Path \ {q} : tree'[p] = tree[p]
      BY <2>3 DEF Typed, TypeOK, Tree
    <2>5. TidiedAway(q)'
      BY <1>1, <1>2, <1>3, <2>1, <2>2, <2>4 DEF Reached, TidiedAway
    <2>6. Reached(Parent(d))
      <3>1. start[Place(start, Parent(d))] \in {"dir", "link"}
        BY <1>2, <2>1, WalkReaches DEF Reached
      <3>2. Parent(d) = Root \/ IsBeneath(Parent(d), Root)
        BY <1>2, <2>1, ParentOfBeneath DEF Reached
      <3>3. PICK f \in previous \ Generated : IsBeneath(f, d)
        BY <1>2 DEF Reached
      <3>4. f \in Seq(Name)
        BY PathAssumption DEF Typed, TypeOK
      <3>5. IsBeneath(f, Parent(d))
        BY <1>2, <2>1, <3>3, <3>4, BeneathTheParentToo
      <3> QED
        BY <3>1, <3>2, <3>3, <3>5 DEF Reached
    <2>7. OnlyGone'
      <3>1. \A e \in emptied' : Reached(e)'
        BY <1>1, <1>3, <2>3, <2>6 DEF Bounded, OnlyGone, Reached
      <3>2. ASSUME NEW p \in Path, tree'[p] # start[p]
            PROVE  PrunedAway(p)' \/ TidiedAway(p)'
        <4>1. CASE p = q
          BY <2>5, <4>1
        <4>2. CASE p # q
          BY <1>1, <1>3, <2>4, <3>2, <4>2 DEF Bounded, OnlyGone, PrunedAway, TidiedAway
        <4> QED
          BY <4>1, <4>2
      <3> QED
        BY <1>1, <3>1, <3>2 DEF OnlyGone
    <2>8. Confined' /\ Straight'
      <3>1. "none" \in Node /\ pc # "idle"
        BY <1>1 DEF Node
      <3>2. Confined'
        BY <1>1, <2>3, <2>5, <3>1, ConfinedChange DEF Bounded
      <3>3. tree[q] = "link" => q = d
        BY <1>2, <2>2, PlaceOfPlace DEF Typed, TypeOK, WellFormed
      <3>4. Straight'
        BY <1>1, <2>1, <2>3, <3>1, <3>3, StraightChange DEF Bounded
      <3> QED
        BY <3>2, <3>4
    <2> QED
      BY <1>1, <1>3, <2>7, <2>8 DEF Bounded, CopyStage
  <1>5. CASE ~Tidiable(d)
    <2>1. UNCHANGED tree /\ emptied' \subseteq emptied
      BY <1>5 DEF Tidy, WalkedOn
    <2> QED
      BY <1>1, <2>1, QuietBounded DEF CopyStage
  <1> QED
    BY <1>4, <1>5

(* A step of the merge that changes one place within the bounds.           *)
LEMMA MergeBounded ==
    ASSUME Typed, Bounded, UNCHANGED <<manifest, left, previous, start, dest>>,
           pc \in MergeStage, pc' \in MergeStage,
           NEW p \in Path, NEW n \in Node, n # "link", tree' = [tree EXCEPT ![p] = n],
           tree[p] # "link" \/ p \notin Wanted,
           Written(p) \/ Made(p)', listed' \subseteq listed,
           pc' \in CopyStage => pc \in CopyStage
    PROVE  Bounded'
  <1>1. Generated' = Generated
    BY PlanStays
  <1>2. Confined'
    BY ConfinedChange DEF Bounded, MergeStage
  <1>3. Straight'
    BY StraightChange DEF Bounded, MergeStage
  <1>4. OnlyGone'
    BY DEF OnlyGone, MergeStage
  <1> QED
    BY <1>1, <1>2, <1>3, <1>4 DEF Bounded, MergeStage, CopyStage

(* Where merger.copy is at work, it may be, and no link is on the way.     *)
LEMMA CopiedPlace ==
    ASSUME Typed, Settled, Bounded, pc \in CopyStage
    PROVE  \E q \in Path : /\ q = Place(tree, dest) /\ Written(q)
                           /\ tree[q] # "link" \/ q \notin Wanted
  <1>1. dest \in Generated \cup {RecordPath} /\ pc # "idle" /\ ~Refused
    BY DEF Bounded, Settled, CopyStage
  <1>2. PICK q \in Path : q = Place(tree, dest) /\ q = Place(start, dest)
    BY <1>1, WhereThePlanLeads, PlaceOfPlace DEF Typed, TypeOK
  <1>3. Written(q)
    BY <1>1, <1>2 DEF Written
  <1>4. tree[q] = "link" => q = dest /\ q \in DOMAIN LinkTo
    BY <1>2, PlaceOfPlace DEF Typed, TypeOK, WellFormed
  <1>5. tree[q] # "link" \/ q \notin Wanted
    BY <1>1, <1>4, FilesApart, LinkAssumption
  <1> QED
    BY <1>2, <1>3, <1>5

LEMMA StepBounded == Typed /\ Settled /\ Bounded /\ [Next]_vars => Bounded'
  <1> SUFFICES ASSUME Typed, Settled, Bounded, [Next]_vars PROVE Bounded'
    OBVIOUS
  <1> USE DEF project, runVars, work, fate, End, CopyStage
  <1>1. CASE PersonEdits
    BY <1>1, RecordAtRoot DEF PersonEdits, Edit, Bounded, OnlyGone, Confined, Straight
  <1>2. CASE RefuseToStart
    BY <1>2, QuietBounded DEF RefuseToStart
  <1>3. CASE \E m \in Manifest : Begin(m)
    <2>1. WellFormed(start') /\ tree' = start'
      BY <1>3, Ageing DEF Begin, Typed, TypeOK
    <2> QED
      BY <1>3, <2>1 DEF Begin, Bounded, OnlyGone, Confined, Straight
  <1>4. CASE \E i \in Generators : (\E l \in Leaving : GeneratorSucceeds(i, l)) \/ GeneratorFails(i)
    BY <1>4 DEF GeneratorSucceeds, GeneratorFails, Bounded, Settled, OnlyGone, Confined, Straight
  <1>5. CASE Collect
    <2>1. CASE AllSucceeded
      BY <1>5, <2>1, QuietBounded DEF Collect
    <2>2. CASE ~AllSucceeded
      BY <1>5, <2>2, EndBounded DEF Collect
    <2> QED
      BY <2>1, <2>2
  <1>6. CASE Plan
    <2>1. CASE Refused
      BY <1>6, <2>1, EndBounded DEF Plan
    <2>2. CASE ~Refused
      <3>1. /\ UNCHANGED <<tree, listed, manifest, left, previous, start, emptied>>
            /\ pc = "planning" /\ pc' = "pruning" /\ stale' = previous \ Generated
        BY <1>6, <2>2 DEF Plan, NoLonger
      <3>2. Generated' = Generated
        BY <3>1, PlanStays
      <3>3. emptied = {}
        BY <3>1 DEF Bounded
      <3> QED
        BY <3>1, <3>2, <3>3 DEF Bounded, Settled, OnlyGone, Confined, Straight
    <2> QED
      BY <2>1, <2>2
  <1>7. CASE \E f \in stale : Prune(f)
    BY <1>7, PruneBounded
  <1>8. CASE \E f \in stale : PruneFault(f)
    BY <1>8, QuietBounded DEF PruneFault
  <1>9. CASE Pruned
    <2>1. CASE faulted
      BY <1>9, <2>1, EndBounded DEF Pruned
    <2>2. CASE ~faulted
      BY <1>9, <2>2, QuietBounded DEF Pruned
    <2> QED
      BY <2>1, <2>2
  <1>10. CASE \E d \in emptied : Tidy(d)
    BY <1>10, TidyBounded
  <1>11. CASE \E d \in emptied : TidyFault(d)
    BY <1>11, QuietBounded DEF TidyFault
  <1>12. CASE Tidied
    BY <1>12, QuietBounded DEF Tidied
  <1>13. CASE Merge
    <2>1. CASE \E pos \in pending, d \in Path : MakeDirectory(pos, d)
      <3>1. PICK pos \in pending, d \in Path : MakeDirectory(pos, d)
        BY <2>1
      <3>2. d \in Wanted /\ pc = "merging"
        BY <3>1, PlannedEntries DEF MakeDirectory, IsNext, Missing, Typed, TypeOK
      <3>3. PICK q \in Path : q = Place(tree, d) /\ q = Place(start, d)
        BY <3>2, WhereThePlanLeads, PlaceOfPlace DEF Typed, TypeOK
      <3>4. /\ UNCHANGED <<manifest, left, previous, start, dest, listed, pc>>
            /\ tree' = [tree EXCEPT ![q] = "dir"] /\ tree[q] = "none"
        BY <3>1, <3>3 DEF MakeDirectory
      <3>5. tree'[q] = "dir"
        BY <3>4 DEF Typed, TypeOK, Tree
      <3>6. Made(q)'
        BY <3>2, <3>3, <3>4, <3>5, PlanStays DEF Made
      <3>7. "dir" \in Node /\ "dir" # "link" /\ tree[q] # "link"
        BY <3>4 DEF Node
      <3> QED
        BY <3>2, <3>4, <3>6, <3>7, MergeBounded DEF MergeStage
    <2>2. CASE \E pos \in pending, d \in Path : Obstructed(pos, d)
      BY <2>2, EndBounded DEF Obstructed
    <2>3. CASE \E pos \in pending : WriteDirectory(pos)
      BY <2>3, QuietBounded DEF WriteDirectory, IsNext
    <2>4. CASE \E pos \in pending : WriteFile(pos)
      <3>1. PICK pos \in pending : WriteFile(pos)
        BY <2>4
      <3>2. dest' \in Generated
        BY <3>1, PlannedEntries DEF WriteFile, Typed, TypeOK
      <3> QED
        BY <3>1, <3>2, QuietBounded DEF WriteFile, IsNext
    <2>5. CASE WriteRecord
      BY <2>5, QuietBounded DEF WriteRecord
    <2>6. CASE Clear
      <3>1. PICK q \in Path : q = Place(tree, dest) /\ Written(q) /\ (tree[q] # "link" \/ q \notin Wanted)
        BY <2>6, CopiedPlace DEF Clear
      <3>2. CASE Occupied(q)
        BY <2>6, <3>1, <3>2, EndBounded DEF Clear
      <3>3. CASE ~Occupied(q)
        <4>1. /\ UNCHANGED <<manifest, left, previous, start, dest>> /\ listed' \subseteq listed
              /\ pc = "clearing" /\ pc' = "creating" /\ tree' = [tree EXCEPT ![q] = "none"]
          BY <2>6, <3>1, <3>3 DEF Clear
        <4>2. "none" \in Node /\ "none" # "link"
          BY DEF Node
        <4> QED
          BY <3>1, <4>1, <4>2, MergeBounded DEF MergeStage
      <3> QED
        BY <3>2, <3>3
    <2>7. CASE Create
      <3>1. PICK q \in Path : q = Place(tree, dest) /\ Written(q) /\ (tree[q] # "link" \/ q \notin Wanted)
        BY <2>7, CopiedPlace DEF Create
      <3>2. /\ UNCHANGED <<manifest, left, previous, start, dest, listed>>
            /\ pc = "creating" /\ pc' = "filling" /\ tree' = [tree EXCEPT ![q] = "newpart"]
        BY <2>7, <3>1 DEF Create
      <3>3. "newpart" \in Node /\ "newpart" # "link"
        BY DEF Node, File, GeneratedFile
      <3> QED
        BY <3>1, <3>2, <3>3, MergeBounded DEF MergeStage
    <2>8. CASE Fill
      <3>1. CASE dest = RecordPath
        <4>1. \A p \in Generated : Recordable(p)
          BY <2>8 DEF Fill, Settled, Refused
        <4> QED
          BY <2>8, <3>1, <4>1, EndBounded DEF Fill, Recorded
      <3>2. CASE dest # RecordPath
        <4>1. PICK q \in Path : q = Place(tree, dest) /\ Written(q) /\ (tree[q] # "link" \/ q \notin Wanted)
          BY <2>8, CopiedPlace DEF Fill
        <4>2. /\ UNCHANGED <<manifest, left, previous, start, dest, listed>>
              /\ pc = "filling" /\ pc' = "merging" /\ tree' = [tree EXCEPT ![q] = "new"]
          BY <2>8, <3>2, <4>1 DEF Fill
        <4>3. "new" \in Node /\ "new" # "link"
          BY DEF Node, File, GeneratedFile
        <4> QED
          BY <4>1, <4>2, <4>3, MergeBounded DEF MergeStage
      <3> QED
        BY <3>1, <3>2
    <2> QED
      BY <1>13, <2>1, <2>2, <2>3, <2>4, <2>5, <2>6, <2>7, <2>8 DEF Merge
  <1>14. CASE FilesystemFails
    BY <1>14, EndBounded DEF FilesystemFails
  <1>15. CASE Signal
    BY <1>15, QuietBounded DEF Signal
  <1>16. CASE Killed
    BY <1>16, EndBounded DEF Killed
  <1>17. CASE UNCHANGED vars
    BY <1>17, QuietBounded DEF vars
  <1> QED
    BY <1>1, <1>2, <1>3, <1>4, <1>5, <1>6, <1>7, <1>8, <1>9, <1>10, <1>11, <1>12, <1>13,
       <1>14, <1>15, <1>16, <1>17 DEF Next, Step

(* For every tree, links in it included, every record and every output: a  *)
(* run writes only where the plan and the record lead, and removes only    *)
(* files to which the last record leads and this plan does not, and the    *)
(* directories beneath the project's root, or links to them, that held     *)
(* such files.  Where no link is on the way, these are the paths           *)
(* themselves, and nothing a person wrote is ever in its way by accident.  *)
THEOREM StaysInBounds == Spec => []Confined
  <1>1. Init => Settled /\ Bounded
    BY DEF Init, Settled, Bounded, OnlyGone, Confined, Straight, CopyStage
  <1>2. Bounded => Confined
    BY DEF Bounded
  <1> QED
    BY AlwaysTyped, StepSettled, StepBounded, <1>1, <1>2, PTL DEF Spec

-----------------------------------------------------------------------------
(* The order of the merge: directories stay, files stay, and neither is in  *)
(* the way of the other.                                                   *)

(* Nothing that is still to be written goes where this is.                 *)
Untargeted(p) == \A pos \in pending : Entry(pos).kind = "file" => Entry(pos).dest # p

(* What this run has filled stays as it is.                                *)
FilledIn(p) == \E f \in Generated :
    /\ Place(start, f) = p
    /\ pc \in CopyStage => f # dest
    /\ Untargeted(f)

FoundBy(p) == start[p] \notin {"new", "newpart"} /\ (p = RecordPath => start[p] # "dir")

(* Where a path that the plan does not want leads as well.                 *)
SpelledOtherwise(p) == \E e \in Path \ Wanted : Place(start, e) = p

Orderly ==
    /\ pc # "idle" => \A p \in Path :
          /\ FoundBy(p)
          /\ tree[p] = "dir" /\ start[p] # "dir" => \E d \in Wanted : p = Place(start, d)
          /\ start[p] = "dir" => tree[p] = "dir" \/ SpelledOtherwise(p)
          /\ tree[p] = "new" => FilledIn(p)
    /\ pc \in CopyStage => Untargeted(dest)

(* Before the merge nothing is new.                                        *)
LEMMA NothingNewYet ==
    ASSUME Settled, Bounded, Orderly, pc \in {"running", "planning", "pruning", "tidying"}
    PROVE  \A p \in Path : tree[p] # "new"
  <1>1. pc # "idle"
    OBVIOUS
  <1>2. \A p \in Path : start[p] # "new"
    BY <1>1 DEF Orderly, FoundBy
  <1>3. CASE pc \in {"running", "planning"}
    BY <1>2, <1>3 DEF Settled
  <1>4. CASE pc \in {"pruning", "tidying"}
    BY <1>2, <1>4 DEF Bounded, OnlyGone, PrunedAway, TidiedAway
  <1> QED
    BY <1>3, <1>4

(* A step that changes nothing of the tree.                                *)
LEMMA QuietOrderly ==
    ASSUME Orderly, UNCHANGED <<tree, manifest, left, start>>, pc # "idle", pc' # "idle",
           \A p \in Path : tree[p] = "new" => FilledIn(p)',
           pc' \in CopyStage => Untargeted(dest)'
    PROVE  Orderly'
  <1>1. Wanted' = Wanted
    BY PlanStays
  <1> QED
    BY <1>1 DEF Orderly, FoundBy, SpelledOtherwise

(* A step that changes one place.                                          *)
LEMMA OrderlyChange ==
    ASSUME Typed, Orderly, UNCHANGED <<manifest, left, start>>, pc # "idle", pc' # "idle",
           NEW p \in Path, NEW n \in Node, tree' = [tree EXCEPT ![p] = n],
           n = "dir" => \E d \in Wanted : p = Place(start, d),
           n # "dir" => start[p] # "dir" \/ SpelledOtherwise(p),
           \A q \in Path : tree'[q] = "new" => FilledIn(q)',
           pc' \in CopyStage => Untargeted(dest)'
    PROVE  Orderly'
  <1>1. Wanted' = Wanted
    BY PlanStays
  <1>2. \A q \in Path : tree'[q] = IF q = p THEN n ELSE tree[q]
    BY DEF Typed, TypeOK, Tree
  <1>3. ASSUME NEW q \in Path
        PROVE  /\ FoundBy(q)'
               /\ tree'[q] = "dir" /\ start'[q] # "dir" => \E d \in Wanted' : q = Place(start', d)
               /\ start'[q] = "dir" => tree'[q] = "dir" \/ SpelledOtherwise(q)'
               /\ tree'[q] = "new" => FilledIn(q)'
    BY <1>1, <1>2 DEF Orderly, FoundBy, SpelledOtherwise
  <1> QED
    BY <1>3 DEF Orderly

(* A run that has ended owes nothing.                                      *)
LEMMA EndOrderly == Forget => Orderly'
  BY DEF Forget, Orderly, CopyStage

LEMMA BeginOrderly ==
    ASSUME Typed, NEW m \in Manifest, Begin(m)
    PROVE  Orderly'
  <1>1. tree' = Aged(tree) /\ start' = Aged(tree) /\ pc' = "running"
    BY DEF Begin
  <1>2. \A p \in Path : Aged(tree)[p] \notin {"new", "newpart"}
    BY DEF Aged, Typed, TypeOK, Tree, Node, File, GeneratedFile
  <1>3. RecordPath \in Path /\ Aged(tree)[RecordPath] # "dir"
    BY RootAssumption DEF Begin, Readable, Aged
  <1> QED
    BY <1>1, <1>2, <1>3 DEF Orderly, FoundBy, CopyStage

(* While nothing is new and nothing has changed, the plan may still grow.  *)
LEMMA RunningOrderly ==
    ASSUME Settled, Bounded, Orderly, pc = "running", pc' = "running", UNCHANGED <<tree, start>>
    PROVE  Orderly'
  <1>1. \A p \in Path : tree[p] # "new" /\ tree[p] = start[p]
    BY NothingNewYet DEF Settled
  <1> QED
    BY <1>1 DEF Orderly, FoundBy, CopyStage

LEMMA PruneOrderly ==
    ASSUME Typed, Settled, Bounded, Orderly, NEW f \in stale, Prune(f)
    PROVE  Orderly'
  <1>1. UNCHANGED <<manifest, left, start, pc>> /\ pc = "pruning" /\ f \in Path
    BY DEF Prune, runVars, Typed, TypeOK
  <1>2. \A p \in Path : tree[p] # "new"
    BY <1>1, NothingNewYet
  <1>3. CASE Removable(f)
    <2>1. PICK q \in Path : q = Place(tree, f)
      BY <1>1, PlaceOfPlace DEF Typed, TypeOK
    <2>2. tree' = [tree EXCEPT ![q] = "none"] /\ tree[q] # "dir"
      BY <1>3, <2>1 DEF Prune, Removable, File, GeneratedFile
    <2>3. start[q] # "dir" \/ SpelledOtherwise(q)
      BY <1>1, <2>2 DEF Orderly
    <2>4. \A p \in Path : tree'[p] # "new"
      BY <1>2, <2>2 DEF Typed, TypeOK, Tree
    <2>5. "none" \in Node /\ pc # "idle" /\ pc' # "idle" /\ pc' \notin CopyStage
      BY <1>1 DEF Node, CopyStage
    <2> QED
      BY <1>1, <2>2, <2>3, <2>4, <2>5, OrderlyChange
  <1>4. CASE ~Removable(f)
    BY <1>1, <1>2, <1>4, QuietOrderly DEF Prune, CopyStage
  <1> QED
    BY <1>3, <1>4

LEMMA TidyOrderly ==
    ASSUME Typed, Settled, Bounded, Orderly, NEW d \in emptied, Tidy(d)
    PROVE  Orderly'
  <1>1. UNCHANGED <<manifest, left, start, pc>> /\ pc = "tidying" /\ d \in Path
    BY DEF Tidy, runVars, Typed, TypeOK
  <1>2. \A p \in Path : tree[p] # "new"
    BY <1>1, NothingNewYet
  <1>3. CASE Tidiable(d)
    <2>1. PICK q \in Path : q = Place(tree, d) /\ q = Place(start, d)
      BY <1>1, <1>3, TidiedWhereFound, PlaceOfPlace DEF Typed, TypeOK
    <2>2. tree' = [tree EXCEPT ![q] = "none"] /\ d \notin Wanted
      BY <1>3, <2>1 DEF Tidy, Tidiable
    <2>3. SpelledOtherwise(q)
      BY <1>1, <2>1, <2>2 DEF SpelledOtherwise
    <2>4. \A p \in Path : tree'[p] # "new"
      BY <1>2, <2>2 DEF Typed, TypeOK, Tree
    <2>5. "none" \in Node /\ pc # "idle" /\ pc' # "idle" /\ pc' \notin CopyStage
      BY <1>1 DEF Node, CopyStage
    <2> QED
      BY <1>1, <2>2, <2>3, <2>4, <2>5, OrderlyChange
  <1>4. CASE ~Tidiable(d)
    BY <1>1, <1>2, <1>4, QuietOrderly DEF Tidy, CopyStage
  <1> QED
    BY <1>3, <1>4

LEMMA MakeDirectoryOrderly ==
    ASSUME Typed, Bounded, Orderly, NEW pos \in pending, NEW d \in Path, MakeDirectory(pos, d)
    PROVE  Orderly'
  <1>1. /\ UNCHANGED <<manifest, left, start, pc, pending, dest>> /\ pc = "merging"
        /\ d \in NeededDirs(Entry(pos)) /\ pos \in Positions
    BY DEF MakeDirectory, IsNext, Missing, runVars, work, Typed, TypeOK
  <1>2. d \in Wanted
    BY <1>1, PlannedEntries
  <1>3. PICK q \in Path : q = Place(tree, d) /\ q = Place(start, d)
    BY <1>1, <1>2, WhereThePlanLeads, PlaceOfPlace DEF Typed, TypeOK
  <1>4. tree' = [tree EXCEPT ![q] = "dir"]
    BY <1>3 DEF MakeDirectory
  <1>5. ASSUME NEW p \in Path, tree'[p] = "new" PROVE FilledIn(p)'
    <2>1. tree[p] = "new"
      BY <1>4, <1>5 DEF Typed, TypeOK, Tree
    <2>2. FilledIn(p)
      BY <1>1, <2>1 DEF Orderly
    <2> QED
      BY <1>1, <2>2, PlanStays DEF FilledIn, Untargeted
  <1>6. "dir" \in Node /\ pc # "idle" /\ pc' # "idle" /\ pc' \notin CopyStage
    BY <1>1 DEF Node, CopyStage
  <1>7. \E e \in Wanted : q = Place(start, e)
    BY <1>2, <1>3
  <1> QED
    BY <1>1, <1>4, <1>5, <1>6, <1>7, OrderlyChange

LEMMA WriteFileOrderly ==
    ASSUME Typed, Settled, Orderly, NEW pos \in pending, WriteFile(pos)
    PROVE  Orderly'
  <1>1. /\ UNCHANGED <<tree, manifest, left, start>> /\ pc = "merging" /\ pc' = "clearing"
        /\ dest' = Entry(pos).dest /\ pending' = pending \ {pos} /\ Entry(pos).kind = "file"
        /\ pending \subseteq Positions /\ ~Refused
    BY DEF WriteFile, IsNext, project, runVars, Typed, TypeOK, Settled
  <1>2. Untargeted(dest)'
    <2> SUFFICES ASSUME NEW other \in pending', Entry(other)'.kind = "file",
                        Entry(other)'.dest = dest'
                 PROVE  FALSE
      BY DEF Untargeted
    <2>1. Entry(other)' = Entry(other) /\ other \in Positions /\ other # pos
      BY <1>1, PlanStays
    <2> QED
      BY <1>1, <2>1, FilesOnce
  <1>3. ASSUME NEW p \in Path, tree[p] = "new" PROVE FilledIn(p)'
    <2>1. FilledIn(p)
      BY <1>1, <1>3 DEF Orderly
    <2>2. PICK f \in Generated : Place(start, f) = p /\ Untargeted(f)
      BY <2>1 DEF FilledIn
    <2>3. f # Entry(pos).dest
      BY <1>1, <2>2 DEF Untargeted
    <2> QED
      BY <1>1, <2>2, <2>3, PlanStays DEF FilledIn, Untargeted
  <1> QED
    BY <1>1, <1>2, <1>3, QuietOrderly

LEMMA WriteRecordOrderly ==
    ASSUME Settled, Orderly, WriteRecord
    PROVE  Orderly'
  <1>1. /\ UNCHANGED <<tree, manifest, left, start, pending>> /\ pc = "merging" /\ pc' = "clearing"
        /\ dest' = RecordPath /\ pending = {}
    BY DEF WriteRecord, project, runVars
  <1>2. RecordPath \notin Generated
    BY <1>1 DEF Settled, Refused, Recordable
  <1>3. \A p \in Path : tree[p] = "new" => FilledIn(p)'
    BY <1>1, <1>2, PlanStays DEF Orderly, FilledIn, Untargeted
  <1> QED
    BY <1>1, <1>3, QuietOrderly DEF Untargeted

(* What is being copied takes no directory's place that the plan wants and *)
(* that nothing else leads to.                                             *)
LEMMA CopiedNotKept ==
    ASSUME Typed, Settled, Bounded, Orderly, pc \in CopyStage
    PROVE  \E q \in Path : /\ q = Place(tree, dest) /\ q = Place(start, dest)
                           /\ (start[q] # "dir" \/ SpelledOtherwise(q))
  <1>1. dest \in Generated \cup {RecordPath} /\ ~Refused /\ pc # "idle"
    BY DEF CopyStage, Bounded, Settled
  <1>2. PICK q \in Path : q = Place(tree, dest) /\ q = Place(start, dest)
    BY <1>1, WhereThePlanLeads, PlaceOfPlace DEF Typed, TypeOK
  <1>3. CASE dest \in Generated
    <2>1. dest \notin Wanted /\ dest \in Path
      BY <1>1, <1>3, FilesApart, GeneratedPaths
    <2> QED
      BY <1>2, <2>1 DEF SpelledOtherwise
  <1>4. CASE dest = RecordPath
    <2>1. q = RecordPath
      BY <1>1, <1>2, <1>4, TopStays DEF Bounded, Typed, TypeOK
    <2> QED
      BY <1>1, <1>2, <2>1 DEF Orderly, FoundBy
  <1> QED
    BY <1>1, <1>3, <1>4

(* The steps of merger.copy that put something unfinished at its place.    *)
LEMMA CopyOrderly ==
    ASSUME Typed, Settled, Bounded, Orderly, pc \in CopyStage, pc' \in CopyStage,
           UNCHANGED <<manifest, left, start, pending, dest>>,
           NEW n \in Node \ {"dir", "new"}, tree' = [tree EXCEPT ![Place(tree, dest)] = n]
    PROVE  Orderly'
  <1>1. pc # "idle" /\ pc' # "idle"
    BY DEF CopyStage
  <1>2. PICK q \in Path : /\ q = Place(tree, dest)
                         /\ (start[q] # "dir" \/ SpelledOtherwise(q))
    BY CopiedNotKept
  <1>3. tree' = [tree EXCEPT ![q] = n]
    BY <1>2
  <1>4. ASSUME NEW p \in Path, tree'[p] = "new" PROVE FilledIn(p)'
    <2>1. tree[p] = "new"
      BY <1>3, <1>4 DEF Typed, TypeOK, Tree
    <2>2. FilledIn(p)
      BY <1>1, <2>1 DEF Orderly
    <2> QED
      BY <2>2, PlanStays DEF FilledIn, Untargeted
  <1>5. Untargeted(dest)'
    BY PlanStays DEF Orderly, Untargeted
  <1> QED
    BY <1>1, <1>2, <1>3, <1>4, <1>5, OrderlyChange

LEMMA FillOrderly ==
    ASSUME Typed, Settled, Bounded, Orderly, Fill
    PROVE  Orderly'
  <1>1. pc = "filling" /\ pc \in CopyStage
    BY DEF Fill, CopyStage
  <1>2. CASE dest = RecordPath
    BY <1>2, EndOrderly DEF Fill, End
  <1>3. CASE dest # RecordPath
    <2>1. UNCHANGED <<manifest, left, start, pending, dest>> /\ pc' = "merging"
      BY <1>3 DEF Fill, runVars, work
    <2>2. dest \in Generated
      BY <1>1, <1>3 DEF Bounded
    <2>3. PICK q \in Path : /\ q = Place(tree, dest) /\ q = Place(start, dest)
                           /\ (start[q] # "dir" \/ SpelledOtherwise(q))
      BY <1>1, CopiedNotKept
    <2>4. tree' = [tree EXCEPT ![q] = "new"]
      BY <2>3 DEF Fill
    <2>5. ASSUME NEW p \in Path, tree'[p] = "new" PROVE FilledIn(p)'
      <3>1. CASE p = q
        BY <1>1, <2>1, <2>2, <2>3, <3>1, PlanStays DEF Orderly, CopyStage, FilledIn, Untargeted
      <3>2. CASE p # q
        <4>1. tree[p] = "new"
          BY <2>4, <2>5, <3>2 DEF Typed, TypeOK, Tree
        <4>2. FilledIn(p)
          BY <1>1, <4>1 DEF Orderly
        <4> QED
          BY <2>1, <4>2, PlanStays DEF FilledIn, Untargeted, CopyStage
      <3> QED
        BY <3>1, <3>2
    <2>6. "new" \in Node /\ pc # "idle" /\ pc' # "idle" /\ pc' \notin CopyStage
      BY <1>1, <2>1 DEF Node, File, GeneratedFile, CopyStage
    <2> QED
      BY <2>1, <2>3, <2>4, <2>5, <2>6, OrderlyChange
  <1> QED
    BY <1>2, <1>3

(* A step that leaves the merge alone, or takes one entry off it.          *)
LEMMA AsideOrderly ==
    ASSUME Orderly, UNCHANGED <<tree, manifest, left, start, dest>>, pc # "idle",
           pc' = pc, pending' \subseteq pending
    PROVE  Orderly'
  <1>1. \A p \in Path : tree[p] = "new" => FilledIn(p)'
    BY PlanStays DEF Orderly, FilledIn, Untargeted
  <1>2. pc' \in CopyStage => Untargeted(dest)'
    BY PlanStays DEF Orderly, Untargeted
  <1> QED
    BY <1>1, <1>2, QuietOrderly

LEMMA StepOrderly == Typed /\ Settled /\ Bounded /\ Orderly /\ [Next]_vars => Orderly'
  <1> SUFFICES ASSUME Typed, Settled, Bounded, Orderly, [Next]_vars PROVE Orderly'
    OBVIOUS
  <1> USE DEF project, runVars, work, fate, End
  <1>1. CASE PersonEdits
    BY <1>1 DEF PersonEdits, Edit, Orderly, CopyStage
  <1>2. CASE RefuseToStart
    BY <1>2 DEF RefuseToStart, Orderly, CopyStage
  <1>3. CASE \E m \in Manifest : Begin(m)
    BY <1>3, BeginOrderly
  <1>4. CASE \E i \in Generators : (\E l \in Leaving : GeneratorSucceeds(i, l)) \/ GeneratorFails(i)
    BY <1>4, RunningOrderly DEF GeneratorSucceeds, GeneratorFails
  <1>5. CASE Collect
    <2>1. CASE AllSucceeded
      BY <1>5, <2>1, QuietOrderly, NothingNewYet DEF Collect, CopyStage
    <2>2. CASE ~AllSucceeded
      BY <1>5, <2>2, EndOrderly DEF Collect
    <2> QED
      BY <2>1, <2>2
  <1>6. CASE Plan
    <2>1. CASE Refused
      BY <1>6, <2>1, EndOrderly DEF Plan
    <2>2. CASE ~Refused
      BY <1>6, <2>2, QuietOrderly, NothingNewYet DEF Plan, CopyStage
    <2> QED
      BY <2>1, <2>2
  <1>7. CASE \E f \in stale : Prune(f)
    BY <1>7, PruneOrderly
  <1>8. CASE \E f \in stale : PruneFault(f)
    BY <1>8, AsideOrderly DEF PruneFault
  <1>9. CASE Pruned
    <2>1. CASE faulted
      BY <1>9, <2>1, EndOrderly DEF Pruned
    <2>2. CASE ~faulted
      BY <1>9, <2>2, QuietOrderly, NothingNewYet DEF Pruned, CopyStage
    <2> QED
      BY <2>1, <2>2
  <1>10. CASE \E d \in emptied : Tidy(d)
    BY <1>10, TidyOrderly
  <1>11. CASE \E d \in emptied : TidyFault(d)
    BY <1>11, AsideOrderly DEF TidyFault
  <1>12. CASE Tidied
    BY <1>12, QuietOrderly, NothingNewYet DEF Tidied, CopyStage
  <1>13. CASE Merge
    <2>1. CASE \E pos \in pending, d \in Path : MakeDirectory(pos, d)
      BY <2>1, MakeDirectoryOrderly
    <2>2. CASE \E pos \in pending, d \in Path : Obstructed(pos, d)
      BY <2>2, EndOrderly DEF Obstructed
    <2>3. CASE \E pos \in pending : WriteDirectory(pos)
      BY <2>3, AsideOrderly DEF WriteDirectory, IsNext
    <2>4. CASE \E pos \in pending : WriteFile(pos)
      BY <2>4, WriteFileOrderly
    <2>5. CASE WriteRecord
      BY <2>5, WriteRecordOrderly
    <2>6. CASE Clear
      <3>1. CASE Occupied(Place(tree, dest))
        BY <2>6, <3>1, EndOrderly DEF Clear
      <3>2. CASE ~Occupied(Place(tree, dest))
        BY <2>6, <3>2, CopyOrderly DEF Clear, CopyStage, Node
      <3> QED
        BY <3>1, <3>2
    <2>7. CASE Create
      BY <2>7, CopyOrderly DEF Create, CopyStage, Node, File, GeneratedFile
    <2>8. CASE Fill
      BY <2>8, FillOrderly
    <2> QED
      BY <1>13, <2>1, <2>2, <2>3, <2>4, <2>5, <2>6, <2>7, <2>8 DEF Merge
  <1>14. CASE FilesystemFails
    BY <1>14, EndOrderly DEF FilesystemFails
  <1>15. CASE Signal
    BY <1>15, AsideOrderly DEF Signal
  <1>16. CASE Killed
    BY <1>16, EndOrderly DEF Killed
  <1>17. CASE UNCHANGED vars
    <2>1. CASE pc # "idle"
      BY <1>17, <2>1, AsideOrderly DEF vars
    <2>2. CASE pc = "idle"
      BY <1>17, <2>2 DEF vars, Orderly, CopyStage
    <2> QED
      BY <2>1, <2>2
  <1> QED
    BY <1>1, <1>2, <1>3, <1>4, <1>5, <1>6, <1>7, <1>8, <1>9, <1>10, <1>11, <1>12, <1>13,
       <1>14, <1>15, <1>16, <1>17 DEF Next, Step

(* The conjuncts of the invariant as one theorem, for those below to cite. *)
LEMMA AlwaysBounded == Spec => []Settled /\ []Bounded /\ []Orderly
  <1>1. Init => Settled /\ Bounded /\ Orderly
    BY DEF Init, Settled, Bounded, OnlyGone, Confined, Straight, Orderly, CopyStage
  <1> QED
    BY AlwaysTyped, StepSettled, StepBounded, StepOrderly, <1>1, PTL DEF Spec

(* Where the plan puts a file, it does not want a directory: the file goes *)
(* to its place and follows no link there.                                 *)
LEMMA FilesLead ==
    ASSUME Typed, ~Refused, NEW f \in Generated
    PROVE  LedTo(f) = Place(start, f) /\ f \notin Wanted
  BY FilesApart DEF LedTo

(* What the plan leads to is a path of the instance.                       *)
LEMMA LedToPath ==
    ASSUME WellFormed(start), NEW p \in Path
    PROVE  LedTo(p) \in Path
  <1>1. CASE start[p] = "link"
    <2>1. p \in DOMAIN LinkTo
      BY <1>1 DEF WellFormed
    <2> QED
      BY <1>1, <2>1, LinkAssumption, PlaceOfPlace DEF LedTo, Followed
  <1>2. CASE start[p] # "link"
    BY <1>2, PlaceOfPlace DEF LedTo, Followed
  <1> QED
    BY <1>1, <1>2

(* No run takes away a directory that it is about to write into, however    *)
(* the record, the plan and the project overlap: the mode a person gave it  *)
(* stays.  Only where a path that the plan does not want leads to the same  *)
(* directory, through a link, may the walk upward take it by that name.     *)
THEOREM DirectoriesInUseAreKept == Spec => []WantedDirectoriesKept
  <1>1. Typed /\ Bounded /\ Orderly => WantedDirectoriesKept
    <2> SUFFICES ASSUME Typed, Bounded, Orderly, pc # "idle", NEW d \in Wanted,
                        start[LedTo(d)] = "dir"
                 PROVE  tree[LedTo(d)] = "dir" \/ \E e \in Path \ Wanted : Place(start, e) = LedTo(d)
      BY DEF WantedDirectoriesKept
    <2>1. d \in Path /\ WellFormed(start)
      BY WantedPaths DEF Bounded
    <2>2. LedTo(d) \in Path
      BY <2>1, LedToPath
    <2> QED
      BY <2>2 DEF Orderly, SpelledOtherwise
  <1> QED
    BY AlwaysTyped, AlwaysBounded, <1>1, PTL

(* What one generator produced is never written over by another's, nor by   *)
(* the record, nor taken away by the merge that wrote it, unless links make *)
(* one place of two planned files: that, and nothing else, escapes collide. *)
THEOREM NothingOverwritten == Spec => WrittenStaysWritten
  <1>1. Typed /\ Settled /\ Bounded /\ Orderly /\ [Next]_vars
          => \/ pc # "idle" => \A p \in Path : tree[p] = "new" =>
                   \/ tree'[p] = "new"
                   \/ \E f, g \in Generated : f # g /\ LedTo(f) = p /\ LedTo(g) = p
             \/ UNCHANGED vars
    <2> SUFFICES ASSUME Typed, Settled, Bounded, Orderly, Next, pc # "idle",
                        NEW p \in Path, tree[p] = "new", tree'[p] # "new"
                 PROVE  \E f, g \in Generated : f # g /\ LedTo(f) = p /\ LedTo(g) = p
      OBVIOUS
    <2> USE DEF project, runVars, work, fate, End
    <2>1. FilledIn(p) /\ pc \notin {"running", "planning", "pruning", "tidying"}
      BY NothingNewYet DEF Orderly
    <2>2. CASE pc \in CopyStage
      <3>1. PICK q \in Path : q = Place(tree, dest) /\ q = Place(start, dest)
        BY <2>2, CopiedNotKept
      <3>2. tree' = tree \/ \E n : tree' = [tree EXCEPT ![q] = n]
        BY <2>2, <3>1 DEF CopyStage, Next, Step, Merge, PersonEdits, Edit, RefuseToStart, Begin,
           GeneratorSucceeds, GeneratorFails, Collect, Plan, Prune, PruneFault, Pruned, Tidy, TidyFault,
           Tidied, MakeDirectory, Obstructed, WriteDirectory, WriteFile, WriteRecord, IsNext, Clear,
           Create, Fill, FilesystemFails, Signal, Killed
      <3>3. p = q
        BY <3>2 DEF Typed, TypeOK, Tree
      <3>4. PICK f \in Generated : Place(start, f) = p /\ f # dest
        BY <2>1, <2>2 DEF FilledIn
      <3>5. ~Refused /\ dest \in Generated \cup {RecordPath}
        BY <2>2 DEF Settled, Bounded, CopyStage
      <3>6. dest # RecordPath
        <4> SUFFICES ASSUME dest = RecordPath PROVE FALSE
          OBVIOUS
        <4>1. Place(start, f) = RecordPath
          BY <3>1, <3>3, <3>4, TopStays DEF Bounded, Typed, TypeOK
        <4>2. f = RecordPath
          BY <4>1, GeneratedPaths, TopStays DEF Bounded
        <4> QED
          BY <3>4, <4>2
      <3>7. LedTo(f) = p /\ LedTo(dest) = p
        BY <3>1, <3>3, <3>4, <3>5, <3>6, FilesLead
      <3> QED
        BY <3>4, <3>5, <3>6, <3>7
    <2>3. CASE pc = "merging"
      <3>1. tree' = tree \/ \E q \in Path : tree[q] = "none" /\ tree' = [tree EXCEPT ![q] = "dir"]
        <4>1. \A d \in Path : Place(tree, d) \in Path
          BY PlaceOfPlace DEF Typed, TypeOK
        <4> QED
          BY <2>3, <4>1 DEF CopyStage, Next, Step, Merge, PersonEdits, Edit, RefuseToStart, Begin,
             GeneratorSucceeds, GeneratorFails, Collect, Plan, Prune, PruneFault, Pruned, Tidy, TidyFault,
             Tidied, MakeDirectory, Obstructed, WriteDirectory, WriteFile, WriteRecord, IsNext, Clear,
             Create, Fill, FilesystemFails, Signal, Killed
      <3> QED
        BY <3>1 DEF Typed, TypeOK, Tree
    <2> QED
      BY <2>1, <2>2, <2>3 DEF Typed, TypeOK, Stage, CopyStage
  <1> QED
    BY AlwaysTyped, AlwaysBounded, <1>1, PTL DEF Spec, WrittenStaysWritten

(* And what stops a merge is always something it found in the project, or   *)
(* was put there under another of the plan's paths, through a link.         *)
THEOREM MergesDoNotObstructThemselves == Spec => []NeverInItsOwnWay
  <1>1. Typed /\ Settled /\ Bounded /\ Orderly => NeverInItsOwnWay
    <2> SUFFICES ASSUME Typed, Settled, Bounded, Orderly, pc = "merging", NEW pos \in pending
                 PROVE  /\ \A d \in NeededDirs(Entry(pos)) :
                              tree[LedTo(d)] = "new" => Shared(LedTo(d))
                        /\ LET p == LedTo(Entry(pos).dest)
                           IN  Entry(pos).kind = "file" /\ tree[p] = "dir"
                                  => start[p] = "dir" \/ Shared(p)
      BY DEF NeverInItsOwnWay
    <2>1. pos \in Positions /\ ~Refused /\ Wanted \subseteq Path /\ WellFormed(start)
      BY WantedPaths DEF Settled, Bounded, Typed, TypeOK
    <2>2. ASSUME NEW d \in NeededDirs(Entry(pos)), tree[LedTo(d)] = "new"
          PROVE  Shared(LedTo(d))
      <3>1. d \in Wanted
        BY <2>1, PlannedEntries
      <3>2. PICK p \in Path : p = LedTo(d)
        BY <2>1, <3>1, LedToPath
      <3>3. PICK f \in Generated : Place(start, f) = p
        BY <2>2, <3>2 DEF Orderly, FilledIn
      <3>4. LedTo(f) = p /\ f # d
        BY <2>1, <3>1, <3>3, FilesLead
      <3> QED
        BY <3>1, <3>2, <3>3, <3>4 DEF Shared
    <2>3. ASSUME NEW p, p = LedTo(Entry(pos).dest), Entry(pos).kind = "file", tree[p] = "dir",
                 start[p] # "dir"
          PROVE  Shared(p)
      <3>1. PICK f \in Generated : f = Entry(pos).dest /\ f \in Path
        BY <2>1, <2>3, PlannedEntries DEF Typed, Landing
      <3>2. p = Place(start, f) /\ p \in Path /\ f \notin Wanted /\ LedTo(f) = p
        BY <2>1, <2>3, <3>1, FilesLead, PlaceOfPlace
      <3>3. PICK d \in Wanted : p = Place(start, d)
        BY <2>3, <3>2 DEF Orderly
      <3>4. start[d] # "link"
        <4> SUFFICES ASSUME start[d] = "link" PROVE FALSE
          OBVIOUS
        <4>1. tree[d] = "link"
          BY <2>1, <3>3 DEF Bounded, Straight
        <4>2. OnTheWay(start, d) = {}
          BY <2>1, <3>3 DEF WellFormed, OnTheWay
        <4>3. p = d
          BY <3>3, <4>2 DEF Place
        <4> QED
          BY <2>3, <4>1, <4>3
      <3>5. LedTo(d) = p /\ d # f
        BY <3>2, <3>3, <3>4 DEF LedTo, Followed
      <3> QED
        BY <3>2, <3>5, <3>1, <3>3 DEF Shared
    <2> QED
      BY <2>2, <2>3
  <1> QED
    BY AlwaysTyped, AlwaysBounded, <1>1, PTL
=============================================================================
