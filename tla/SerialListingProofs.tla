-------------------------- MODULE SerialListingProofs --------------------------
(***************************************************************************)
(* What one thread lists is the drive (module SerialListing), whatever the *)
(* drive is and in whatever way its directories fail to be read: nothing   *)
(* is listed twice or under two kinds, and nothing is missing but what is  *)
(* in the directories that could not be read.  The walk is a stack, each   *)
(* frame of it with children left to visit; the invariant ListingInv says  *)
(* that what is in the result, together with what is in or below these, is *)
(* what the listing will be.                                               *)
(***************************************************************************)
EXTENDS SerialListing, SequenceTheorems, TLAPS

(* A frame holds children of its directory, only directories if the answer *)
(* gave their kinds, and no directory is walked twice at once.             *)
StackOK(s) ==
  /\ \A i \in 1 .. Len(s) : /\ s[i].left \subseteq Children[s[i].dir]
                            /\ s[i].items => s[i].left \subseteq Dirs
  /\ \A i, j \in 1 .. Len(s) : i # j => s[i].dir # s[j].dir

LeftOf(s) == UNION {s[i].left : i \in 1 .. Len(s)}
DirsOf(s) == {s[i].dir : i \in 1 .. Len(s)}

(* What has yet to be found, if T is what has yet to be visited.            *)
Waiting(T) == {n \in Nodes : \E c \in T : n \in {c} \cup Under[c]}

Apart(T) == \A c, e \in T : c # e => c \notin Under[e]

(* What the walk has yet to visit: what is left in the frames, and what is  *)
(* in the directory being read, or the child being probed.                  *)
Todo(s, r) ==
  LeftOf(s) \cup (IF s # <<>> /\ r = {Head(s).dir} THEN Children[Head(s).dir] ELSE r)

PlaceOK(s, r) ==
  /\ StackOK(s)
  /\ Apart(Todo(s, r))
  /\ Waiting(Todo(s, r)) \cap DirsOf(s) = {}
  /\ \/ r = {}
     \/ s # <<>> /\ r = {Head(s).dir} /\ Head(s).left = {}
     \/ s # <<>> /\ \E n \in Children[Head(s).dir] \ Head(s).left : r = {n}

(* What has been found, of a drive in which some directories are not read   *)
(* and some children are dropped.                                           *)
Seen(T, unread, dropped) ==
  {n \in Nodes \ (dropped \cup {Root}) :
     Above[n] \cap (unread \cup dropped) = {} /\ n \notin Waiting(T)}

(* The result is that part of the listing, and the failures so far are none *)
(* of what waits, nor above it.                                             *)
PartOf(res, T, unread, misfiled, dropped) ==
  /\ unread \subseteq Dirs /\ misfiled \subseteq unread /\ dropped \subseteq Unresolvable
  /\ res = {Entry(n, n \in Dirs \ misfiled) : n \in Seen(T, unread, dropped)}
  /\ Waiting(T) \cap (unread \cup dropped \cup {Root}) = {}
  /\ \A c \in T : Above[c] \cap (unread \cup dropped) = {}

PartFound(res, T, hard, mis) ==
  \E unread, misfiled \in SUBSET Dirs, dropped \in SUBSET Unresolvable :
    /\ PartOf(res, T, unread, misfiled, dropped)
    /\ ~hard => unread \subseteq mis \cup Unresolvable

(* The inductive invariant.                                                 *)
ListingInv ==
  /\ future = "running" => PlaceOK(stack, reading)
  /\ future \in {"running", "done"} => PartFound(result, Todo(stack, reading), hard_failure, misread)
  /\ future = "done" => stack = <<>> /\ reading = {}
  /\ caller = "listed" => future = "done"


---------------------------------------------------------------------------
(* The tree: what is below a directory.                                     *)

(* What is in a directory is below it, with all that is in that; and       *)
(* nothing else is.                                                        *)
LEMMA UnderIsClosed ==
  ASSUME NEW d \in Dirs
  PROVE  /\ Under[d] \subseteq Nodes \ {Root}
         /\ Children[d] \subseteq Under[d]
         /\ Closed(Under[d])
<1>1. d \in Nodes /\ Children[d] \in SUBSET (Nodes \ {Root})
  BY DriveAssumption
<1>2. Under[d] = {m \in Nodes : \A S \in SUBSET Nodes : Children[d] \subseteq S /\ Closed(S) => m \in S}
  BY <1>1 DEF Under
<1>3. Under[d] \subseteq Nodes /\ Children[d] \subseteq Under[d] /\ Closed(Under[d])
  BY <1>1, <1>2, DriveAssumption DEF Closed
<1>4. Root \notin Under[d]
  <2>1. Nodes \ {Root} \in SUBSET Nodes /\ Closed(Nodes \ {Root})
    BY DriveAssumption DEF Closed
  <2> QED
    BY <1>1, <1>2, <2>1
<1> QED
  BY <1>1, <1>3, <1>4

(* A set is shown to hold all of it by induction: with a directory, it      *)
(* holds what is in that.                                                   *)
LEMMA UnderIsLeast ==
  ASSUME NEW d \in Dirs, NEW S \in SUBSET Nodes, Children[d] \subseteq S,
         \A e \in S \cap Under[d] \cap Dirs : Children[e] \subseteq S
  PROVE  Under[d] \subseteq S
<1> DEFINE T == S \cap Under[d]
<1>1. T \in SUBSET Nodes /\ Children[d] \subseteq T /\ Closed(T)
  BY UnderIsClosed DEF Closed
<1>2. d \in Nodes
  BY DriveAssumption
<1> QED
  BY <1>1, <1>2 DEF Under

(* A file holds nothing.                                                    *)
LEMMA UnderFile ==
  ASSUME NEW n \in Nodes \ Dirs
  PROVE  Under[n] = {}
  BY DEF Under

(* The root is below nothing.                                               *)
LEMMA UnderType ==
  ASSUME NEW n \in Nodes
  PROVE  Under[n] \subseteq Nodes \ {Root}
  BY UnderIsClosed, UnderFile

(* What is below something below d is below d.                              *)
LEMMA UnderIsTransitive ==
  ASSUME NEW d \in Nodes, NEW e \in Under[d]
  PROVE  Under[e] \subseteq Under[d]
<1>1. d \in Dirs /\ e \in Nodes
  BY UnderFile, UnderType
<1>2. CASE e \in Dirs
  <2>1. Children[e] \subseteq Under[d] /\ Under[d] \in SUBSET Nodes /\ Closed(Under[d])
    BY <1>1, <1>2, UnderIsClosed DEF Closed
  <2> QED
    BY <1>2, <2>1, UnderIsLeast DEF Closed
<1> QED
  BY <1>1, <1>2, UnderFile

(* What is below d is a child of it, or below one.                          *)
LEMMA UnderByChild ==
  ASSUME NEW d \in Dirs, NEW n \in Under[d]
  PROVE  \E c \in Children[d] : n \in {c} \cup Under[c]
<1> DEFINE S == {m \in Nodes : \E c \in Children[d] : m \in {c} \cup Under[c]}
<1>0. Children[d] \subseteq Nodes
  BY DriveAssumption
<1>1. Children[d] \subseteq S
  BY <1>0
<1>2. ASSUME NEW e \in S, e \in Dirs
      PROVE  Children[e] \subseteq S
  <2>1. PICK c \in Children[d] : e \in {c} \cup Under[c]
    BY <1>2
  <2>2. Children[e] \subseteq Under[e] /\ Children[e] \subseteq Nodes
    BY <1>2, UnderIsClosed, DriveAssumption
  <2>3. Under[e] \subseteq Under[c]
    BY <1>0, <2>1, UnderIsTransitive
  <2> QED
    BY <2>1, <2>2, <2>3
<1>3. Under[d] \subseteq S
  <2> HIDE DEF S
  <2>1. S \in SUBSET Nodes
    BY DEF S
  <2> QED
    BY <1>1, <1>2, <2>1, UnderIsLeast
<1> QED
  BY <1>3

(* The directory that holds something below d is d, or below it too.        *)
LEMMA UnderByParent ==
  ASSUME NEW d \in Nodes, NEW n \in Under[d], NEW e \in Dirs, n \in Children[e]
  PROVE  e \in {d} \cup Under[d]
<1> DEFINE S == {m \in Nodes : \E f \in ({d} \cup Under[d]) \cap Dirs : m \in Children[f]}
<1>0. d \in Dirs /\ Under[d] \subseteq Nodes
  BY UnderFile, UnderType
<1>1. Children[d] \subseteq S
  BY <1>0, DriveAssumption
<1>2. ASSUME NEW f \in S \cap Under[d] \cap Dirs
      PROVE  Children[f] \subseteq S
  BY <1>2, DriveAssumption
<1>3. Under[d] \subseteq S
  <2> HIDE DEF S
  <2>1. S \in SUBSET Nodes
    BY DEF S
  <2> QED
    BY <1>0, <1>1, <1>2, <2>1, UnderIsLeast
<1>4. PICK f \in ({d} \cup Under[d]) \cap Dirs : n \in Children[f]
  BY <1>3
<1> QED
  BY <1>4, DriveAssumption

(* Nothing is below itself: nothing below the root is, and that is all     *)
(* there is.                                                               *)
LEMMA NotBelowItself ==
  ASSUME NEW n \in Nodes
  PROVE  n \notin Under[n]
<1> DEFINE S == {m \in Nodes : m \notin Under[m]}
<1>1. Root \in S /\ Root \in Dirs
  BY UnderType, DriveAssumption
<1>2. ASSUME NEW d \in S, d \in Dirs, NEW m \in Children[d]
      PROVE  m \in S
  <2>1. m \in Nodes
    BY <1>2, DriveAssumption
  <2>2. ASSUME m \in Under[m]
        PROVE  FALSE
    <3>1. d \in {m} \cup Under[m] /\ m \in Under[d]
      BY <1>2, <2>1, <2>2, UnderByParent, UnderIsClosed
    <3>2. d \in Under[d]
      BY <2>1, <3>1, UnderIsTransitive, <1>2
    <3> QED
      BY <1>2, <3>2
  <2> QED
    BY <2>1, <2>2
<1>3. Under[Root] \subseteq S
  <2> HIDE DEF S
  <2>1. S \in SUBSET Nodes
    BY DEF S
  <2> QED
    BY <1>1, <1>2, <2>1, UnderIsLeast
<1> QED
  BY <1>1, <1>3, DriveAssumption

(* What two nodes both contain is in one of them because the other is.     *)
LEMMA ContainersAreNested ==
  ASSUME NEW d \in Nodes, NEW e \in Nodes, d # e, d \notin Under[e], e \notin Under[d]
  PROVE  ({d} \cup Under[d]) \cap ({e} \cup Under[e]) = {}
<1>1. CASE d \notin Dirs
  BY <1>1, UnderFile
<1>2. CASE d \in Dirs
  <2> DEFINE S == Nodes \ ({e} \cup Under[e])
  <2>1. ASSUME NEW f \in {d} \cup (S \cap Under[d]), f \in Dirs, NEW n \in Children[f]
        PROVE  n \in S
    <3>1. n \in Nodes /\ n \in Under[f]
      BY <2>1, UnderIsClosed, DriveAssumption
    <3>2. n \in Under[d]
      BY <2>1, <3>1, UnderIsTransitive
    <3>3. n \notin Under[e]
      BY <2>1, <3>1, UnderByParent
    <3> QED
      BY <3>1, <3>2, <3>3
  <2>2. Under[d] \subseteq S
    <3> HIDE DEF S
    <3>1. S \in SUBSET Nodes
      BY DEF S
    <3> QED
      BY <1>2, <2>1, <3>1, UnderIsLeast
  <2> QED
    BY <2>2
<1> QED
  BY <1>1, <1>2

(* Neither of two members of a directory is below the other.               *)
LEMMA MembersAreApart ==
  ASSUME NEW d \in Dirs, NEW c \in Children[d], NEW e \in Children[d]
  PROVE  /\ c \notin Under[e]
         /\ d \notin {c} \cup Under[c]
<1>1. c \in Nodes /\ e \in Nodes /\ d \in Nodes /\ c \in Under[d] /\ e \in Under[d]
  BY DriveAssumption, UnderIsClosed
<1>2. d \notin Under[d]
  BY <1>1, NotBelowItself
<1>3. d \notin {c} \cup Under[c] /\ d \notin {e} \cup Under[e]
  BY <1>1, <1>2, UnderIsTransitive
<1> QED
  BY <1>1, <1>3, UnderByParent

---------------------------------------------------------------------------
(* What waits, and the part of the listing that has been found.             *)

(* Without some of what waits, what is in these waits no longer.           *)
LEMMA WaitingWithout ==
  ASSUME NEW T \in SUBSET Nodes, Apart(T), NEW F \in SUBSET T
  PROVE  /\ Waiting(T \ F) = Waiting(T) \ Waiting(F)
         /\ Apart(T \ F)
<1>1. ASSUME NEW c \in F, NEW e \in T \ F
      PROVE  ({c} \cup Under[c]) \cap ({e} \cup Under[e]) = {}
  BY ContainersAreNested DEF Apart
<1>2. \A n \in Nodes : n \in Waiting(T \ F) <=> n \in Waiting(T) /\ n \notin Waiting(F)
  BY <1>1 DEF Waiting
<1> QED
  BY <1>2 DEF Apart, Waiting

LEMMA WaitingWithoutOne ==
  ASSUME NEW T \in SUBSET Nodes, Apart(T), NEW c \in T
  PROVE  /\ Waiting(T \ {c}) = Waiting(T) \ ({c} \cup Under[c])
         /\ {c} \cup Under[c] \subseteq Waiting(T)
         /\ Apart(T \ {c})
<1>1. {c} \in SUBSET T /\ Waiting({c}) = {c} \cup Under[c]
  BY UnderType DEF Waiting
<1>2. {c} \cup Under[c] \subseteq Waiting(T)
  BY UnderType DEF Waiting
<1> QED
  BY <1>1, <1>2, WaitingWithout

(* Where a directory waited, its members wait.                             *)
LEMMA WaitingInside ==
  ASSUME NEW T \in SUBSET Nodes, Apart(T), NEW c \in T, c \in Dirs
  PROVE  /\ Waiting((T \ {c}) \cup Children[c]) = Waiting(T) \ {c}
         /\ Apart((T \ {c}) \cup Children[c])
<1>1. Children[c] \subseteq Nodes /\ Children[c] \subseteq Under[c] /\ c \notin Under[c]
  BY DriveAssumption, UnderIsClosed, NotBelowItself
<1>2. Waiting(Children[c]) = Under[c]
  <2>1. \A n \in Under[c] : n \in Waiting(Children[c])
    BY UnderByChild, UnderType DEF Waiting
  <2>2. ASSUME NEW m \in Children[c], NEW n \in {m} \cup Under[m]
        PROVE  n \in Under[c]
    BY <1>1, <2>2, UnderIsTransitive
  <2> QED
    BY <2>1, <2>2 DEF Waiting
<1>3. Waiting(T \ {c}) = Waiting(T) \ ({c} \cup Under[c])
  BY WaitingWithoutOne
<1>4. Waiting((T \ {c}) \cup Children[c]) = Waiting(T) \ {c}
  <2>1. Waiting((T \ {c}) \cup Children[c]) = Waiting(T \ {c}) \cup Waiting(Children[c])
    BY DEF Waiting
  <2>2. Under[c] \subseteq Waiting(T)
    BY UnderType DEF Waiting
  <2> QED
    BY <1>1, <1>2, <1>3, <2>1, <2>2
<1>5. ASSUME NEW e \in T \ {c}, NEW m \in Children[c]
      PROVE  e # m /\ e \notin Under[m] /\ m \notin Under[e]
  <2>1. e \in Nodes /\ m \in Under[c] /\ e \notin Under[c] /\ c \notin {e} \cup Under[e]
    BY <1>1 DEF Apart
  <2> QED
    BY <1>1, <2>1, UnderIsTransitive, UnderByParent
<1>6. \A m, n \in Children[c] : m \notin Under[n]
  BY MembersAreApart
<1> QED
  BY <1>4, <1>5, <1>6 DEF Apart

(* Above is the converse of Under, and what is to be visited waits.         *)
LEMMA AboveWaiting ==
  ASSUME NEW T \in SUBSET Nodes, NEW n \in Nodes, NEW d \in Dirs
  PROVE  /\ d \in Above[n] <=> n \in Under[d]
         /\ n \in Waiting({d}) <=> n = d \/ n \in Under[d]
         /\ T \subseteq Waiting(T) /\ Waiting(T) \subseteq Nodes
  BY UnderType, DriveAssumption DEF Above, Waiting

(* A child is not found: it is missing, with all below it.                 *)
LEMMA PartWithout ==
  ASSUME NEW res, NEW T \in SUBSET Nodes, Apart(T), NEW u, NEW m, NEW d,
         PartOf(res, T, u, m, d), NEW c \in T, c \in Unresolvable
  PROVE  PartOf(res, T \ {c}, u, m, d \cup {c})
<1>1. Waiting(T \ {c}) = Waiting(T) \ ({c} \cup Under[c]) /\ {c} \cup Under[c] \subseteq Waiting(T)
  BY WaitingWithoutOne
<1>2. \A n \in Nodes : c \in Above[n] <=> n \in Under[c]
  BY UnderFile DEF Above
<1>3. Seen(T \ {c}, u, d \cup {c}) = Seen(T, u, d)
  BY <1>1, <1>2 DEF Seen
<1>4. \A n \in T \ {c} : c \notin Above[n]
  BY <1>2 DEF Apart
<1>5. Waiting(T \ {c}) \cap (u \cup (d \cup {c}) \cup {Root}) = {}
  BY <1>1 DEF PartOf
<1> QED
  BY <1>3, <1>4, <1>5 DEF PartOf

(* A directory is found: its members wait in its place.                    *)
LEMMA PartEntered ==
  ASSUME NEW res, NEW T \in SUBSET Nodes, Apart(T), NEW u, NEW m, NEW d,
         PartOf(res, T, u, m, d), NEW c \in T, c \in Dirs
  PROVE  PartOf(res \cup {Entry(c, TRUE)}, (T \ {c}) \cup Children[c], u, m, d)
<1> DEFINE U == (T \ {c}) \cup Children[c]
<1>1. Waiting(U) = Waiting(T) \ {c} /\ c \in Waiting(T)
  BY WaitingInside DEF Waiting
<1>2. c \notin u \cup d \cup {Root} /\ c \notin m /\ Above[c] \cap (u \cup d) = {}
  BY <1>1 DEF PartOf
<1>3. Seen(U, u, d) = Seen(T, u, d) \cup {c}
  BY <1>1, <1>2 DEF Seen
<1>4. ASSUME NEW n \in Children[c]
      PROVE  Above[n] \cap (u \cup d) = {}
  <2>1. n \in Nodes
    BY DriveAssumption
  <2>2. \A e \in Above[n] : e = c \/ e \in Above[c]
    BY <2>1, UnderByParent, DriveAssumption DEF Above
  <2> QED
    BY <1>2, <2>2
<1>5. \A n \in U : Above[n] \cap (u \cup d) = {}
  BY <1>4 DEF PartOf
<1>6. res \cup {Entry(c, TRUE)} = {Entry(n, n \in Dirs \ m) : n \in Seen(T, u, d) \cup {c}}
  BY <1>2 DEF PartOf
<1> HIDE DEF U
<1>7. PartOf(res \cup {Entry(c, TRUE)}, U, u, m, d)
  BY <1>1, <1>3, <1>5, <1>6 DEF PartOf
<1> QED
  BY <1>7 DEF U

(* Some pass for files, rightly or not.                                    *)
LEMMA PartFiled ==
  ASSUME NEW res, NEW T \in SUBSET Nodes, Apart(T), NEW u, NEW m, NEW d,
         PartOf(res, T, u, m, d), NEW F \in SUBSET T
  PROVE  PartOf(res \cup FileEntries(F), T \ F, u \cup (F \cap Dirs), m \cup (F \cap Dirs), d)
<1> DEFINE v == u \cup (F \cap Dirs)
           k == m \cup (F \cap Dirs)
<1>1. /\ Waiting(T \ F) = Waiting(T) \ Waiting(F) /\ F \subseteq Waiting(F)
      /\ Waiting(F) \subseteq Waiting(T)
  BY WaitingWithout DEF Waiting
<1>2. \A n \in F : n \notin u \cup d \cup {Root} /\ Above[n] \cap (u \cup d) = {}
  BY <1>1 DEF PartOf
<1>3. \A n \in T, f \in F : f \notin Above[n]
  <2>1. ASSUME NEW n \in T, NEW f \in F, f \in Above[n]
        PROVE  FALSE
    <3>1. n \in Under[f] /\ f \in Dirs
      BY <2>1 DEF Above
    <3> QED
      BY <3>1, NotBelowItself DEF Apart
  <2> QED
    BY <2>1
<1>4. ASSUME NEW n \in Nodes
      PROVE  n \in Waiting(F) <=> n \in F \/ \E f \in F \cap Dirs : f \in Above[n]
  BY UnderFile, DriveAssumption DEF Waiting, Above
<1>5. Seen(T \ F, v, d) = Seen(T, u, d) \cup F
  BY <1>1, <1>2, <1>3, <1>4 DEF Seen
<1>6. F \cap Seen(T, u, d) = {}
  BY <1>1 DEF Seen
<1>7. res \cup FileEntries(F) = {Entry(n, n \in Dirs \ k) : n \in Seen(T, u, d) \cup F}
  <2>1. \A n \in Seen(T, u, d) : (n \in Dirs \ k) = (n \in Dirs \ m)
    BY <1>6
  <2>2. \A n \in F : (n \in Dirs \ k) = FALSE
    OBVIOUS
  <2> HIDE DEF k
  <2>3. {Entry(n, n \in Dirs \ m) : n \in Seen(T, u, d)} = {Entry(n, n \in Dirs \ k) : n \in Seen(T, u, d)}
    BY <2>1
  <2>4. FileEntries(F) = {Entry(n, n \in Dirs \ k) : n \in F}
    BY <2>2 DEF FileEntries
  <2> QED
    BY <2>3, <2>4 DEF PartOf
<1>8. Waiting(T \ F) \cap (v \cup d \cup {Root}) = {}
  BY <1>1 DEF PartOf
<1>9. \A n \in T \ F : Above[n] \cap (v \cup d) = {}
  BY <1>3 DEF PartOf
<1>10. v \subseteq Dirs /\ k \subseteq v /\ d \subseteq Unresolvable
  BY DEF PartOf
<1> HIDE DEF v, k
<1>11. PartOf(res \cup FileEntries(F), T \ F, v, k, d)
  BY <1>5, <1>7, <1>8, <1>9, <1>10 DEF PartOf
<1> QED
  BY <1>11 DEF v, k

(* A directory is found, but not what is in it.                            *)
LEMMA PartUnwalked ==
  ASSUME NEW res, NEW T \in SUBSET Nodes, Apart(T), NEW u, NEW m, NEW d,
         PartOf(res, T, u, m, d), NEW c \in T, c \in Dirs
  PROVE  PartOf(res \cup {Entry(c, TRUE)}, T \ {c}, u \cup {c}, m, d)
<1>1. Waiting(T \ {c}) = Waiting(T) \ ({c} \cup Under[c]) /\ {c} \cup Under[c] \subseteq Waiting(T)
  BY WaitingWithoutOne
<1>2. c \notin u \cup d \cup {Root} /\ c \notin m /\ Above[c] \cap (u \cup d) = {}
  BY <1>1 DEF PartOf
<1>3. \A n \in Nodes : c \in Above[n] <=> n \in Under[c]
  BY DEF Above
<1>4. c \notin Under[c]
  BY NotBelowItself
<1>5. Seen(T \ {c}, u \cup {c}, d) = Seen(T, u, d) \cup {c}
  BY <1>1, <1>2, <1>3, <1>4 DEF Seen
<1>6. \A n \in T \ {c} : c \notin Above[n]
  BY <1>3 DEF Apart
<1>7. res \cup {Entry(c, TRUE)} = {Entry(n, n \in Dirs \ m) : n \in Seen(T, u, d) \cup {c}}
  BY <1>2 DEF PartOf
<1>8. Waiting(T \ {c}) \cap ((u \cup {c}) \cup d \cup {Root}) = {}
  BY <1>1 DEF PartOf
<1> QED
  BY <1>5, <1>6, <1>7, <1>8 DEF PartOf

(* A directory that was found cannot be read.                              *)
LEMMA PartUnread ==
  ASSUME NEW res, NEW T \in SUBSET Nodes, Apart(T), NEW u, NEW m, NEW d,
         PartOf(res, T, u, m, d), NEW e \in Dirs, Children[e] \subseteq T, e \notin Waiting(T)
  PROVE  PartOf(res, T \ Children[e], u \cup {e}, m, d)
<1>1. Waiting(Children[e]) = Under[e]
  <2>1. Children[e] \subseteq Nodes
    BY DriveAssumption
  <2>2. \A n \in Under[e] : n \in Waiting(Children[e])
    BY UnderByChild, UnderIsClosed DEF Waiting
  <2>3. ASSUME NEW c \in Children[e], NEW n \in {c} \cup Under[c]
        PROVE  n \in Under[e]
    BY <2>1, <2>3, UnderIsClosed, UnderIsTransitive, DriveAssumption
  <2> QED
    BY <2>2, <2>3 DEF Waiting
<1>2. Waiting(T \ Children[e]) = Waiting(T) \ Under[e]
  BY <1>1, WaitingWithout
<1>3. Under[e] \subseteq Waiting(T)
  BY <1>1 DEF Waiting
<1>4. \A n \in Nodes : e \in Above[n] <=> n \in Under[e]
  BY DEF Above
<1>5. Seen(T \ Children[e], u \cup {e}, d) = Seen(T, u, d)
  BY <1>2, <1>3, <1>4 DEF Seen
<1>6. \A n \in T \ Children[e] : e \notin Above[n]
  <2>1. \A n \in T \ Children[e] : n \in Waiting(T \ Children[e])
    BY DEF Waiting
  <2> QED
    BY <1>2, <1>4, <2>1
<1>7. Waiting(T \ Children[e]) \cap ((u \cup {e}) \cup d \cup {Root}) = {}
  BY <1>2 DEF PartOf
<1> QED
  BY <1>5, <1>6, <1>7 DEF PartOf

---------------------------------------------------------------------------
(* The stack.                                                               *)

(* The innermost directory goes on with something else to visit.           *)
LEMMA StackVisits ==
  ASSUME NEW s \in Seq(Frames), s # <<>>, StackOK(s), NEW x \in Frames,
         x.dir = Head(s).dir, x.left \subseteq Children[x.dir], x.items => x.left \subseteq Dirs,
         NEW t, t = <<x>> \o Tail(s)
  PROVE  /\ t \in Seq(Frames) /\ t # <<>> /\ Head(t) = x
         /\ StackOK(t)
         /\ DirsOf(t) = DirsOf(s)
         /\ LeftOf(t) = (LeftOf(s) \ Head(s).left) \cup x.left
<1>1. /\ t \in Seq(Frames) /\ Len(t) = Len(s) /\ t[1] = x /\ 1 \in 1 .. Len(s)
      /\ \A i \in 1 .. Len(s) : i # 1 => t[i] = s[i]
  OBVIOUS
<1>2. t # <<>> /\ Head(t) = x /\ Head(s) = s[1]
  BY <1>1
<1>3. StackOK(t)
  BY <1>1, <1>2 DEF StackOK
<1>4. DirsOf(t) = DirsOf(s)
  BY <1>1, <1>2 DEF DirsOf
<1>5. \A i \in 1 .. Len(s) : i # 1 => s[i].left \cap s[1].left = {}
  <2>1. \A i \in 1 .. Len(s) : s[i].dir \in Dirs
    <3>1. \A i \in 1 .. Len(s) : s[i] \in Frames
      BY ElementOfSeq
    <3> QED
      BY <3>1 DEF Frames
  <2> QED
    BY <1>1, <2>1, DriveAssumption DEF StackOK
<1>6. LeftOf(t) = (LeftOf(s) \ Head(s).left) \cup x.left
  <2>1. \A n : n \in LeftOf(t) <=> \E i \in 1 .. Len(s) : n \in t[i].left
    BY <1>1 DEF LeftOf
  <2>2. \A n : n \in LeftOf(s) <=> \E i \in 1 .. Len(s) : n \in s[i].left
    BY DEF LeftOf
  <2>3. \A n : n \in LeftOf(t) <=> n \in x.left \/ \E i \in 1 .. Len(s) : i # 1 /\ n \in s[i].left
    BY <1>1, <2>1
  <2>4. \A n : n \in LeftOf(s) \ s[1].left <=> \E i \in 1 .. Len(s) : i # 1 /\ n \in s[i].left
    BY <1>1, <1>5, <2>2
  <2> QED
    BY <1>2, <2>3, <2>4
<1> QED
  BY <1>1, <1>2, <1>3, <1>4, <1>6

(* A directory that is not being walked is entered.                        *)
LEMMA StackEnters ==
  ASSUME NEW s \in Seq(Frames), StackOK(s), NEW d \in Dirs \ DirsOf(s),
         NEW t, t = <<Frame(d)>> \o s
  PROVE  /\ t \in Seq(Frames) /\ t # <<>> /\ Head(t) = Frame(d)
         /\ StackOK(t)
         /\ DirsOf(t) = DirsOf(s) \cup {d}
         /\ LeftOf(t) = LeftOf(s)
<1>0. Frame(d) \in Frames /\ Frame(d).dir = d /\ Frame(d).left = {} /\ Frame(d).items = FALSE
  BY DEF Frame, Frames
<1>1. /\ t \in Seq(Frames) /\ Len(t) = Len(s) + 1 /\ t[1] = Frame(d) /\ 1 \in 1 .. Len(t)
      /\ \A i \in 1 .. Len(t) : i # 1 => i - 1 \in 1 .. Len(s) /\ t[i] = s[i - 1]
      /\ \A i \in 1 .. Len(s) : i + 1 \in 1 .. Len(t) /\ t[i + 1] = s[i]
  BY <1>0
<1>2. t # <<>> /\ Head(t) = Frame(d)
  BY <1>1
<1>3. StackOK(t)
  <2>1. ASSUME NEW i \in 1 .. Len(t)
        PROVE  /\ t[i].left \subseteq Children[t[i].dir]
               /\ t[i].items => t[i].left \subseteq Dirs
    BY <1>0, <1>1 DEF StackOK
  <2>2. ASSUME NEW i \in 1 .. Len(t), NEW j \in 1 .. Len(t), i # j
        PROVE  t[i].dir # t[j].dir
    <3>1. \A k \in 1 .. Len(s) : s[k].dir # d
      BY DEF DirsOf
    <3>a. t[1].dir = d
      BY <1>0, <1>1
    <3>b. \A k \in 1 .. Len(t) : k # 1 => t[k].dir # d
      BY <1>1, <3>1
    <3>2. CASE i = 1
      BY <2>2, <3>a, <3>b, <3>2
    <3>3. CASE j = 1
      BY <2>2, <3>a, <3>b, <3>3
    <3>4. CASE i # 1 /\ j # 1
      <4>1. i - 1 # j - 1
        BY <2>2
      <4>2. /\ i - 1 \in 1 .. Len(s) /\ t[i] = s[i - 1]
            /\ j - 1 \in 1 .. Len(s) /\ t[j] = s[j - 1]
        BY <1>1, <3>4
      <4>3. s[i - 1].dir # s[j - 1].dir
        BY <4>1, <4>2 DEF StackOK
      <4> QED
        BY <4>2, <4>3
    <3> QED
      BY <3>2, <3>3, <3>4
  <2> QED
    BY <2>1, <2>2 DEF StackOK
<1>4. DirsOf(t) = DirsOf(s) \cup {d}
  <2>1. \A e : e \in DirsOf(t) <=> \E i \in 1 .. Len(t) : e = t[i].dir
    BY DEF DirsOf
  <2>2. \A e : e \in DirsOf(s) <=> \E i \in 1 .. Len(s) : e = s[i].dir
    BY DEF DirsOf
  <2>3. ASSUME NEW e
        PROVE  e \in DirsOf(t) <=> e \in DirsOf(s) \/ e = d
    <3>1. CASE \E i \in 1 .. Len(t) : e = t[i].dir
      BY <1>0, <1>1, <2>1, <2>2, <3>1
    <3>2. CASE \E i \in 1 .. Len(s) : e = s[i].dir
      BY <1>1, <2>1, <2>2, <3>2
    <3> QED
      BY <1>0, <1>1, <2>1, <2>2, <3>1, <3>2
  <2> QED
    BY <2>3
<1>5. LeftOf(t) = LeftOf(s)
  <2>1. \A n : n \in LeftOf(t) <=> \E i \in 1 .. Len(t) : n \in t[i].left
    BY DEF LeftOf
  <2>2. \A n : n \in LeftOf(s) <=> \E i \in 1 .. Len(s) : n \in s[i].left
    BY DEF LeftOf
  <2>3. ASSUME NEW n
        PROVE  n \in LeftOf(t) <=> n \in LeftOf(s)
    <3>1. CASE \E i \in 1 .. Len(t) : n \in t[i].left
      BY <1>0, <1>1, <2>1, <2>2, <3>1
    <3>2. CASE \E i \in 1 .. Len(s) : n \in s[i].left
      BY <1>1, <2>1, <2>2, <3>2
    <3> QED
      BY <2>1, <2>2, <3>1, <3>2
  <2> QED
    BY <2>3
<1> QED
  BY <1>1, <1>2, <1>3, <1>4, <1>5

(* The innermost directory is left.                                        *)
LEMMA StackLeaves ==
  ASSUME NEW s \in Seq(Frames), s # <<>>, StackOK(s), Head(s).left = {}
  PROVE  /\ Tail(s) \in Seq(Frames)
         /\ StackOK(Tail(s))
         /\ DirsOf(Tail(s)) \subseteq DirsOf(s)
         /\ LeftOf(Tail(s)) = LeftOf(s)
<1> DEFINE t == Tail(s)
<1>1. /\ t \in Seq(Frames) /\ Head(s) = s[1] /\ 1 \in 1 .. Len(s)
      /\ \A i \in 1 .. Len(t) : i + 1 \in 1 .. Len(s) /\ t[i] = s[i + 1]
      /\ \A i \in 1 .. Len(s) : i # 1 => i - 1 \in 1 .. Len(t) /\ t[i - 1] = s[i]
  <2>1. t \in Seq(Frames) /\ Len(t) = Len(s) - 1 /\ Len(s) \in Nat \ {0}
    BY HeadTailProperties, LenProperties, EmptySeq
  <2>2. \A i \in 1 .. Len(t) : i + 1 \in 1 .. Len(s) /\ t[i] = s[i + 1]
    BY <2>1
  <2>3. ASSUME NEW i \in 1 .. Len(s), i # 1
        PROVE  i - 1 \in 1 .. Len(t) /\ t[i - 1] = s[i]
    <3>1. i - 1 \in 1 .. Len(t) /\ (i - 1) + 1 = i
      BY <2>1, <2>3
    <3> QED
      BY <2>2, <3>1
  <2> HIDE DEF t
  <2> QED
    BY <2>1, <2>2, <2>3
<1> HIDE DEF t
<1>2. StackOK(t)
  <2>1. ASSUME NEW i \in 1 .. Len(t), NEW j \in 1 .. Len(t), i # j
        PROVE  t[i].dir # t[j].dir
    <3>1. i + 1 # j + 1
      BY <2>1
    <3> QED
      BY <1>1, <3>1 DEF StackOK
  <2> QED
    BY <1>1, <2>1 DEF StackOK
<1>3. DirsOf(t) \subseteq DirsOf(s)
  BY <1>1 DEF DirsOf
<1>4. LeftOf(t) = LeftOf(s)
  <2>1. \A n : n \in LeftOf(t) <=> \E i \in 1 .. Len(t) : n \in t[i].left
    BY DEF LeftOf
  <2>2. \A n : n \in LeftOf(s) <=> \E i \in 1 .. Len(s) : n \in s[i].left
    BY DEF LeftOf
  <2>3. ASSUME NEW n
        PROVE  n \in LeftOf(t) <=> n \in LeftOf(s)
    <3>1. CASE \E i \in 1 .. Len(t) : n \in t[i].left
      BY <1>1, <2>1, <2>2, <3>1
    <3>2. CASE \E i \in 1 .. Len(s) : n \in s[i].left
      BY <1>1, <2>1, <2>2, <3>2
    <3> QED
      BY <2>1, <2>2, <3>1, <3>2
  <2> QED
    BY <2>3
<1> QED
  BY <1>1, <1>2, <1>3, <1>4 DEF t

---------------------------------------------------------------------------
(* Types.                                                                   *)

(* Frames.                                                                  *)
LEMMA FrameType ==
  ASSUME NEW f \in Frames
  PROVE  /\ f.dir \in Dirs /\ f.left \in SUBSET Nodes /\ f.items \in BOOLEAN
         /\ \A left \in SUBSET Nodes : \A items \in BOOLEAN :
              [f EXCEPT !.left = left, !.items = items] \in Frames
         /\ \A left \in SUBSET Nodes : [f EXCEPT !.left = left] \in Frames
  BY DEF Frames

LEMMA FrameOf ==
  ASSUME NEW d \in Dirs
  PROVE  Frame(d) \in Frames /\ Frame(d).dir = d /\ Frame(d).left = {} /\ Frame(d).items = FALSE
  BY DEF Frame, Frames

LEMMA InnerType ==
  ASSUME stack \in Seq(Frames), stack # <<>>
  PROVE  Inner \in Frames /\ Outer \in Seq(Frames) /\ Inner = stack[1] /\ 1 \in 1 .. Len(stack)
  BY DEF Inner, Outer

(* The stack stays a stack of frames, whether the innermost is given other  *)
(* children, loses one, or another is put upon it.                          *)
LEMMA VisitsType ==
  ASSUME stack \in Seq(Frames), stack # <<>>, NEW left \in SUBSET Nodes, NEW items \in BOOLEAN,
         VisitsAll(left, items)
  PROVE  stack' \in Seq(Frames)
<1>1. Inner \in Frames /\ Outer \in Seq(Frames)
  BY InnerType
<1>2. [Inner EXCEPT !.left = left, !.items = items] \in Frames
  BY <1>1, FrameType
<1> QED
  BY <1>1, <1>2 DEF VisitsAll

LEMMA VisitedType ==
  ASSUME stack \in Seq(Frames), stack # <<>>, NEW c
  PROVE  Visited(c) \in Seq(Frames)
<1>1. Inner \in Frames /\ Outer \in Seq(Frames)
  BY InnerType
<1>2. Inner.left \ {c} \in SUBSET Nodes
  BY <1>1, FrameType
<1>3. [Inner EXCEPT !.left = @ \ {c}] \in Frames
  BY <1>1, <1>2, FrameType
<1> QED
  BY <1>1, <1>3 DEF Visited

LEMMA EnterType ==
  ASSUME NEW d \in Dirs, NEW s \in Seq(Frames), Enter(d, s)
  PROVE  stack' \in Seq(Frames) /\ reading' \subseteq Nodes /\ attempt' \in 1..MaxAttempts
<1>1. Frame(d) \in Frames
  BY FrameOf
<1>2. stack' \in Seq(Frames)
  BY <1>1 DEF Enter
<1>3. d \in Nodes /\ 1 \in 1..MaxAttempts
  BY DriveAssumption
<1> QED
  BY <1>2, <1>3 DEF Enter

(* What is found is an entry.                                               *)
LEMMA EntryType ==
  /\ \A n \in Nodes : \A b \in BOOLEAN : Entry(n, b) \in Entries
  /\ \A F \in SUBSET Nodes : FileEntries(F) \subseteq Entries
<1>1. ASSUME NEW n \in Nodes, NEW b \in BOOLEAN
      PROVE  Entry(n, b) \in Entries
  BY Zenon DEF Entry, Entries
<1>2. ASSUME NEW F \in SUBSET Nodes
      PROVE  FileEntries(F) \subseteq Entries
  BY <1>1, Zenon DEF FileEntries
<1> QED
  BY <1>1, <1>2, Zenon

LEMMA FoundType ==
  ASSUME result \subseteq Entries, NEW n \in Nodes, NEW b \in BOOLEAN, Found(n, b)
  PROVE  result' \subseteq Entries
  BY EntryType DEF Found

(* The type invariant.  A child whose kind an item gave is a directory:     *)
(* that is StackOK, without which VisitItem would enter a file.             *)
LEMMA TypesInit == Init => TypeOK
<1> SUFFICES ASSUME Init PROVE TypeOK
  OBVIOUS
<1>1. stack \in Seq(Frames) /\ reading \subseteq Nodes /\ attempt \in 1..MaxAttempts
      /\ listings \in 0..MaxListings
  BY DriveAssumption DEF Init
<1> QED
  BY <1>1 DEF Init, TypeOK

(* What a step does to the walk.                                            *)
LEMMA VisitNameDoes ==
  ASSUME TypeOK, NEW c \in Nodes, VisitName(c)
  PROVE  \/ /\ c \in Unresolvable /\ stack' = Visited(c)
            /\ reading' = reading /\ attempt' = attempt /\ result' = result
         \/ stack' = Visited(c) /\ reading' = {c} /\ attempt' = 1 /\ result' = result
         \/ c \in Dirs /\ Enter(c, Visited(c)) /\ Found(c, TRUE)
         \/ /\ c \notin Dirs /\ stack' = Visited(c) /\ Found(c, FALSE)
            /\ reading' = reading /\ attempt' = attempt
<1>1. CASE c \in Unresolvable
  BY <1>1 DEF VisitName
<1>2. CASE c \in Untyped \ Unresolvable
  BY <1>2 DEF VisitName
<1>3. CASE c \in Dirs \ (Untyped \cup Unresolvable)
  BY <1>3 DEF VisitName
<1>4. CASE c \notin Dirs \cup Untyped \cup Unresolvable
  BY <1>4 DEF VisitName
<1> QED
  BY <1>1, <1>2, <1>3, <1>4, Zenon

(* What either visit does.                                                  *)
LEMMA Visits ==
  ASSUME TypeOK, NEW c \in Nodes, VisitName(c) \/ VisitItem(c)
  PROVE  /\ future = "running" /\ stack # <<>> /\ reading = {} /\ c \in Inner.left
         /\ UNCHANGED <<caller, future, listings, hard_failure, misread>>
         /\ stack \in Seq(Frames)
  BY DEF VisitName, VisitItem, Walking, OtherwiseSame, TypeOK

LEMMA TypesStep ==
  ASSUME TypeOK, future = "running" => StackOK(stack), [Next]_vars
  PROVE  TypeOK'
<1>0. /\ stack \in Seq(Frames) /\ reading \subseteq Nodes /\ attempt \in 1..MaxAttempts
      /\ result \subseteq Entries /\ hard_failure \in BOOLEAN /\ misread \subseteq Dirs
      /\ listings \in 0..MaxListings
      /\ caller \in {"idle", "waits", "leaves", "listed", "raised"}
      /\ future \in {"none", "running", "done", "timeout", "error"}
  BY DEF TypeOK
<1>a. ASSUME stack' \in Seq(Frames), reading' \subseteq Nodes, attempt' \in 1..MaxAttempts,
             result' \subseteq Entries,
             UNCHANGED <<caller, future, listings, hard_failure, misread>>
      PROVE  TypeOK'
  BY <1>0, <1>a DEF TypeOK
<1>b. 1 \in 1..MaxAttempts /\ Dirs \subseteq Nodes /\ Root \in Dirs
      /\ <<>> \in Seq(Frames) /\ {} \subseteq Nodes
  BY DriveAssumption
<1>1. CASE BeginListing
  <2>1. Frame(Root) \in Frames
    BY <1>b, FrameOf
  <2>2. \/ stack' = <<Frame(Root)>> /\ reading' = {Root} /\ hard_failure' = FALSE
        \/ stack' = <<>> /\ reading' = {} /\ hard_failure' = TRUE
    BY <1>1 DEF BeginListing
  <2>3. stack' \in Seq(Frames)
    <3>1. <<Frame(Root)>> \in Seq(Frames)
      BY <2>1
    <3> QED
      BY <1>b, <2>2, <3>1, Zenon
  <2>4. reading' \subseteq Nodes /\ hard_failure' \in BOOLEAN
    BY <1>b, <2>2
  <2>5. attempt' = 1 /\ result' = {} /\ misread' = {} /\ caller' = "waits" /\ future' = "running"
        /\ listings' = listings + 1 /\ listings < MaxListings
    BY <1>1, Zenon DEF BeginListing
  <2>6. listings' \in 0..MaxListings
    BY <1>0, <2>5, DriveAssumption
  <2> QED
    BY <1>b, <2>3, <2>4, <2>5, <2>6 DEF TypeOK
<1>2. ASSUME NEW c \in Nodes, VisitName(c) \/ VisitItem(c)
      PROVE  TypeOK'
  <2>1. /\ future = "running" /\ stack # <<>> /\ reading = {} /\ c \in Inner.left
        /\ UNCHANGED <<caller, future, listings, hard_failure, misread>>
    BY <1>2, Visits
  <2>2. Visited(c) \in Seq(Frames)
    BY <1>0, <2>1, VisitedType
  <2>3. CASE VisitName(c)
    <3>1. CASE stack' = Visited(c) /\ reading' = reading /\ attempt' = attempt /\ result' = result
      BY <1>0, <1>a, <2>1, <2>2, <3>1
    <3>2. CASE stack' = Visited(c) /\ reading' = {c} /\ attempt' = 1 /\ result' = result
      BY <1>0, <1>a, <1>b, <2>1, <2>2, <3>2
    <3>3. CASE c \in Dirs /\ Enter(c, Visited(c)) /\ Found(c, TRUE)
      BY <1>0, <1>a, <2>1, <2>2, <3>3, EnterType, FoundType
    <3>4. CASE /\ stack' = Visited(c) /\ Found(c, FALSE)
               /\ reading' = reading /\ attempt' = attempt
      BY <1>0, <1>a, <2>1, <2>2, <3>4, FoundType
    <3> QED
      BY <2>3, <3>1, <3>2, <3>3, <3>4, VisitNameDoes
  <2>4. CASE VisitItem(c)
    <3>1. c \in Dirs
      <4>1. Inner = stack[1] /\ 1 \in 1 .. Len(stack)
        BY <1>0, <2>1, InnerType
      <4> QED
        BY <2>1, <2>4, <4>1 DEF VisitItem, StackOK
    <3>2. result' \subseteq Entries
      BY <1>0, <2>4, FoundType DEF VisitItem
    <3>3. CASE c \in Unresolvable
      <4>1. stack' = Visited(c) /\ reading' = reading /\ attempt' = attempt
        BY <2>4, <3>3 DEF VisitItem
      <4> QED
        BY <1>0, <1>a, <2>1, <2>2, <3>2, <4>1
    <3>4. CASE c \notin Unresolvable
      <4>1. Enter(c, Visited(c))
        BY <2>4, <3>4 DEF VisitItem
      <4>2. stack' \in Seq(Frames) /\ reading' \subseteq Nodes /\ attempt' \in 1..MaxAttempts
        BY <2>2, <3>1, <4>1, EnterType
      <4> QED
        BY <1>a, <2>1, <3>2, <4>2
    <3> QED
      BY <3>3, <3>4
  <2> QED
    BY <1>2, <2>3, <2>4
<1>3. CASE Leave
  <2>1. stack # <<>> /\ stack' = Outer /\ UNCHANGED <<reading, attempt, result>>
        /\ UNCHANGED <<caller, future, listings, hard_failure, misread>>
    BY <1>3 DEF Leave, Walking, OtherwiseSame
  <2>2. stack' \in Seq(Frames)
    BY <1>0, <2>1, InnerType
  <2> QED
    BY <1>0, <1>a, <2>1, <2>2
<1>4. CASE Return
  BY <1>0, <1>4 DEF Return, walk, TypeOK
<1>5. CASE LeaveByException
  BY <1>0, <1>b, <1>5 DEF LeaveByException, TypeOK
<1>6. CASE Consume
  <2>1. stack' = <<>> /\ reading' = {} /\ attempt' = 1 /\ result' = {} /\ hard_failure' = FALSE
        /\ misread' = {} /\ caller' = "idle" /\ future' = "none" /\ listings' = listings
    BY <1>6, Zenon DEF Consume
  <2> QED
    BY <1>0, <1>b, <2>1 DEF TypeOK
<1>7. CASE ReadNames \/ ReadItems
  <2>1. stack # <<>> /\ reading' = {} /\ attempt' = 1
    BY <1>7 DEF ReadNames, ReadItems, ReadingDir, Read
  <2>2. Inner \in Frames
    BY <1>0, <2>1, InnerType
  <2>3. Children[Inner.dir] \in SUBSET Nodes
    BY <2>2, FrameType, DriveAssumption
  <2>4. CASE ReadNames
    <3>1. VisitsAll(Children[Inner.dir], FALSE) /\ result' = result
          /\ UNCHANGED <<caller, future, listings, hard_failure, misread>>
      BY <2>4 DEF ReadNames, OtherwiseSame
    <3>2. stack' \in Seq(Frames)
      BY <1>0, <2>1, <2>3, <3>1, VisitsType
    <3> QED
      BY <1>0, <1>a, <1>b, <2>1, <3>1, <3>2
  <2>5. CASE ReadItems
    <3>1. PICK untold \in {{}, Untyped} :
            LET dirs == (Children[Inner.dir] \cap Dirs) \ untold
            IN  /\ VisitsAll(dirs, TRUE)
                /\ result' = result \cup FileEntries(Children[Inner.dir] \ dirs)
                /\ misread' = misread \cup (Children[Inner.dir] \cap untold \cap Dirs)
      BY <2>5, Zenon DEF ReadItems
    <3> DEFINE dirs == (Children[Inner.dir] \cap Dirs) \ untold
    <3>2. dirs \in SUBSET Nodes /\ Children[Inner.dir] \ dirs \in SUBSET Nodes
      BY <2>3
    <3>3. stack' \in Seq(Frames)
      BY <1>0, <2>1, <3>1, <3>2, VisitsType
    <3>4. result' \subseteq Entries
      <4>1. FileEntries(Children[Inner.dir] \ dirs) \subseteq Entries
        BY <3>2, EntryType
      <4> QED
        BY <1>0, <3>1, <4>1
    <3>5. misread' \subseteq Dirs
      BY <1>0, <3>1
    <3>6. UNCHANGED <<caller, future, listings, hard_failure>>
      BY <2>5 DEF ReadItems
    <3> QED
      BY <1>0, <1>b, <2>1, <3>3, <3>4, <3>5, <3>6 DEF TypeOK
  <2> QED
    BY <1>7, <2>4, <2>5
<1>8. ASSUME NEW n \in Nodes, ProbeAnswers(n)
      PROVE  TypeOK'
  <2>1. UNCHANGED <<caller, future, listings, hard_failure, misread>>
    BY <1>8 DEF ProbeAnswers, OtherwiseSame
  <2>2. CASE n \in Dirs
    <3>1. Enter(n, stack) /\ Found(n, TRUE)
      BY <1>8, <2>2 DEF ProbeAnswers
    <3> QED
      BY <1>0, <1>a, <2>1, <2>2, <3>1, EnterType, FoundType
  <2>3. CASE n \notin Dirs
    <3>1. stack' = stack /\ reading' = {} /\ attempt' = 1 /\ Found(n, FALSE)
      BY <1>8, <2>3 DEF ProbeAnswers, Read
    <3> QED
      BY <1>0, <1>a, <1>b, <2>1, <3>1, FoundType
  <2> QED
    BY <2>2, <2>3
<1>9. ASSUME NEW n \in Nodes, ReadFailsRetryably(n)
      PROVE  TypeOK'
  <2>1. UNCHANGED <<stack, reading, result, caller, future, listings, hard_failure, misread>>
        /\ attempt' = attempt + 1 /\ attempt < MaxAttempts
    BY <1>9 DEF ReadFailsRetryably, MayRetry, OtherwiseSame
  <2>2. attempt' \in 1..MaxAttempts
    BY <1>0, <2>1, DriveAssumption
  <2> QED
    BY <1>0, <1>a, <2>1, <2>2
<1>10. ASSUME NEW n \in Nodes, ReadFailsHard(n) \/ ReadNonDirectory(n)
      PROVE  TypeOK'
  <2>1. Unanswered(n) /\ UNCHANGED <<caller, future, listings>>
        /\ hard_failure' \in {TRUE, hard_failure} /\ misread' \in {misread, misread \cup ({n} \cap Dirs)}
    BY <1>10, Zenon DEF ReadFailsHard, ReadNonDirectory
  <2>2. stack' = stack /\ reading' = {} /\ attempt' = 1
    BY <2>1 DEF Unanswered, Read
  <2>3. result' \subseteq Entries
    <3>1. result' = result \/ Found(n, FALSE)
      BY <2>1 DEF Unanswered
    <3> QED
      BY <1>0, <3>1, FoundType
  <2>4. hard_failure' \in BOOLEAN /\ misread' \subseteq Dirs
    BY <1>0, <2>1
  <2> QED
    BY <1>0, <1>b, <2>1, <2>2, <2>3, <2>4 DEF TypeOK
<1>11. CASE TakeResult \/ LogFails \/ LeavePool
  <2>1. UNCHANGED <<future, listings, walk, hard_failure, misread>>
        /\ caller' \in {"listed", "raised", "leaves"}
    BY <1>11 DEF TakeResult, LogFails, LeavePool, CallerSame
  <2> QED
    BY <1>0, <2>1 DEF walk, TypeOK
<1>12. CASE UNCHANGED vars
  BY <1>0, <1>12 DEF vars, walk, TypeOK
<1> QED
  BY <1>1, <1>2, <1>3, <1>4, <1>5, <1>6, <1>7, <1>8, <1>9, <1>10, <1>11, <1>12, Zenon DEF Next, Walk

---------------------------------------------------------------------------
(* Where the walk stands.                                                   *)

(* What is to be visited are nodes.                                         *)
LEMMA TodoType ==
  ASSUME NEW s \in Seq(Frames), NEW r \in SUBSET Nodes
  PROVE  LeftOf(s) \subseteq Nodes /\ Todo(s, r) \subseteq Nodes
<1>1. ASSUME NEW i \in 1 .. Len(s)
      PROVE  s[i].left \subseteq Nodes
  <2>1. s[i] \in Frames
    OBVIOUS
  <2> QED
    BY <2>1, FrameType
<1>2. LeftOf(s) \subseteq Nodes
  BY <1>1 DEF LeftOf
<1>3. CASE s # <<>> /\ r = {Head(s).dir}
  <2>1. Head(s).dir \in Dirs
    BY <1>3, FrameType, HeadTailProperties
  <2>2. Children[Head(s).dir] \subseteq Nodes
    BY <2>1, DriveAssumption
  <2> QED
    BY <1>2, <1>3, <2>2 DEF Todo
<1>4. CASE ~(s # <<>> /\ r = {Head(s).dir})
  BY <1>2, <1>4 DEF Todo
<1> QED
  BY <1>2, <1>3, <1>4

(* What waits in the innermost directory is left of that alone.             *)
LEMMA LeftApart ==
  ASSUME NEW s \in Seq(Frames), s # <<>>, StackOK(s)
  PROVE  /\ LeftOf(s) \cap Children[Head(s).dir] = Head(s).left
         /\ Head(s).dir \in DirsOf(s) /\ Head(s).dir \in Dirs
<1>1. Head(s) = s[1] /\ 1 \in 1 .. Len(s) /\ s[1] \in Frames
  OBVIOUS
<1>2. s[1].dir \in Dirs
  BY <1>1, FrameType
<1>3. ASSUME NEW i \in 1 .. Len(s), i # 1
      PROVE  s[i].left \cap Children[s[1].dir] = {}
  <2>1. s[i].dir \in Dirs /\ s[i].dir # s[1].dir /\ s[i].left \subseteq Children[s[i].dir]
    <3>1. s[i] \in Frames
      OBVIOUS
    <3>2. s[i].dir \in Dirs
      BY <3>1, FrameType
    <3>3. s[i].dir # s[1].dir /\ s[i].left \subseteq Children[s[i].dir]
      BY <1>1, <1>3 DEF StackOK
    <3> QED
      BY <3>2, <3>3
  <2> QED
    BY <1>2, <2>1, DriveAssumption
<1>4. s[1].left \subseteq Children[s[1].dir]
  BY <1>1 DEF StackOK
<1>5. LeftOf(s) \cap Children[s[1].dir] = s[1].left
  <2>1. ASSUME NEW n \in LeftOf(s), n \in Children[s[1].dir]
        PROVE  n \in s[1].left
    <3>1. PICK i \in 1 .. Len(s) : n \in s[i].left
      BY <2>1 DEF LeftOf
    <3> QED
      BY <1>3, <2>1, <3>1
  <2>2. s[1].left \subseteq LeftOf(s)
    BY <1>1 DEF LeftOf
  <2> QED
    BY <1>4, <2>1, <2>2
<1> QED
  BY <1>1, <1>2, <1>5 DEF DirsOf

(* The innermost directory, with one child visited.                         *)
LEMMA VisitedIs ==
  ASSUME stack \in Seq(Frames), stack # <<>>, StackOK(stack), NEW c \in Inner.left,
         NEW t, t = Visited(c)
  PROVE  /\ t \in Seq(Frames) /\ t # <<>> /\ StackOK(t)
         /\ DirsOf(t) = DirsOf(stack)
         /\ LeftOf(t) = LeftOf(stack) \ {c}
         /\ c \in LeftOf(stack)
         /\ c \in Children[Head(t).dir] \ Head(t).left
<1>1. Inner \in Frames /\ Inner = stack[1] /\ 1 \in 1 .. Len(stack) /\ Inner = Head(stack)
  BY InnerType DEF Inner
<1>2. Inner.left \subseteq Children[Inner.dir] /\ (Inner.items => Inner.left \subseteq Dirs)
  BY <1>1 DEF StackOK
<1> DEFINE x == [Inner EXCEPT !.left = @ \ {c}]
<1>3. x.dir = Inner.dir /\ x.left = Inner.left \ {c} /\ x.items = Inner.items
  BY <1>1 DEF Frames
<1>4. x \in Frames
  <2>1. Inner.left \ {c} \in SUBSET Nodes
    BY <1>1, FrameType
  <2> QED
    BY <1>1, <2>1, FrameType
<1>5. t = <<x>> \o Tail(stack)
  BY DEF Visited, Outer
<1>6. x.dir = Head(stack).dir /\ x.left \subseteq Children[x.dir] /\ (x.items => x.left \subseteq Dirs)
  BY <1>1, <1>2, <1>3
<1> HIDE DEF x
<1>7. /\ t \in Seq(Frames) /\ t # <<>> /\ Head(t) = x
      /\ StackOK(t)
      /\ DirsOf(t) = DirsOf(stack)
      /\ LeftOf(t) = (LeftOf(stack) \ Head(stack).left) \cup x.left
  BY <1>4, <1>5, <1>6, StackVisits
<1>8. Head(stack).left \subseteq LeftOf(stack)
  BY <1>1 DEF LeftOf
<1> QED
  BY <1>1, <1>2, <1>3, <1>7, <1>8

(* The walk goes on in a directory, between two visits, or at a probe.      *)
LEMMA PlaceEnter ==
  ASSUME NEW T \in SUBSET Nodes, Apart(T), NEW s \in Seq(Frames), StackOK(s),
         NEW c \in T, c \in Dirs, LeftOf(s) = T \ {c}, Waiting(T) \cap DirsOf(s) = {},
         NEW t, t = <<Frame(c)>> \o s
  PROVE  /\ PlaceOK(t, {c})
         /\ Todo(t, {c}) = (T \ {c}) \cup Children[c]
<1>1. c \in Dirs \ DirsOf(s)
  BY AboveWaiting
<1>2. /\ t \in Seq(Frames) /\ t # <<>> /\ Head(t) = Frame(c)
      /\ StackOK(t)
      /\ DirsOf(t) = DirsOf(s) \cup {c}
      /\ LeftOf(t) = T \ {c}
  BY <1>1, StackEnters
<1>3. Head(t).dir = c /\ Head(t).left = {}
  BY <1>2, FrameOf
<1>4. Todo(t, {c}) = (T \ {c}) \cup Children[c]
  BY <1>2, <1>3 DEF Todo
<1>5. Waiting(Todo(t, {c})) = Waiting(T) \ {c} /\ Apart(Todo(t, {c}))
  BY <1>4, WaitingInside
<1>6. PlaceOK(t, {c})
  BY <1>2, <1>3, <1>5 DEF PlaceOK
<1> QED
  BY <1>4, <1>6

LEMMA PlaceIdle ==
  ASSUME NEW s, StackOK(s), Apart(LeftOf(s)), Waiting(LeftOf(s)) \cap DirsOf(s) = {}
  PROVE  PlaceOK(s, {}) /\ Todo(s, {}) = LeftOf(s)
<1>1. Todo(s, {}) = LeftOf(s)
  BY DEF Todo
<1> QED
  BY <1>1 DEF PlaceOK

LEMMA PlaceProbe ==
  ASSUME NEW s \in Seq(Frames), s # <<>>, StackOK(s), NEW c \in Children[Head(s).dir] \ Head(s).left,
         NEW T, T = LeftOf(s) \cup {c}, Apart(T), Waiting(T) \cap DirsOf(s) = {}
  PROVE  PlaceOK(s, {c}) /\ Todo(s, {c}) = T /\ c \notin LeftOf(s) /\ c # Head(s).dir
<1>1. Head(s).dir \in Dirs /\ c \notin LeftOf(s)
  BY LeftApart
<1>2. c # Head(s).dir
  BY <1>1, MembersAreApart
<1>3. Todo(s, {c}) = T
  BY <1>2 DEF Todo
<1> QED
  BY <1>1, <1>2, <1>3 DEF PlaceOK

(* The failures that explain the result so far.                             *)
LEMMA PartFoundBy ==
  ASSUME NEW res, NEW T, NEW hard, NEW mis, NEW u, NEW m, NEW d,
         PartOf(res, T, u, m, d), ~hard => u \subseteq mis \cup Unresolvable
  PROVE  PartFound(res, T, hard, mis)
<1>1. u \in SUBSET Dirs /\ m \in SUBSET Dirs /\ d \in SUBSET Unresolvable
  BY Zenon DEF PartOf
<1> QED
  BY <1>1, Zenon DEF PartFound

---------------------------------------------------------------------------
(* The steps of the walk.                                                   *)

(* Nothing is being listed.                                                 *)
LEMMA ListingInvInit == Init => ListingInv
  BY DEF Init, ListingInv

(* A step of the walk that goes on.                                         *)
LEMMA GoesOn ==
  ASSUME future = "running", UNCHANGED <<caller, future>>,
         caller # "listed",
         PlaceOK(stack', reading'),
         PartFound(result', Todo(stack', reading'), hard_failure', misread')
  PROVE  ListingInv'
  BY DEF ListingInv

(* The walk begins at the root, below which everything waits; or the drive  *)
(* is not there, and the root is what could not be read.                    *)
LEMMA BeginsListing ==
  ASSUME BeginListing
  PROVE  ListingInv'
<1>0. caller' = "waits" /\ future' = "running" /\ result' = {} /\ misread' = {}
  BY DEF BeginListing
<1>r. Root \in Dirs /\ Root \in Nodes /\ Under[Root] = Nodes \ {Root}
  BY DriveAssumption
<1>1. CASE stack' = <<Frame(Root)>> /\ reading' = {Root} /\ hard_failure' = FALSE
  <2> DEFINE t == <<Frame(Root)>> \o <<>>
  <2>1. t = stack'
    BY <1>1
  <2>2. Apart({Root}) /\ StackOK(<<>>) /\ LeftOf(<<>>) = {Root} \ {Root} /\ DirsOf(<<>>) = {}
        /\ <<>> \in Seq(Frames) /\ {Root} \in SUBSET Nodes
    BY <1>r DEF Apart, StackOK, LeftOf, DirsOf
  <2> DEFINE e == <<>>
  <2>3. t = <<Frame(Root)>> \o e /\ e \in Seq(Frames) /\ StackOK(e) /\ LeftOf(e) = {Root} \ {Root}
        /\ Waiting({Root}) \cap DirsOf(e) = {}
    BY <2>2
  <2> HIDE DEF t, e
  <2>4. PlaceOK(t, {Root}) /\ Todo(t, {Root}) = ({Root} \ {Root}) \cup Children[Root]
    BY <1>r, <2>2, <2>3, PlaceEnter
  <2>5. Waiting(Children[Root]) = Under[Root]
    <3>1. Waiting({Root}) = Nodes
      BY <1>r DEF Waiting
    <3>2. Waiting(({Root} \ {Root}) \cup Children[Root]) = Waiting({Root}) \ {Root}
      BY <1>r, <2>2, WaitingInside
    <3>3. ({Root} \ {Root}) \cup Children[Root] = Children[Root]
      OBVIOUS
    <3> QED
      BY <1>r, <3>1, <3>2, <3>3
  <2>6. PartOf({}, Children[Root], {}, {}, {})
    <3>1. Seen(Children[Root], {}, {}) = {}
      BY <1>r, <2>5 DEF Seen
    <3> QED
      BY <1>r, <2>5, <3>1 DEF PartOf
  <2>7. PartFound({}, Todo(t, {Root}), FALSE, {})
    <3>1. Todo(t, {Root}) = Children[Root]
      BY <2>4
    <3>2. ~FALSE => {} \subseteq {} \cup Unresolvable
      OBVIOUS
    <3>3. PartFound({}, Children[Root], FALSE, {})
      BY <2>6, <3>2 DEF PartFound
    <3> QED
      BY <3>1, <3>3, Zenon
  <2> QED
    BY <1>0, <1>1, <2>1, <2>4, <2>7 DEF ListingInv
<1>2. CASE stack' = <<>> /\ reading' = {} /\ hard_failure' = TRUE
  <2>1. Todo(<<>>, {}) = {} /\ PlaceOK(<<>>, {})
    BY DEF Todo, PlaceOK, LeftOf, DirsOf, StackOK, Apart
  <2>2. Waiting({}) = {}
    BY DEF Waiting
  <2>3. Seen({}, {Root}, {}) = {}
    <3>1. ASSUME NEW n \in Nodes \ {Root}
          PROVE  Root \in Above[n]
      BY <1>r DEF Above
    <3> QED
      BY <3>1 DEF Seen
  <2>4. PartOf({}, {}, {Root}, {}, {})
    BY <1>r, <2>2, <2>3 DEF PartOf
  <2>5. PartFound({}, {}, TRUE, {})
    BY <2>4, PartFoundBy
  <2> QED
    BY <1>0, <1>2, <2>1, <2>5 DEF ListingInv
<1> QED
  BY <1>1, <1>2 DEF BeginListing

(* A child is visited: it is not found, or to be probed, or a directory to  *)
(* be walked, or a file; a directory that was listed may not be found then. *)
LEMMA VisitsPart ==
  ASSUME TypeOK, ListingInv, NEW c \in Nodes, VisitName(c) \/ VisitItem(c)
  PROVE  ListingInv'
<1>1. /\ future = "running" /\ stack # <<>> /\ reading = {} /\ c \in Inner.left
      /\ UNCHANGED <<caller, future, listings, hard_failure, misread>>
      /\ stack \in Seq(Frames)
  BY Visits
<1> DEFINE T == LeftOf(stack)
           s == Visited(c)
<1>2. /\ StackOK(stack) /\ Apart(T) /\ Waiting(T) \cap DirsOf(stack) = {}
      /\ PartFound(result, T, hard_failure, misread) /\ caller # "listed"
      /\ Todo(stack, {}) = T
  <2>1. Todo(stack, {}) = T
    BY DEF Todo
  <2> QED
    BY <1>1, <2>1 DEF ListingInv, PlaceOK
<1>3. T \in SUBSET Nodes
  BY <1>1, TodoType
<1>4. /\ s \in Seq(Frames) /\ s # <<>> /\ StackOK(s) /\ DirsOf(s) = DirsOf(stack)
      /\ LeftOf(s) = T \ {c} /\ c \in T /\ c \in Children[Head(s).dir] \ Head(s).left
  BY <1>1, <1>2, VisitedIs
<1> HIDE DEF T, s
<1>5. Waiting(T \ {c}) \subseteq Waiting(T) /\ Apart(T \ {c})
  BY <1>2, <1>3, <1>4, WaitingWithoutOne
<1>6. PlaceOK(s, {}) /\ Todo(s, {}) = T \ {c}
  BY <1>2, <1>4, <1>5, PlaceIdle
<1>7. PICK u, m, d : PartOf(result, T, u, m, d) /\ (~hard_failure => u \subseteq misread \cup Unresolvable)
  BY <1>2 DEF PartFound
<1>8. ASSUME c \in Dirs, Enter(c, s), Found(c, TRUE)
      PROVE  ListingInv'
  <2>1. stack' = <<Frame(c)>> \o s /\ reading' = {c}
    BY <1>8 DEF Enter
  <2>2. PlaceOK(stack', {c}) /\ Todo(stack', {c}) = (T \ {c}) \cup Children[c]
    <3>1. ASSUME NEW t, t = <<Frame(c)>> \o s
          PROVE  PlaceOK(t, {c}) /\ Todo(t, {c}) = (T \ {c}) \cup Children[c]
      <4>1. /\ T \in SUBSET Nodes /\ Apart(T) /\ s \in Seq(Frames) /\ StackOK(s) /\ c \in T
            /\ c \in Dirs /\ LeftOf(s) = T \ {c} /\ Waiting(T) \cap DirsOf(s) = {}
        BY <1>2, <1>3, <1>4, <1>8
      <4> QED
        BY <3>1, <4>1, PlaceEnter, Zenon
    <3> QED
      BY <2>1, <3>1, Zenon
  <2>3. PartOf(result', (T \ {c}) \cup Children[c], u, m, d)
    BY <1>2, <1>3, <1>4, <1>7, <1>8, PartEntered DEF Found
  <2>4. PartFound(result', Todo(stack', reading'), hard_failure, misread)
    BY <1>7, <2>1, <2>2, <2>3, PartFoundBy
  <2> QED
    BY <1>1, <1>2, <2>1, <2>2, <2>4, GoesOn
<1>9. CASE VisitName(c)
  <2>1. CASE c \in Unresolvable /\ stack' = s /\ reading' = reading /\ result' = result
    <3>1. PartOf(result, T \ {c}, u, m, d \cup {c})
      BY <1>2, <1>3, <1>4, <1>7, <2>1, PartWithout
    <3>2. PartFound(result', T \ {c}, hard_failure, misread)
      BY <1>7, <2>1, <3>1, PartFoundBy
    <3> QED
      BY <1>1, <1>2, <1>6, <2>1, <3>2, GoesOn
  <2>2. CASE stack' = s /\ reading' = {c} /\ result' = result
    <3>1. T = LeftOf(s) \cup {c}
      BY <1>4
    <3>2. PlaceOK(s, {c}) /\ Todo(s, {c}) = T
      BY <1>2, <1>4, <3>1, PlaceProbe
    <3> QED
      BY <1>1, <1>2, <2>2, <3>2, GoesOn
  <2>3. CASE c \in Dirs /\ Enter(c, s) /\ Found(c, TRUE)
    BY <1>8, <2>3
  <2>4. CASE c \notin Dirs /\ stack' = s /\ Found(c, FALSE) /\ reading' = reading
    <3>1. {c} \in SUBSET T /\ {c} \cap Dirs = {} /\ FileEntries({c}) = {Entry(c, FALSE)}
      BY <1>4, <2>4 DEF FileEntries
    <3>2. PartOf(result \cup FileEntries({c}), T \ {c}, u \cup ({c} \cap Dirs), m \cup ({c} \cap Dirs), d)
      BY <1>2, <1>3, <1>7, <3>1, PartFiled
    <3>3. PartOf(result', T \ {c}, u, m, d)
      <4>1. result' = result \cup FileEntries({c}) /\ u \cup ({c} \cap Dirs) = u /\ m \cup ({c} \cap Dirs) = m
        BY <2>4, <3>1 DEF Found
      <4> QED
        BY <3>2, <4>1
    <3>4. PartFound(result', T \ {c}, hard_failure, misread)
      BY <1>7, <3>3, PartFoundBy
    <3> QED
      BY <1>1, <1>2, <1>6, <2>4, <3>4, GoesOn
  <2> QED
    BY <1>9, <2>1, <2>2, <2>3, <2>4, VisitNameDoes DEF s
<1>10. CASE VisitItem(c)
  <2>1. c \in Dirs
    <3>1. Inner = stack[1] /\ 1 \in 1 .. Len(stack)
      BY <1>1, InnerType
    <3> QED
      BY <1>1, <1>2, <1>10, <3>1 DEF VisitItem, StackOK
  <2>2. Found(c, TRUE)
    BY <1>10 DEF VisitItem
  <2>3. CASE c \in Unresolvable
    <3>1. stack' = s /\ reading' = reading
      BY <1>10, <2>3 DEF VisitItem, s
    <3>2. PartOf(result', T \ {c}, u \cup {c}, m, d)
      BY <1>2, <1>3, <1>4, <1>7, <2>1, <2>2, PartUnwalked DEF Found
    <3>3. PartFound(result', T \ {c}, hard_failure, misread)
      <4>1. ~hard_failure => u \cup {c} \subseteq misread \cup Unresolvable
        BY <1>7, <2>3
      <4> QED
        BY <3>2, <4>1, PartFoundBy
    <3> QED
      BY <1>1, <1>2, <1>6, <3>1, <3>3, GoesOn
  <2>4. CASE c \notin Unresolvable
    <3>1. Enter(c, s)
      BY <1>10, <2>4 DEF VisitItem, s
    <3> QED
      BY <1>8, <2>1, <2>2, <3>1
  <2> QED
    BY <2>3, <2>4
<1> QED
  BY <1>9, <1>10

(* What is read is the innermost directory or a child of it.                *)
LEMMA WhatIsRead ==
  ASSUME TypeOK, ListingInv, NEW n \in Nodes, Reads(n), NEW T, T = Todo(stack, {n})
  PROVE  /\ future = "running" /\ caller # "listed" /\ reading = {n}
         /\ stack \in Seq(Frames) /\ stack # <<>> /\ StackOK(stack)
         /\ T \in SUBSET Nodes /\ Apart(T) /\ Waiting(T) \cap DirsOf(stack) = {}
         /\ PartFound(result, T, hard_failure, misread)
         /\ Inner.dir \in Dirs /\ Inner.dir \in DirsOf(stack)
         /\ \/ /\ ReadingDir /\ n = Inner.dir /\ Inner.left = {}
               /\ T = LeftOf(stack) \cup Children[n] /\ LeftOf(stack) \cap Children[n] = {}
            \/ /\ ~ReadingDir /\ n \in Children[Inner.dir] \ Inner.left
               /\ T = LeftOf(stack) \cup {n} /\ n \notin LeftOf(stack)
<1>1. /\ future = "running" /\ reading = {n} /\ stack \in Seq(Frames)
      /\ PlaceOK(stack, {n}) /\ PartFound(result, T, hard_failure, misread) /\ caller # "listed"
  BY DEF Reads, ListingInv, TypeOK
<1>2. /\ StackOK(stack) /\ Apart(T) /\ Waiting(T) \cap DirsOf(stack) = {} /\ stack # <<>>
      /\ \/ {n} = {Head(stack).dir} /\ Head(stack).left = {}
         \/ n \in Children[Head(stack).dir] \ Head(stack).left
  <2>1. \/ {n} = {}
        \/ stack # <<>> /\ {n} = {Head(stack).dir} /\ Head(stack).left = {}
        \/ stack # <<>> /\ \E c \in Children[Head(stack).dir] \ Head(stack).left : {n} = {c}
    BY <1>1, Zenon DEF PlaceOK
  <2>2. StackOK(stack) /\ Apart(T) /\ Waiting(T) \cap DirsOf(stack) = {}
    BY <1>1, Zenon DEF PlaceOK
  <2> QED
    BY <2>1, <2>2
<1>3. T \in SUBSET Nodes
  BY <1>1, TodoType
<1>4. /\ LeftOf(stack) \cap Children[Inner.dir] = Inner.left
      /\ Inner.dir \in DirsOf(stack) /\ Inner.dir \in Dirs
  BY <1>1, <1>2, LeftApart DEF Inner
<1>5. CASE n = Inner.dir
  <2>1. n \notin Children[n]
    BY <1>4, <1>5, MembersAreApart
  <2>2. Inner.left = {} /\ ReadingDir
    BY <1>1, <1>2, <1>5, <2>1 DEF Inner, ReadingDir
  <2>3. T = LeftOf(stack) \cup Children[n]
    BY <1>2, <1>5 DEF Todo, Inner
  <2> QED
    BY <1>1, <1>2, <1>3, <1>4, <1>5, <2>2, <2>3
<1>6. CASE n # Inner.dir
  <2>1. ~ReadingDir
    BY <1>1, <1>6 DEF ReadingDir
  <2>2. n \in Children[Inner.dir] \ Inner.left
    BY <1>2, <1>6 DEF Inner
  <2>3. T = LeftOf(stack) \cup {n}
    BY <1>6 DEF Todo, Inner
  <2> QED
    BY <1>1, <1>2, <1>3, <1>4, <2>1, <2>2, <2>3
<1> QED
  BY <1>5, <1>6

(* A directory with nothing left in it is left.                             *)
LEMMA LeavesPart ==
  ASSUME TypeOK, ListingInv, Leave
  PROVE  ListingInv'
<1>1. /\ future = "running" /\ stack # <<>> /\ reading = {} /\ Inner.left = {} /\ stack' = Outer
      /\ UNCHANGED <<reading, result, caller, future, hard_failure, misread>>
      /\ stack \in Seq(Frames)
  BY DEF Leave, Walking, OtherwiseSame, TypeOK
<1> DEFINE T == LeftOf(stack)
<1>2. /\ StackOK(stack) /\ Apart(T) /\ Waiting(T) \cap DirsOf(stack) = {}
      /\ PartFound(result, T, hard_failure, misread) /\ caller # "listed"
  <2>1. Todo(stack, {}) = T
    BY DEF Todo
  <2> QED
    BY <1>1, <2>1 DEF ListingInv, PlaceOK
<1>3. StackOK(Outer) /\ DirsOf(Outer) \subseteq DirsOf(stack) /\ LeftOf(Outer) = T
  BY <1>1, <1>2, StackLeaves DEF Inner, Outer
<1> HIDE DEF T
<1>4. PlaceOK(Outer, {}) /\ Todo(Outer, {}) = T
  BY <1>2, <1>3, PlaceIdle
<1> QED
  BY <1>1, <1>2, <1>4, GoesOn

(* A directory gives the names of its children.                             *)
LEMMA ReadNamesPart ==
  ASSUME TypeOK, ListingInv, ReadNames
  PROVE  ListingInv'
<1> DEFINE n == Inner.dir
           T == Todo(stack, {n})
<1>1. /\ Reads(n) /\ ReadingDir /\ VisitsAll(Children[n], FALSE) /\ reading' = {} /\ result' = result
      /\ UNCHANGED <<caller, future, hard_failure, misread>> /\ stack # <<>>
  BY DEF ReadNames, Read, OtherwiseSame, ReadingDir
<1>2. Inner \in Frames /\ n \in Dirs /\ n \in Nodes
  BY <1>1, InnerType, FrameType, DriveAssumption DEF TypeOK
<1>3. /\ future = "running" /\ caller # "listed" /\ stack \in Seq(Frames) /\ StackOK(stack)
      /\ Apart(T) /\ Waiting(T) \cap DirsOf(stack) = {}
      /\ PartFound(result, T, hard_failure, misread) /\ Inner.left = {}
      /\ T = LeftOf(stack) \cup Children[n]
  BY <1>1, <1>2, WhatIsRead
<1> DEFINE x == [Inner EXCEPT !.left = Children[n], !.items = FALSE]
<1>4. x \in Frames /\ x.dir = n /\ x.left = Children[n] /\ x.items = FALSE
  <2>1. Children[n] \in SUBSET Nodes
    BY <1>2, DriveAssumption
  <2>2. x \in Frames
    BY <1>2, <2>1, FrameType
  <2>3. x.dir = n /\ x.left = Children[n] /\ x.items = FALSE
    BY <1>2 DEF Frames
  <2> QED
    BY <2>2, <2>3
<1> HIDE DEF x
<1>5. StackOK(stack') /\ DirsOf(stack') = DirsOf(stack) /\ LeftOf(stack') = T
  <2>1. ASSUME NEW t, t = <<x>> \o Tail(stack)
        PROVE  /\ StackOK(t) /\ DirsOf(t) = DirsOf(stack)
               /\ LeftOf(t) = (LeftOf(stack) \ Head(stack).left) \cup x.left
    BY <1>1, <1>3, <1>4, <2>1, StackVisits DEF Inner
  <2>2. stack' = <<x>> \o Tail(stack)
    BY <1>1 DEF VisitsAll, x, Outer
  <2>3. Head(stack).left = {}
    BY <1>3 DEF Inner
  <2> QED
    BY <1>3, <1>4, <2>1, <2>2, <2>3
<1> HIDE DEF T, n
<1>6. PlaceOK(stack', {}) /\ Todo(stack', {}) = T
  BY <1>3, <1>5, PlaceIdle
<1> QED
  BY <1>1, <1>3, <1>6, GoesOn

(* A directory gives its children with their kinds: those that pass for     *)
(* files are listed.                                                        *)
LEMMA ReadItemsPart ==
  ASSUME TypeOK, ListingInv, ReadItems
  PROVE  ListingInv'
<1> DEFINE n == Inner.dir
           T == Todo(stack, {n})
<1>1. /\ Reads(n) /\ ReadingDir /\ reading' = {}
      /\ UNCHANGED <<caller, future, hard_failure>> /\ stack # <<>>
  BY DEF ReadItems, Read, ReadingDir
<1>p. PICK untold \in {{}, Untyped} :
            LET dirs == (Children[n] \cap Dirs) \ untold
            IN  /\ VisitsAll(dirs, TRUE)
                /\ result' = result \cup FileEntries(Children[n] \ dirs)
                /\ misread' = misread \cup (Children[n] \cap untold \cap Dirs)
  BY Zenon DEF ReadItems
<1>2. Inner \in Frames /\ n \in Dirs /\ n \in Nodes
  BY <1>1, InnerType, FrameType, DriveAssumption DEF TypeOK
<1>3. /\ future = "running" /\ caller # "listed" /\ stack \in Seq(Frames) /\ StackOK(stack)
      /\ T \in SUBSET Nodes /\ Apart(T) /\ Waiting(T) \cap DirsOf(stack) = {}
      /\ PartFound(result, T, hard_failure, misread) /\ Inner.left = {}
      /\ T = LeftOf(stack) \cup Children[n] /\ LeftOf(stack) \cap Children[n] = {}
  BY <1>1, <1>2, WhatIsRead
<1> DEFINE dirs == (Children[n] \cap Dirs) \ untold
           F == Children[n] \ dirs
           x == [Inner EXCEPT !.left = dirs, !.items = TRUE]
<1>4. x \in Frames /\ x.dir = n /\ x.left = dirs
  <2>1. dirs \in SUBSET Nodes
    BY <1>2, DriveAssumption
  <2>2. x \in Frames
    BY <1>2, <2>1, FrameType
  <2>3. x.dir = n /\ x.left = dirs
    BY <1>2 DEF Frames
  <2> QED
    BY <2>2, <2>3
<1>a. /\ dirs \subseteq Children[n] /\ dirs \subseteq Dirs /\ F \in SUBSET T
      /\ F \cap Dirs \subseteq Children[n] \cap untold \cap Dirs
      /\ T \ F = LeftOf(stack) \cup dirs
  BY <1>3
<1>b. /\ stack' = <<x>> \o Tail(stack) /\ result' = result \cup FileEntries(F)
      /\ misread' = misread \cup (Children[n] \cap untold \cap Dirs)
  BY <1>p DEF VisitsAll, Outer
<1> HIDE DEF x, dirs, F
<1>5. StackOK(stack') /\ DirsOf(stack') = DirsOf(stack) /\ LeftOf(stack') = T \ F
  <2>1. ASSUME NEW t, t = <<x>> \o Tail(stack)
        PROVE  /\ StackOK(t) /\ DirsOf(t) = DirsOf(stack)
               /\ LeftOf(t) = (LeftOf(stack) \ Head(stack).left) \cup x.left
    BY <1>1, <1>3, <1>4, <1>a, <2>1, StackVisits DEF Inner
  <2>3. Head(stack).left = {}
    BY <1>3 DEF Inner
  <2> QED
    BY <1>4, <1>a, <1>b, <2>1, <2>3
<1> HIDE DEF T, n
<1>6. Waiting(T \ F) \subseteq Waiting(T) /\ Apart(T \ F)
  BY <1>3, <1>a, WaitingWithout
<1>7. PlaceOK(stack', {}) /\ Todo(stack', {}) = T \ F
  BY <1>3, <1>5, <1>6, PlaceIdle
<1>8. PICK u, m, d : PartOf(result, T, u, m, d) /\ (~hard_failure => u \subseteq misread \cup Unresolvable)
  BY <1>3 DEF PartFound
<1>9. PartOf(result', T \ F, u \cup (F \cap Dirs), m \cup (F \cap Dirs), d)
  BY <1>3, <1>8, <1>a, <1>b, PartFiled
<1>10. PartFound(result', T \ F, hard_failure, misread')
  <2>1. ~hard_failure => u \cup (F \cap Dirs) \subseteq misread' \cup Unresolvable
    BY <1>8, <1>a, <1>b
  <2> QED
    BY <1>9, <2>1, PartFoundBy
<1> QED
  BY <1>1, <1>3, <1>7, <1>10, GoesOn

(* A probe tells a directory, which is walked, from a file.                 *)
LEMMA ProbeAnswersPart ==
  ASSUME TypeOK, ListingInv, NEW c \in Nodes, ProbeAnswers(c)
  PROVE  ListingInv'
<1> DEFINE T == Todo(stack, {c})
<1>1. Reads(c) /\ ~ReadingDir /\ UNCHANGED <<caller, future, hard_failure, misread>>
  BY DEF ProbeAnswers, OtherwiseSame
<1>2. /\ future = "running" /\ caller # "listed" /\ stack \in Seq(Frames) /\ StackOK(stack)
      /\ T \in SUBSET Nodes /\ Apart(T) /\ Waiting(T) \cap DirsOf(stack) = {}
      /\ PartFound(result, T, hard_failure, misread)
      /\ c \in T /\ LeftOf(stack) = T \ {c}
  BY <1>1, WhatIsRead
<1> HIDE DEF T
<1>3. PICK u, m, d : PartOf(result, T, u, m, d) /\ (~hard_failure => u \subseteq misread \cup Unresolvable)
  BY <1>2 DEF PartFound
<1>4. CASE c \in Dirs
  <2>0. Enter(c, stack) /\ Found(c, TRUE)
    BY <1>4 DEF ProbeAnswers
  <2>1. stack' = <<Frame(c)>> \o stack /\ reading' = {c}
    BY <2>0 DEF Enter
  <2>2. PlaceOK(stack', {c}) /\ Todo(stack', {c}) = (T \ {c}) \cup Children[c]
    <3>1. ASSUME NEW t, t = <<Frame(c)>> \o stack
          PROVE  PlaceOK(t, {c}) /\ Todo(t, {c}) = (T \ {c}) \cup Children[c]
      BY <1>2, <1>4, <3>1, PlaceEnter, Zenon
    <3> QED
      BY <2>1, <3>1, Zenon
  <2>3. PartOf(result', (T \ {c}) \cup Children[c], u, m, d)
    BY <1>2, <1>3, <1>4, <2>0, PartEntered DEF Found
  <2>4. PartFound(result', Todo(stack', reading'), hard_failure, misread)
    BY <1>3, <2>1, <2>2, <2>3, PartFoundBy
  <2> QED
    BY <1>1, <1>2, <2>1, <2>2, <2>4, GoesOn
<1>5. CASE c \notin Dirs
  <2>0. stack' = stack /\ reading' = {} /\ Found(c, FALSE)
    BY <1>5 DEF ProbeAnswers, Read
  <2>1. Waiting(T \ {c}) \subseteq Waiting(T) /\ Apart(T \ {c})
    <3>1. T \in SUBSET Nodes /\ Apart(T) /\ c \in T
      BY <1>2
    <3>2. Waiting(T \ {c}) = Waiting(T) \ ({c} \cup Under[c]) /\ Apart(T \ {c})
      BY <3>1, WaitingWithoutOne
    <3> QED
      BY <3>2
  <2>2. PlaceOK(stack, {}) /\ Todo(stack, {}) = T \ {c}
    BY <1>2, <2>1, PlaceIdle
  <2>3. {c} \in SUBSET T /\ {c} \cap Dirs = {} /\ FileEntries({c}) = {Entry(c, FALSE)}
    BY <1>2, <1>5 DEF FileEntries
  <2>4. PartOf(result \cup FileEntries({c}), T \ {c}, u \cup ({c} \cap Dirs), m \cup ({c} \cap Dirs), d)
    BY <1>2, <1>3, <2>3, PartFiled
  <2>5. result' = result \cup FileEntries({c}) /\ u \cup ({c} \cap Dirs) = u /\ m \cup ({c} \cap Dirs) = m
    BY <2>0, <2>3 DEF Found
  <2>6. PartFound(result', T \ {c}, hard_failure, misread)
    BY <1>3, <2>4, <2>5, PartFoundBy
  <2> QED
    BY <1>1, <1>2, <2>0, <2>2, <2>6, GoesOn
<1> QED
  BY <1>4, <1>5

(* A read ends without an answer: what is in the directory is not listed, or *)
(* the child passes for a file.                                             *)
LEMMA FailsPart ==
  ASSUME TypeOK, ListingInv, NEW n \in Nodes, ReadFailsHard(n) \/ ReadNonDirectory(n)
  PROVE  ListingInv'
<1> DEFINE T == Todo(stack, {n})
<1>1. /\ Reads(n) /\ Unanswered(n) /\ UNCHANGED <<caller, future>>
      /\ misread \subseteq misread' /\ hard_failure \in BOOLEAN
      /\ hard_failure' \in BOOLEAN /\ (hard_failure => hard_failure')
      /\ ~hard_failure' => {n} \cap Dirs \subseteq misread'
  <2>1. Reads(n) /\ Unanswered(n) /\ UNCHANGED <<caller, future>>
    BY DEF ReadFailsHard, ReadNonDirectory
  <2>2. hard_failure \in BOOLEAN
    BY DEF TypeOK
  <2>3. CASE ReadFailsHard(n)
    BY <2>1, <2>2, <2>3 DEF ReadFailsHard
  <2>4. CASE ReadNonDirectory(n)
    BY <2>1, <2>2, <2>4 DEF ReadNonDirectory
  <2> QED
    BY <2>3, <2>4
<1>2. /\ stack' = stack /\ reading' = {}
      /\ ReadingDir => result' = result
      /\ ~ReadingDir => Found(n, FALSE)
  BY <1>1 DEF Unanswered, Read
<1>3. /\ future = "running" /\ caller # "listed" /\ stack \in Seq(Frames) /\ StackOK(stack)
      /\ T \in SUBSET Nodes /\ Apart(T) /\ Waiting(T) \cap DirsOf(stack) = {}
      /\ PartFound(result, T, hard_failure, misread)
      /\ Inner.dir \in DirsOf(stack) /\ Inner.dir \in Dirs
      /\ \/ /\ ReadingDir /\ n = Inner.dir /\ Children[n] \in SUBSET T /\ LeftOf(stack) = T \ Children[n]
         \/ ~ReadingDir /\ n \in T /\ LeftOf(stack) = T \ {n}
  BY <1>1, WhatIsRead
<1> HIDE DEF T
<1>4. PICK u, m, d : PartOf(result, T, u, m, d) /\ (~hard_failure => u \subseteq misread \cup Unresolvable)
  BY <1>3 DEF PartFound
<1>5. ~hard_failure' => u \cup ({n} \cap Dirs) \subseteq misread' \cup Unresolvable
  BY <1>1, <1>4
<1>6. ASSUME NEW F \in SUBSET T, LeftOf(stack) = T \ F
      PROVE  PlaceOK(stack, {}) /\ Todo(stack, {}) = T \ F
  <2>1. Waiting(T \ F) \subseteq Waiting(T) /\ Apart(T \ F)
    BY <1>3, WaitingWithout
  <2> QED
    BY <1>3, <1>6, <2>1, PlaceIdle
<1>7. CASE ReadingDir
  <2>1. n \in Dirs /\ n = Inner.dir /\ Children[n] \in SUBSET T /\ LeftOf(stack) = T \ Children[n]
    BY <1>3, <1>7
  <2>2. PlaceOK(stack, {}) /\ Todo(stack, {}) = T \ Children[n]
    BY <1>6, <2>1
  <2>3. n \notin Waiting(T)
    BY <1>3, <2>1
  <2>4. PartOf(result', T \ Children[n], u \cup {n}, m, d)
    BY <1>2, <1>3, <1>4, <1>7, <2>1, <2>3, PartUnread
  <2>5. PartFound(result', T \ Children[n], hard_failure', misread')
    <3>1. {n} \cap Dirs = {n}
      BY <2>1
    <3> QED
      BY <1>5, <2>4, <3>1, PartFoundBy
  <2> QED
    BY <1>1, <1>2, <1>3, <2>2, <2>5, GoesOn
<1>8. CASE ~ReadingDir
  <2>1. {n} \in SUBSET T /\ LeftOf(stack) = T \ {n} /\ FileEntries({n}) = {Entry(n, FALSE)}
    BY <1>3, <1>8 DEF FileEntries
  <2>2. PlaceOK(stack, {}) /\ Todo(stack, {}) = T \ {n}
    BY <1>6, <2>1
  <2>3. PartOf(result \cup FileEntries({n}), T \ {n}, u \cup ({n} \cap Dirs), m \cup ({n} \cap Dirs), d)
    BY <1>3, <1>4, <2>1, PartFiled
  <2>4. result' = result \cup FileEntries({n})
    BY <1>2, <1>8, <2>1 DEF Found
  <2>5. PartFound(result', T \ {n}, hard_failure', misread')
    BY <1>5, <2>3, <2>4, PartFoundBy
  <2> QED
    BY <1>1, <1>2, <1>3, <2>2, <2>5, GoesOn
<1> QED
  BY <1>7, <1>8

(* Each step preserves the invariant.                                       *)
LEMMA ListingInvStep ==
  ASSUME TypeOK, ListingInv, [Next]_vars
  PROVE  ListingInv'
<1>1. CASE BeginListing
  BY <1>1, BeginsListing
<1>2. ASSUME NEW c \in Nodes, VisitName(c) \/ VisitItem(c)
      PROVE  ListingInv'
  BY <1>2, VisitsPart
<1>3. CASE Leave
  BY <1>3, LeavesPart
<1>4. CASE Return
  <2>1. future = "running" /\ stack = <<>> /\ future' = "done" /\ stack' = stack /\ reading' = reading
        /\ UNCHANGED <<caller, result, hard_failure, misread>>
    BY <1>4 DEF Return, walk
  <2>2. PlaceOK(stack, reading) /\ PartFound(result, Todo(stack, reading), hard_failure, misread)
    BY <2>1 DEF ListingInv
  <2>3. reading = {}
    BY <2>1, <2>2 DEF PlaceOK
  <2> QED
    BY <2>1, <2>2, <2>3 DEF ListingInv
<1>5. CASE LeaveByException
  <2>1. future = "running" /\ future' \in {"timeout", "error"} /\ caller' = caller
    BY <1>5 DEF LeaveByException
  <2> QED
    BY <2>1 DEF ListingInv
<1>6. CASE Consume
  BY <1>6 DEF Consume, ListingInv
<1>7. CASE ReadNames
  BY <1>7, ReadNamesPart
<1>8. CASE ReadItems
  BY <1>8, ReadItemsPart
<1>9. ASSUME NEW n \in Nodes, ProbeAnswers(n)
      PROVE  ListingInv'
  BY <1>9, ProbeAnswersPart
<1>10. ASSUME NEW n \in Nodes, ReadFailsRetryably(n)
       PROVE  ListingInv'
  BY <1>10 DEF ReadFailsRetryably, OtherwiseSame, ListingInv
<1>11. ASSUME NEW n \in Nodes, ReadFailsHard(n) \/ ReadNonDirectory(n)
       PROVE  ListingInv'
  BY <1>11, FailsPart
<1>12. CASE TakeResult \/ LogFails \/ LeavePool
  <2>1. /\ UNCHANGED <<future, stack, reading, result, hard_failure, misread>>
        /\ caller' = "listed" => future = "done"
    BY <1>12 DEF TakeResult, LogFails, LeavePool, CallerSame, walk
  <2> QED
    BY <2>1 DEF ListingInv
<1>13. CASE UNCHANGED vars
  BY <1>13 DEF vars, walk, ListingInv
<1> QED
  BY <1>1, <1>2, <1>3, <1>4, <1>5, <1>6, <1>7, <1>8, <1>9, <1>10, <1>11, <1>12, <1>13, Zenon DEF Next, Walk

(* With nothing left to visit, the part is the whole.                       *)
LEMMA ListingInvGives ==
  ASSUME ListingInv
  PROVE  ListingContract
<1> SUFFICES ASSUME caller = "listed"
             PROVE  \E unread \in SUBSET Dirs : \E misfiled \in SUBSET unread :
                    \E dropped \in SUBSET Unresolvable :
                      /\ result = Listing(unread, misfiled, dropped)
                      /\ ~hard_failure => unread \subseteq misread \cup Unresolvable
  BY DEF ListingContract
<1>1. PartFound(result, {}, hard_failure, misread)
  <2>1. future = "done" /\ stack = <<>> /\ reading = {}
    BY DEF ListingInv
  <2>2. Todo(<<>>, {}) = {}
    BY DEF Todo, LeftOf
  <2> QED
    BY <2>1, <2>2 DEF ListingInv
<1>2. PICK u, m, d : PartOf(result, {}, u, m, d) /\ (~hard_failure => u \subseteq misread \cup Unresolvable)
  BY <1>1 DEF PartFound
<1>3. Seen({}, u, d) = {n \in Nodes \ (d \cup {Root}) : Above[n] \cap (u \cup d) = {}}
  BY DEF Seen, Waiting
<1>4. u \in SUBSET Dirs /\ m \in SUBSET u /\ d \in SUBSET Unresolvable
      /\ result = Listing(u, m, d)
  BY <1>2, <1>3 DEF PartOf, Listing
<1> QED
  BY <1>2, <1>4, Zenon

(* The types and the invariant hold together: each needs the other.         *)
THEOREM TypesAndListing == Spec => [](TypeOK /\ ListingInv)
<1>1. Init => TypeOK /\ ListingInv
  BY TypesInit, ListingInvInit
<1>2. TypeOK /\ ListingInv /\ [Next]_vars => (TypeOK /\ ListingInv)'
  <2> SUFFICES ASSUME TypeOK, ListingInv, [Next]_vars
               PROVE  TypeOK' /\ ListingInv'
    OBVIOUS
  <2>1. future = "running" => StackOK(stack)
    BY DEF ListingInv, PlaceOK
  <2> QED
    BY <2>1, TypesStep, ListingInvStep
<1> QED
  BY <1>1, <1>2, PTL DEF Spec

(* TypeOK: the variables of the walk have their types; above all, only      *)
(* directories are walked.                                                  *)
THEOREM TypeCorrect == Spec => []TypeOK
  BY TypesAndListing, PTL

(* ListingContract: the list that list_entries_with_progress takes is the   *)
(* drive, but for what is in the directories that could not be read (and    *)
(* the children not found by their names), each of these counted in         *)
(* hard_failure unless it answered like something that is no directory.     *)
THEOREM ListingIsTheDrive == Spec => []ListingContract
<1>1. TypeOK /\ ListingInv => ListingContract
  BY ListingInvGives
<1> QED
  BY <1>1, TypesAndListing, PTL
================================================================================
