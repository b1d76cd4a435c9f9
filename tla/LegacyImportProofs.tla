------------------------- MODULE LegacyImportProofs -------------------------
(***************************************************************************)
(* Proofs about LegacyImport: where the boxes land, that no template is    *)
(* taken for another, that the second transaction suffices and that a pass *)
(* is whole, for any old database and any number of clients and passes.    *)
(***************************************************************************)
EXTENDS LegacyImport, TLAPS, FiniteSetTheorems, WellFoundedInduction

-----------------------------------------------------------------------------
(* Coordinates *)

\* The arithmetic of the way there and back, for a coordinate and a size.
LEMMA ThereAndBack ==
    ASSUME NEW v \in Int, NEW d \in Int, NEW D \in Int, NEW O \in Int
    PROVE  /\ 2 * (2 * d * v - O) * D + (2 * D) * O = v * (2 * (2 * D) * d)
           /\ (d * v) * D = v * (D * d)
<1>1. 2 * d * v = 2 * (d * v)
    OBVIOUS
<1> DEFINE p == d * v
<1>2. p \in Int
    OBVIOUS
<1>3. \A q \in Int : 2 * (2 * q - O) * D = 4 * (q * D) - 2 * (O * D)
    OBVIOUS
<1>4. 2 * (2 * p - O) * D = 4 * (p * D) - 2 * (O * D)
  <2> HIDE DEF p
  <2> QED BY <1>2, <1>3
<1>5. (2 * D) * O = 2 * (O * D)
    OBVIOUS
<1>6. p * D = v * (D * d)
    OBVIOUS
<1>7. v * (2 * (2 * D) * d) = 4 * (v * (D * d))
    OBVIOUS
<1>8. /\ O * D \in Int /\ p * D \in Int
    OBVIOUS
<1>9. 2 * (2 * d * v - O) * D = 4 * (p * D) - 2 * (O * D)
    BY <1>1, <1>4
<1>10. \A m, n, k, l \in Int : m = 4 * n - 2 * k /\ l = 2 * k => m + l = 4 * n
    OBVIOUS
<1>11. 2 * (2 * d * v - O) * D + (2 * D) * O = 4 * (p * D)
    BY <1>5, <1>8, <1>9, <1>10
<1> QED BY <1>6, <1>7, <1>11

\* The product of positive numbers is positive.
LEMMA PositiveProduct ==
    ASSUME NEW m \in Nat \ {0}, NEW n \in Nat \ {0}
    PROVE  m * n \in Nat \ {0}
OBVIOUS

\* What the scale of an image is.
LEMMA ScaleType ==
    ASSUME NEW width \in Nat \ {0}, NEW height \in Nat \ {0}
    PROVE  /\ Scale(width, height)[1] \in Nat \ {0}
           /\ Scale(width, height)[2] \in Nat \ {0}
BY DEF Scale, CANVAS_WIDTH, CANVAS_HEIGHT

\* Along one side, the way back from a fraction leads where it began.
LEMMA SideRoundTrip ==
    ASSUME NEW v \in Int, NEW side \in Nat \ {0}, NEW canvas \in Int, NEW s,
           s[1] \in Nat \ {0}, s[2] \in Nat \ {0}
    PROVE  /\ Is(ToCanvas(ToFraction(v, side, canvas, s), side, canvas, s), v)
           /\ Is(SizeToCanvas(SizeToFraction(v, side, s), side, s), v)
<1> DEFINE D == Drawn(side, s)
           O == Offset2(side, canvas, s)
           d == s[2]
<1>1. D \in Nat \ {0}
    BY PositiveProduct DEF Drawn
<1>2. O \in Int /\ d \in Nat \ {0}
    BY <1>1 DEF Offset2
<1>3. ToCanvas(ToFraction(v, side, canvas, s), side, canvas, s)
        = <<2 * (2 * d * v - O) * D + (2 * D) * O, 2 * (2 * D) * d>>
    BY DEF ToCanvas, ToFraction
<1>4. SizeToCanvas(SizeToFraction(v, side, s), side, s) = <<(d * v) * D, D * d>>
    BY DEF SizeToCanvas, SizeToFraction
<1> HIDE DEF D, O, d
<1>5. D * d \in Nat \ {0} /\ 2 * D \in Nat \ {0}
    BY <1>1, <1>2, PositiveProduct
<1>6. 2 * (2 * D) * d \in Nat \ {0}
  <2>1. 2 * (2 * D) \in Nat \ {0}
      BY <1>5
  <2> QED BY <2>1, <1>2, PositiveProduct
<1>7. /\ 2 * (2 * d * v - O) * D + (2 * D) * O = v * (2 * (2 * D) * d)
      /\ (d * v) * D = v * (D * d)
    BY <1>1, <1>2, ThereAndBack
<1> QED BY <1>3, <1>4, <1>5, <1>6, <1>7 DEF Is

\* The doc of coords.py: "exact in both directions".
THEOREM BoxesRoundTrip ==
    ASSUME NEW width \in Nat \ {0}, NEW height \in Nat \ {0}, NEW b,
           {b.x, b.y, b.w, b.h} \subseteq Int
    PROVE  SameBox(normalized_to_canvas(canvas_to_normalized(b, width, height),
                                        width, height), b)
<1> DEFINE s == Scale(width, height)
           f == canvas_to_normalized(b, width, height)
           c == normalized_to_canvas(f, width, height)
<1>1. s[1] \in Nat \ {0} /\ s[2] \in Nat \ {0}
    BY ScaleType
<1>2. CANVAS_WIDTH \in Int /\ CANVAS_HEIGHT \in Int
    BY DEF CANVAS_WIDTH, CANVAS_HEIGHT
<1>3. /\ f.x = ToFraction(b.x, width, CANVAS_WIDTH, s)
      /\ f.y = ToFraction(b.y, height, CANVAS_HEIGHT, s)
      /\ f.w = SizeToFraction(b.w, width, s)
      /\ f.h = SizeToFraction(b.h, height, s)
    BY DEF canvas_to_normalized
<1>4. /\ c.x = ToCanvas(f.x, width, CANVAS_WIDTH, s)
      /\ c.y = ToCanvas(f.y, height, CANVAS_HEIGHT, s)
      /\ c.w = SizeToCanvas(f.w, width, s)
      /\ c.h = SizeToCanvas(f.h, height, s)
    BY DEF normalized_to_canvas
<1> HIDE DEF s, f
<1>5. Is(c.x, b.x) /\ Is(c.w, b.w)
    BY <1>1, <1>2, <1>3, <1>4, SideRoundTrip
<1>6. Is(c.y, b.y) /\ Is(c.h, b.h)
    BY <1>1, <1>2, <1>3, <1>4, SideRoundTrip
<1> QED BY <1>5, <1>6 DEF SameBox, f

-----------------------------------------------------------------------------
(* Ids *)

\* A finite set of numbers has a largest one: one with the fewest above it.
LEMMA LargestIsLast ==
    ASSUME NEW S \in SUBSET Nat, IsFiniteSet(S), S # {}
    PROVE  Largest(S) \in S /\ \A j \in S : j <= Largest(S)
<1> DEFINE Above(i) == {j \in S : j > i}
           T == {Above(i) : i \in S}
<1>1. T \subseteq FiniteSubsetsOf(S)
  <2>1. \A i \in S : IsFiniteSet(Above(i))
      BY FS_Subset
  <2> QED BY <2>1 DEF FiniteSubsetsOf
<1>2. IsWellFoundedOn(StrictSubsetOrdering(S), FiniteSubsetsOf(S))
    BY FS_StrictSubsetOrderingWellFounded
<1>3. T # {}
    OBVIOUS
<1>4. \E x \in T : \A y \in T : ~(<<y, x>> \in StrictSubsetOrdering(S))
    <2> HIDE DEF T
    <2> QED BY <1>1, <1>2, <1>3, WFMin
<1>5. PICK i \in S : \A j \in S : ~(<<Above(j), Above(i)>> \in StrictSubsetOrdering(S))
    BY <1>4
<1>6. \A j \in S : j <= i
  <2> SUFFICES ASSUME NEW j \in S, j > i  PROVE  FALSE
      OBVIOUS
  <2>0. \A m \in S : m \in Nat
      OBVIOUS
  <2>1. j \in Above(i) /\ j \notin Above(j)
      BY <2>0
  <2>5. \A m \in S : m > j => m > i
      BY <2>0
  <2>2. Above(j) \subseteq Above(i) /\ Above(j) # Above(i)
      BY <2>1, <2>5
  <2>3. Above(j) \in SUBSET S /\ Above(i) \in SUBSET S
      OBVIOUS
  <2> HIDE DEF Above
  <2>4. <<Above(j), Above(i)>> \in StrictSubsetOrdering(S)
      BY <2>2, <2>3 DEF StrictSubsetOrdering
  <2> QED BY <1>5, <2>4
<1> QED BY <1>6 DEF Largest

\* The old ids are among the ids, and those are finitely many.
LEMMA IdsType ==
    /\ OldIds \subseteq Ids /\ Ids \subseteq Nat \ {0} /\ IsFiniteSet(Ids)
<1>3. OldIds \in SUBSET Nat /\ 0 \notin OldIds /\ OldIds # {} /\ IsFiniteSet(OldIds)
    BY ImportAssumption, Zenon DEF OldIds
<1>1. Largest(OldIds) \in OldIds /\ \A j \in OldIds : j <= Largest(OldIds)
    BY <1>3, LargestIsLast, Zenon
<1>7. IsFiniteSet(Clients)
    BY ImportAssumption, Zenon
<1>2. Cardinality(Clients) \in Nat
    BY <1>7, FS_CardinalityType
<1>8. Largest(OldIds) \in Nat /\ \A j \in OldIds : j \in Nat /\ j # 0
    BY <1>1, <1>3
<1>4. Largest(OldIds) + Cardinality(Clients) \in Nat
    BY <1>2, <1>8
<1>5. \A j \in OldIds : j \in 1..(Largest(OldIds) + Cardinality(Clients))
    BY <1>1, <1>2, <1>8
<1>6. IsFiniteSet(1..(Largest(OldIds) + Cardinality(Clients)))
    BY <1>4, FS_Interval
<1> QED BY <1>4, <1>5, <1>6 DEF Ids, LastOld

\* The last old id, and the last that can be given out.
LEMMA LastOldType ==
    /\ LastOld \in OldIds /\ LastOld \in Nat /\ LastOld >= 1 /\ \A i \in OldIds : i <= LastOld
    /\ Cardinality(Clients) \in Nat
    /\ Ids = 1..(LastOld + Cardinality(Clients))
    /\ Largest(Ids) = LastOld + Cardinality(Clients)
<1>1. OldIds \in SUBSET Nat /\ 0 \notin OldIds /\ OldIds # {} /\ IsFiniteSet(OldIds)
    BY ImportAssumption, Zenon DEF OldIds
<1>2. LastOld \in OldIds /\ \A i \in OldIds : i <= LastOld
    BY <1>1, LargestIsLast, Zenon DEF LastOld
<1>3. LastOld \in Nat /\ LastOld >= 1
    BY <1>1, <1>2
<1>4. IsFiniteSet(Clients)
    BY ImportAssumption, Zenon
<1>5. Cardinality(Clients) \in Nat
    BY <1>4, FS_CardinalityType
<1>6. Ids = 1..(LastOld + Cardinality(Clients))
    BY DEF Ids, LastOld
<1>7. Ids \in SUBSET Nat /\ IsFiniteSet(Ids)
    BY <1>6, IdsType
<1> DEFINE n == LastOld + Cardinality(Clients)
<1>8. n \in Nat /\ n >= 1
    BY <1>3, <1>5
<1>9. n \in Ids /\ \A i \in Ids : i <= n
    BY <1>6, <1>8
<1>10. Largest(Ids) \in Ids /\ \A i \in Ids : i <= Largest(Ids)
    BY <1>7, <1>9, LargestIsLast
<1>11. Largest(Ids) = n
  <2> DEFINE m == Largest(Ids)
  <2>1. m \in Nat /\ n \in Nat /\ m <= n /\ n <= m
      BY <1>7, <1>8, <1>9, <1>10
  <2> HIDE DEF m, n
  <2>2. m = n
      BY <2>1
  <2> QED BY <2>2 DEF m
<1> QED BY <1>2, <1>3, <1>5, <1>6, <1>11

\* So has any set of numbers a smallest one: the shortest of the intervals that
\* end in it.
LEMMA SmallestIsFirst ==
    ASSUME NEW S \in SUBSET Nat, S # {}
    PROVE  \E i \in S : \A j \in S : i <= j
<1> DEFINE T == {1..i : i \in S}
<1>1. T \subseteq FiniteSubsetsOf(Nat)
    BY FS_Interval DEF FiniteSubsetsOf
<1>2. IsWellFoundedOn(StrictSubsetOrdering(Nat), FiniteSubsetsOf(Nat))
    BY FS_StrictSubsetOrderingWellFounded
<1>3. T # {}
    OBVIOUS
<1>4. \E x \in T : \A y \in T : ~(<<y, x>> \in StrictSubsetOrdering(Nat))
    <2> HIDE DEF T
    <2> QED BY <1>1, <1>2, <1>3, WFMin
<1>5. PICK i \in S : \A j \in S : ~(<<1..j, 1..i>> \in StrictSubsetOrdering(Nat))
    BY <1>4
<1>6. \A j \in S : i <= j
  <2> SUFFICES ASSUME NEW j \in S, j < i  PROVE  FALSE
      OBVIOUS
  <2>1. i \in 1..i /\ i \notin 1..j
      OBVIOUS
  <2>2. 1..j \subseteq 1..i /\ 1..j # 1..i
      BY <2>1
  <2>3. 1..j \in SUBSET Nat /\ 1..i \in SUBSET Nat
      OBVIOUS
  <2>4. <<1..j, 1..i>> \in StrictSubsetOrdering(Nat)
      BY <2>2, <2>3 DEF StrictSubsetOrdering
  <2> QED BY <1>5, <2>4
<1> QED BY <1>6

\* The first of the rows that are left is one of them.
LEMMA NextIsLeft ==
    ASSUME pass.todo \in SUBSET OldIds, pass.todo # {}
    PROVE  NextOld \in pass.todo
<1>1. \A i \in OldIds : i \in Nat
    BY IdsType
<1>2. pass.todo \in SUBSET Nat
    BY <1>1
<1>3. \E i \in pass.todo : \A j \in pass.todo : i <= j
    BY <1>2, SmallestIsFirst
<1> QED BY <1>3 DEF NextOld

-----------------------------------------------------------------------------
(* The inductive invariants *)

\* Types, and that a row is written only while one is left.
TypeInv ==
    /\ rows \in [Ids -> Row \cup {None}]
    /\ sequence \in Nat
    /\ pass \in [at: {"off", "row", "write", "nudge", "done"}, todo: SUBSET OldIds,
                 loaded: Row \cup {None}, pending: SUBSET OldIds]
    /\ post \in [Clients -> [at: {"new", "insert", "commit", "done"}, id: Nat,
                             crossed: BOOLEAN]]
    /\ api \in {"anytime", "waiting", "open"}
    /\ edits \in 0..MaxEdits
    /\ pass.at = "write" => pass.todo # {}

\* The boxes of a template are those of the old row of its id, or the API's.
BoxInv ==
    \A i \in Ids : rows[i] # None =>
        rows[i].boxes = {} \/ (i \in OldIds /\ rows[i].boxes = Converted(i))

\* What it amounts to that the API waits: the sequence is past the old ids
\* before it is used, whichever of them are skipped, and no pass moves it back
\* below the last one, which is in.
WaitInv ==
    api # "anytime" =>
        /\ api = "waiting" => \A c \in Clients : ~Posting(c)
        /\ api = "open" => rows[LastOld] # None /\ LastOld <= sequence
        /\ \A c \in Clients : Posting(c) => post[c].id \notin OldIds
        /\ \A i \in OldIds : rows[i] # None => rows[i].by = "import"

\* After the second transaction the ids in use, and those on their way, have
\* been given out, but for those of POSTs that setval has not seen.
SequenceInv ==
    pass.at = "done" =>
        /\ \A i \in Ids : rows[i] # None /\ i > sequence =>
              \E c \in Clients : post[c].at = "done" /\ post[c].id = i /\ post[c].crossed
        /\ \A c \in Clients : Posting(c) => post[c].id <= sequence \/ post[c].crossed

\* A pass has every readable row before it or has written it.
PassInv ==
    /\ readable \in SUBSET OldIds
    /\ pass.at \in {"row", "write"} => readable \subseteq pass.todo \cup pass.pending

\* None is not a template.
LEMMA NoneIsNoRow == None \notin Row
BY ImportNoneAssumption

LEMMA TypeInit == Init => TypeInv
<1> SUFFICES ASSUME Init PROVE TypeInv
    OBVIOUS
<1>1. rows \in [Ids -> Row \cup {None}] /\ sequence \in Nat
    BY DEF Init
<1>2. /\ pass = Off /\ api \in {"anytime", "waiting", "open"}
      /\ post \in [Clients -> [at: {"new", "insert", "commit", "done"}, id: Nat,
                                crossed: BOOLEAN]]
    BY DEF Init
<1>3. edits \in 0..MaxEdits
    BY ImportAssumption DEF Init
<1> QED BY <1>1, <1>2, <1>3 DEF TypeInv, Off

\* What MAX(id) is.
LEMMA LargestIdType ==
    ASSUME TypeInv
    PROVE  /\ LargestId \in Nat
           /\ LargestId = 1 \/ (LargestId \in Ids /\ rows[LargestId] # None)
           /\ \A i \in Ids : rows[i] # None => i <= LargestId
<1> DEFINE S == {1} \cup {i \in Ids : rows[i] # None}
<1>1. S \in SUBSET Nat /\ IsFiniteSet(S) /\ S # {}
  <2>1. IsFiniteSet({i \in Ids : rows[i] # None})
      BY IdsType, FS_Subset
  <2>2. IsFiniteSet(S)
      BY <2>1, FS_Singleton, FS_Union
  <2>3. \A i \in Ids : i \in Nat
      BY IdsType
  <2> QED BY <2>2, <2>3
<1>2. /\ \A i \in S : i = 1 \/ (i \in Ids /\ rows[i] # None)
      /\ \A i \in Ids : rows[i] # None => i \in S
    OBVIOUS
<1>3. LargestId = Largest(S)
    BY DEF LargestId
<1> HIDE DEF S
<1>4. Largest(S) \in S /\ \A j \in S : j <= Largest(S)
    BY <1>1, LargestIsLast
<1> QED BY <1>1, <1>2, <1>3, <1>4

\* What setval does to the POSTs: those under way are marked.
LEMMA NudgePosts ==
    ASSUME TypeInv, Nudge
    PROVE  /\ post' \in [Clients -> [at: {"new", "insert", "commit", "done"}, id: Nat,
                                    crossed: BOOLEAN]]
           /\ \A c \in Clients :
                 /\ post'[c].at = post[c].at /\ post'[c].id = post[c].id
                 /\ post[c].crossed => post'[c].crossed
                 /\ Posting(c) => post'[c].crossed
<1> SUFFICES ASSUME NEW c \in Clients
             PROVE  /\ post'[c] \in [at: {"new", "insert", "commit", "done"}, id: Nat,
                                      crossed: BOOLEAN]
                    /\ post'[c].at = post[c].at /\ post'[c].id = post[c].id
                    /\ post[c].crossed => post'[c].crossed
                    /\ Posting(c) => post'[c].crossed
    BY DEF Nudge
<1>1. post[c] \in [at: {"new", "insert", "commit", "done"}, id: Nat, crossed: BOOLEAN]
    BY DEF TypeInv
<1>2. CASE Posting(c)
  <2>1. post'[c] = [post[c] EXCEPT !.crossed = TRUE]
      BY <1>2 DEF Nudge
  <2> QED BY <1>1, <2>1
<1>3. CASE ~Posting(c)
  <2>1. post'[c] = post[c]
      BY <1>3 DEF Nudge
  <2> QED BY <1>1, <1>3, <2>1
<1> QED BY <1>2, <1>3

LEMMA TypeStep == TypeInv /\ [Next]_importVars => TypeInv'
<1> SUFFICES ASSUME TypeInv, [Next]_importVars PROVE TypeInv'
    OBVIOUS
<1> USE DEF TypeInv
<1>1. CASE Begin
    BY <1>1 DEF Begin, Off
<1>2. CASE SkipRow
    BY <1>2 DEF SkipRow
<1>3. CASE LoadRow
  <2>1. NextOld \in OldIds
      BY <1>3, NextIsLeft DEF LoadRow
  <2>2. rows[NextOld] \in Row \cup {None}
      BY <2>1, IdsType
  <2> QED BY <1>3, <2>2 DEF LoadRow
<1>4. CASE WriteRow
  <2>1. NextOld \in OldIds
      BY <1>4, NextIsLeft DEF WriteRow
  <2> QED BY <1>4, <2>1 DEF WriteRow
<1>5. CASE CommitPass
  <2>1. ASSUME NEW i \in Ids, i \in pass.pending, rows[i] = None
        PROVE  [by |-> "import", boxes |-> Converted(i), edit |-> 0,
            clash |-> FALSE, deleted |-> FALSE] \in Row
      BY <2>1, ImportAssumption DEF Row
  <2>2. ASSUME NEW i \in Ids, i \in pass.pending, rows[i] # None
        PROVE  [rows[i] EXCEPT !.boxes = Converted(i), !.edit = 0, !.clash = FALSE] \in Row
    <3>1. rows[i] \in Row /\ i \in OldIds /\ 0 \in 0..MaxEdits
        BY <2>2, ImportAssumption
    <3> QED BY <3>1 DEF Row
  <2>3. rows' \in [Ids -> Row \cup {None}]
      BY <1>5, <2>1, <2>2 DEF CommitPass
  <2> QED BY <1>5, <2>3 DEF CommitPass, Off
<1>6. CASE Nudge
    BY <1>6, LargestIdType, NudgePosts DEF Nudge, Off
<1>7. CASE Dies
    BY <1>7 DEF Dies, RolledBack, Off
<1>8. ASSUME NEW i \in OldIds, Mend(i) PROVE TypeInv'
    BY <1>8 DEF Mend
<1>9. ASSUME NEW c \in Clients, Post(c) PROVE TypeInv'
    BY <1>9 DEF Post
<1>10. ASSUME NEW c \in Clients, Insert(c) PROVE TypeInv'
    BY <1>10 DEF Insert
<1>11. ASSUME NEW c \in Clients, CommitPost(c) PROVE TypeInv'
  <2>1. [by |-> "api", boxes |-> {}, edit |-> 0,
            clash |-> FALSE, deleted |-> FALSE] \in Row
      BY ImportAssumption DEF Row
  <2> QED BY <1>11, <2>1 DEF CommitPost
<1>12. ASSUME NEW i \in Ids, Patch(i) PROVE TypeInv'
  <2>1. edits' \in 0..MaxEdits /\ rows[i] \in Row
      BY <1>12, ImportAssumption DEF Patch
  <2>2. \A clash \in BOOLEAN :
            [rows[i] EXCEPT !.boxes = {}, !.edit = edits', !.clash = clash] \in Row
      BY <2>1 DEF Row
  <2>3. PICK clash \in BOOLEAN :
            rows' = [rows EXCEPT ![i] = [rows[i] EXCEPT !.boxes = {}, !.edit = edits',
                                                        !.clash = clash]]
      BY <1>12, <2>1 DEF Patch, Row
  <2>4. rows' \in [Ids -> Row \cup {None}]
      BY <2>2, <2>3
  <2> QED BY <1>12, <2>1, <2>4 DEF Patch
<1>13. ASSUME NEW i \in Ids, Delete(i) PROVE TypeInv'
  <2>1. rows[i] \in Row
      BY <1>13 DEF Delete
  <2>2. [rows[i] EXCEPT !.deleted = TRUE] \in Row
      BY <2>1 DEF Row
  <2> QED BY <1>13, <2>2 DEF Delete
<1>14. CASE UNCHANGED importVars
    BY <1>14 DEF importVars
<1> QED BY <1>1, <1>2, <1>3, <1>4, <1>5, <1>6, <1>7, <1>8, <1>9, <1>10, <1>11, <1>12,
           <1>13, <1>14 DEF Next, Work

-----------------------------------------------------------------------------
(* Where the boxes land *)

LEMMA BoxInit == Init => BoxInv
BY DEF Init, BoxInv

LEMMA BoxStep == TypeInv /\ BoxInv /\ [Next]_importVars => BoxInv'
<1> SUFFICES ASSUME TypeInv, BoxInv, [Next]_importVars PROVE BoxInv'
    OBVIOUS
<1> USE DEF BoxInv
<1>1. CASE rows' = rows
    BY <1>1
<1>2. CASE CommitPass
  <2> SUFFICES ASSUME NEW i \in Ids, rows'[i] # None
               PROVE  rows'[i].boxes = {} \/ (i \in OldIds /\ rows'[i].boxes = Converted(i))
      OBVIOUS
  <2>1. CASE i \notin pass.pending
      BY <1>2, <2>1 DEF CommitPass
  <2>2. CASE i \in pass.pending /\ rows[i] = None
      BY <1>2, <2>2 DEF CommitPass, TypeInv
  <2>3. CASE i \in pass.pending /\ rows[i] # None
    <3>1. rows[i] \in Row /\ i \in OldIds
        BY <2>3 DEF TypeInv
    <3>2. rows'[i].boxes = Converted(i)
        BY <1>2, <2>3, <3>1 DEF CommitPass, Row
    <3> QED BY <3>1, <3>2
  <2> QED BY <2>1, <2>2, <2>3
<1>3. ASSUME NEW c \in Clients, CommitPost(c) PROVE BoxInv'
    BY <1>3 DEF CommitPost, TypeInv
<1>4. ASSUME NEW i \in Ids, Patch(i) PROVE BoxInv'
  <2>1. rows[i] \in Row
      BY <1>4 DEF Patch, TypeInv
  <2> QED BY <1>4, <2>1 DEF Patch, TypeInv, Row
<1>5. ASSUME NEW i \in Ids, Delete(i) PROVE BoxInv'
  <2>1. rows[i] \in Row
      BY <1>5 DEF Delete, TypeInv
  <2> QED BY <1>5, <2>1 DEF Delete, TypeInv, Row
<1>6. Begin \/ SkipRow \/ LoadRow \/ WriteRow \/ Nudge \/ Dies \/ (\E i \in OldIds : Mend(i))
        => rows' = rows
    BY DEF Begin, SkipRow, LoadRow, WriteRow, Nudge, Dies, Mend
<1>7. (\E c \in Clients : Post(c) \/ Insert(c)) \/ UNCHANGED importVars => rows' = rows
    BY DEF Post, Insert, importVars
<1> QED BY <1>1, <1>2, <1>3, <1>4, <1>5, <1>6, <1>7 DEF Next, Work

LEMMA BoxesFromInv == TypeInv /\ BoxInv => BoxesInPlace
<1> SUFFICES ASSUME TypeInv, BoxInv, NEW i \in OldIds, rows[i] # None, NEW b \in rows[i].boxes
             PROVE  LET old == Legacy[i] IN
                    /\ b.page \in DOMAIN old.pages /\ b.question_no \in DOMAIN old.pages[b.page]
                    /\ old.pages[b.page][b.question_no] # None
                    /\ SameBox(normalized_to_canvas(b.box, old.width, old.height),
                               old.pages[b.page][b.question_no])
    BY DEF BoxesInPlace
<1>1. b \in Converted(i)
    BY IdsType DEF BoxInv
<1>2. PICK p \in DOMAIN Legacy[i].pages : b \in ConvertedPage(i, p)
    BY <1>1 DEF Converted
<1>3. PICK n \in DOMAIN Legacy[i].pages[p] :
        /\ Legacy[i].pages[p][n] # None
        /\ b = [page |-> p, question_no |-> n,
                box |-> canvas_to_normalized(Legacy[i].pages[p][n],
                                             Legacy[i].width, Legacy[i].height)]
    BY <1>2 DEF ConvertedPage
<1> DEFINE old == Legacy[i].pages[p][n]
<1>4. /\ Legacy[i].width \in Nat \ {0} /\ Legacy[i].height \in Nat \ {0}
      /\ {old.x, old.y, old.w, old.h} \subseteq Int
    BY <1>3, ImportAssumption DEF OldIds
<1> HIDE DEF old
<1>5. SameBox(normalized_to_canvas(canvas_to_normalized(old, Legacy[i].width, Legacy[i].height),
                                   Legacy[i].width, Legacy[i].height), old)
    BY <1>4, BoxesRoundTrip
<1> QED BY <1>3, <1>5 DEF old

\* "What matters most is that boxes land in the same place": whatever passes,
\* edits and deletions come together, a stored box of an imported template is the
\* old one of its number.
THEOREM BoxesStayInPlace == Spec => []BoxesInPlace
<1>1. Init => TypeInv /\ BoxInv
    BY TypeInit, BoxInit
<1>2. TypeInv /\ BoxInv /\ [Next]_importVars => (TypeInv /\ BoxInv)'
    BY TypeStep, BoxStep
<1>3. TypeInv /\ BoxInv => BoxesInPlace
    BY BoxesFromInv
<1> QED BY <1>1, <1>2, <1>3, PTL DEF Spec

-----------------------------------------------------------------------------
(* Whose template it is *)

LEMMA WaitInit == Init => WaitInv
BY IdsType DEF Init, WaitInv, Posting

\* No step of any process takes a template away.
LEMMA RowsStay ==
    TypeInv /\ [Next]_importVars => \A i \in Ids : rows[i] # None => rows'[i] # None
<1> SUFFICES ASSUME TypeInv, [Next]_importVars, NEW j \in Ids, rows[j] # None
             PROVE  rows'[j] # None
    OBVIOUS
<1> USE NoneIsNoRow DEF TypeInv
<1>0. rows[j] \in Row
    OBVIOUS
<1>1. CASE rows' = rows
    BY <1>1
<1>2. CASE CommitPass
  <2>1. CASE j \notin pass.pending
      BY <1>2, <2>1 DEF CommitPass
  <2>2. CASE j \in pass.pending
    <3>1. rows'[j] = [rows[j] EXCEPT !.boxes = Converted(j), !.edit = 0, !.clash = FALSE] /\ j \in OldIds
        BY <1>2, <2>2 DEF CommitPass
    <3>2. 0 \in 0..MaxEdits
        BY ImportAssumption
    <3>3. [rows[j] EXCEPT !.boxes = Converted(j), !.edit = 0, !.clash = FALSE] \in Row
        BY <1>0, <3>1, <3>2 DEF Row
    <3> QED BY <3>1, <3>3
  <2> QED BY <2>1, <2>2
<1>3. ASSUME NEW c \in Clients, CommitPost(c) PROVE rows'[j] # None
  <2>1. [by |-> "api", boxes |-> {}, edit |-> 0,
            clash |-> FALSE, deleted |-> FALSE] \in Row
      BY ImportAssumption DEF Row
  <2> QED BY <1>3, <2>1 DEF CommitPost
<1>4. ASSUME NEW i \in Ids, Patch(i) PROVE rows'[j] # None
  <2>1. edits' \in 0..MaxEdits /\ rows[i] \in Row
      BY <1>4, ImportAssumption DEF Patch
  <2>2. \A clash \in BOOLEAN :
            [rows[i] EXCEPT !.boxes = {}, !.edit = edits', !.clash = clash] \in Row
      BY <2>1 DEF Row
  <2>3. PICK clash \in BOOLEAN :
            rows' = [rows EXCEPT ![i] = [rows[i] EXCEPT !.boxes = {}, !.edit = edits',
                                                        !.clash = clash]]
      BY <1>4, <2>1 DEF Patch, Row
  <2> QED BY <2>2, <2>3
<1>5. ASSUME NEW i \in Ids, Delete(i) PROVE rows'[j] # None
  <2>1. rows[i] \in Row
      BY <1>5 DEF Delete
  <2>2. [rows[i] EXCEPT !.deleted = TRUE] \in Row
      BY <2>1 DEF Row
  <2> QED BY <1>5, <2>2 DEF Delete
<1>6. Begin \/ SkipRow \/ LoadRow \/ WriteRow \/ Nudge \/ Dies \/ (\E i \in OldIds : Mend(i))
        => rows' = rows
    BY DEF Begin, SkipRow, LoadRow, WriteRow, Nudge, Dies, Mend
<1>7. (\E c \in Clients : Post(c) \/ Insert(c)) \/ UNCHANGED importVars => rows' = rows
    BY DEF Post, Insert, importVars
<1> QED BY <1>1, <1>2, <1>3, <1>4, <1>5, <1>6, <1>7 DEF Next, Work

LEMMA WaitStep == TypeInv /\ WaitInv /\ [Next]_importVars => WaitInv'
<1> SUFFICES ASSUME TypeInv, WaitInv, [Next]_importVars, api' # "anytime" PROVE WaitInv'
    BY DEF WaitInv
<1>a. LastOld \in OldIds /\ LastOld \in Ids /\ LastOld' = LastOld
    BY LastOldType, IdsType
<1>b. /\ OldIds \subseteq Ids /\ \A i \in OldIds : i \in Nat /\ i <= LastOld
      /\ sequence \in Nat
    BY LastOldType, IdsType DEF TypeInv
<1>c. \A i \in Ids : rows[i] # None => rows'[i] # None
    BY RowsStay
\* A step that makes no template and posts nothing.
<1>1. ASSUME post' = post, sequence' = sequence, api' = api,
             \A i \in OldIds : rows'[i] # None => rows'[i].by = "import"
      PROVE  WaitInv'
    BY <1>1, <1>a, <1>c DEF WaitInv, Posting
<1>2. CASE Begin \/ SkipRow \/ LoadRow \/ WriteRow \/ Dies \/ (\E i \in OldIds : Mend(i))
  <2>1. post' = post /\ sequence' = sequence /\ api' = api /\ rows' = rows
      BY <1>2 DEF Begin, SkipRow, LoadRow, WriteRow, Dies, Mend
  <2> QED BY <1>1, <2>1 DEF WaitInv
<1>3. CASE CommitPass
  <2>1. post' = post /\ sequence' = sequence /\ api' = api
      BY <1>3 DEF CommitPass
  <2>2. ASSUME NEW i \in OldIds, rows'[i] # None PROVE rows'[i].by = "import"
    <3>1. CASE rows[i] = None
        BY <1>3, <1>b, <2>2, <3>1 DEF CommitPass
    <3>2. CASE rows[i] # None
      <4>1. rows[i].by = "import" /\ rows[i] \in Row
          BY <1>b, <2>1, <3>2 DEF WaitInv, TypeInv
      <4> QED BY <1>3, <1>b, <4>1 DEF CommitPass, Row
    <3> QED BY <3>1, <3>2
  <2> QED BY <1>1, <2>1, <2>2
<1>4. CASE Nudge
  <2>1. /\ rows' = rows /\ sequence' = LargestId
        /\ \A c \in Clients : post'[c].at = post[c].at /\ post'[c].id = post[c].id
        /\ api' = IF api = "waiting" /\ rows[LastOld] # None THEN "open" ELSE api
      BY <1>4, NudgePosts DEF Nudge
  <2>2. api # "anytime" /\ (api' = "waiting" => api = "waiting")
      BY <2>1 DEF TypeInv
  <2>3. api' = "open" => rows[LastOld] # None
      BY <2>1, <2>2 DEF WaitInv, TypeInv
  <2>4. rows[LastOld] # None => LastOld <= LargestId
      BY <1>a, LargestIdType
  <2> QED BY <1>a, <2>1, <2>2, <2>3, <2>4 DEF WaitInv, Posting
<1>5. ASSUME NEW c \in Clients, Post(c) PROVE WaitInv'
  <2>1. /\ rows' = rows /\ sequence' = sequence + 1 /\ api' = api
        /\ post'[c].id = sequence + 1
        /\ \A d \in Clients \ {c} : post'[d] = post[d]
      BY <1>5 DEF Post, TypeInv
  <2>2. api = "open" /\ LastOld <= sequence /\ rows[LastOld] # None
      BY <1>5, <2>1 DEF Post, InUse, WaitInv, TypeInv
  <2>3. sequence + 1 \notin OldIds /\ LastOld <= sequence + 1
      BY <1>a, <1>b, <2>2
  <2> QED BY <1>a, <2>1, <2>2, <2>3 DEF WaitInv, Posting
<1>6. ASSUME NEW c \in Clients, Insert(c) PROVE WaitInv'
  <2>1. rows' = rows /\ sequence' = sequence /\ api' = api
      BY <1>6 DEF Insert
  <2>2. \A d \in Clients : post'[d].id = post[d].id /\ (Posting(d)' => Posting(d))
      BY <1>6 DEF Insert, TypeInv, Posting
  <2> QED BY <1>a, <2>1, <2>2 DEF WaitInv
<1>7. ASSUME NEW c \in Clients, CommitPost(c) PROVE WaitInv'
  <2>1. /\ sequence' = sequence /\ api' = api /\ Posting(c)
        /\ \A i \in Ids : i # post[c].id => rows'[i] = rows[i]
      BY <1>7 DEF CommitPost, TypeInv, Posting
  <2>2. \A d \in Clients : post'[d].id = post[d].id /\ (Posting(d)' => Posting(d))
      BY <1>7 DEF CommitPost, TypeInv, Posting
  <2>3. \A i \in OldIds : rows'[i] = rows[i]
      BY <1>b, <2>1 DEF WaitInv
  <2> QED BY <1>a, <2>1, <2>2, <2>3 DEF WaitInv
<1>8. ASSUME NEW j \in Ids, Patch(j) \/ Delete(j) PROVE WaitInv'
  <2>1. /\ post' = post /\ sequence' = sequence /\ api' = api
        /\ rows[j] # None /\ \A i \in Ids : i # j => rows'[i] = rows[i]
      BY <1>8 DEF Patch, Delete, TypeInv
  <2>2. rows'[j].by = rows[j].by
    <3>1. rows[j] \in Row
        BY <2>1 DEF TypeInv
    <3>2. CASE Patch(j)
        BY <3>1, <3>2 DEF Patch, TypeInv, Row
    <3>3. CASE Delete(j)
        BY <3>1, <3>3 DEF Delete, TypeInv, Row
    <3> QED BY <1>8, <3>2, <3>3
  <2>3. \A i \in OldIds : rows'[i] # None => rows'[i].by = "import"
      BY <1>b, <2>1, <2>2 DEF WaitInv
  <2> QED BY <1>1, <2>1, <2>3
<1>9. CASE UNCHANGED importVars
    BY <1>1, <1>9 DEF importVars, WaitInv
<1> QED BY <1>2, <1>3, <1>4, <1>5, <1>6, <1>7, <1>8, <1>9 DEF Next, Work

\* If the API is first used after a pass that ended and brought in the last old
\* row, no template made through it is ever taken for an old one: not for one
\* that was skipped and is mended while the API goes on, and not by a pass that
\* runs beside it or after one that died.
THEOREM NoTemplateTakenForAnother == Spec => []NoMixUp
<1>1. Init => TypeInv /\ BoxInv /\ WaitInv
    BY TypeInit, BoxInit, WaitInit
<1>2. TypeInv /\ BoxInv /\ WaitInv /\ [Next]_importVars => (TypeInv /\ BoxInv /\ WaitInv)'
    BY TypeStep, BoxStep, WaitStep
<1>3. BoxInv /\ WaitInv => NoMixUp
    BY DEF BoxInv, WaitInv, NoMixUp
<1> QED BY <1>1, <1>2, <1>3, PTL DEF Spec

-----------------------------------------------------------------------------
(* The sequence of ids *)

LEMMA SequenceInit == Init => SequenceInv
BY DEF Init, Off, SequenceInv

LEMMA SequenceStep == TypeInv /\ SequenceInv /\ [Next]_importVars => SequenceInv'
<1> SUFFICES ASSUME TypeInv, SequenceInv, [Next]_importVars, pass'.at = "done"
             PROVE  SequenceInv'
    BY DEF SequenceInv
<1> USE DEF SequenceInv, Posting
<1>b. /\ sequence \in Nat /\ \A i \in Ids : i \in Nat
      /\ \A c \in Clients : post[c].id \in Nat
    BY IdsType DEF TypeInv
<1>1. Begin \/ SkipRow \/ LoadRow \/ WriteRow \/ CommitPass \/ Dies => pass'.at # "done"
  <2>1. Begin => pass'.at = "row"
      BY DEF Begin, Off
  <2>5. CommitPass => pass'.at = "nudge"
    <3>1. CommitPass => pass' = [Off EXCEPT !.at = "nudge"]
        BY DEF CommitPass
    <3> QED BY <3>1 DEF Off
  <2>6. Dies => pass'.at = "off"
      BY DEF Dies, Off, RolledBack
  <2>2. SkipRow => pass'.at = "row"
      BY DEF SkipRow, TypeInv
  <2>3. LoadRow => pass'.at = "write"
      BY DEF LoadRow, TypeInv
  <2>4. WriteRow => pass'.at = "row"
      BY DEF WriteRow, TypeInv
  <2> QED BY <2>1, <2>2, <2>3, <2>4, <2>5, <2>6
<1>2. CASE Nudge
  <2>1. \A i \in Ids : rows'[i] # None => i <= sequence'
      BY <1>2, LargestIdType DEF Nudge
  <2>2. \A i \in Ids : ~(rows'[i] # None /\ i > sequence')
      BY <1>2, <1>b, <2>1, LargestIdType DEF Nudge
  <2>3. \A c \in Clients : Posting(c)' => post'[c].crossed
      BY <1>2, NudgePosts
  <2> QED BY <2>2, <2>3
<1>3. ASSUME NEW i \in OldIds, Mend(i) PROVE SequenceInv'
    BY <1>3 DEF Mend
<1>4. ASSUME NEW c \in Clients, Post(c) PROVE SequenceInv'
  <2>1. /\ rows' = rows /\ pass' = pass /\ sequence' = sequence + 1
        /\ post[c].at = "new" /\ post'[c].id = sequence + 1
        /\ \A d \in Clients \ {c} : post'[d] = post[d]
      BY <1>4 DEF Post, TypeInv
  <2> QED BY <1>b, <2>1
<1>5. ASSUME NEW c \in Clients, Insert(c) PROVE SequenceInv'
  <2>1. rows' = rows /\ sequence' = sequence /\ pass' = pass
      BY <1>5 DEF Insert
  <2>2. /\ post[c].at = "insert" /\ post'[c].at \in {"new", "commit"}
        /\ post'[c].id = post[c].id /\ post'[c].crossed = post[c].crossed
        /\ \A d \in Clients \ {c} : post'[d] = post[d]
      BY <1>5 DEF Insert, TypeInv
  <2> QED BY <2>1, <2>2
<1>6. ASSUME NEW c \in Clients, CommitPost(c) PROVE SequenceInv'
  <2>1. /\ sequence' = sequence /\ pass' = pass
        /\ \A i \in Ids : i # post[c].id => rows'[i] = rows[i]
      BY <1>6 DEF CommitPost, TypeInv
  <2>2. /\ post[c].at = "commit" /\ post'[c].at = "done"
        /\ post'[c].id = post[c].id /\ post'[c].crossed = post[c].crossed
        /\ \A d \in Clients \ {c} : post'[d] = post[d]
      BY <1>6 DEF CommitPost, TypeInv
  <2>3. post[c].id <= sequence \/ post[c].crossed
      BY <2>1, <2>2
  <2>4. ASSUME NEW i \in Ids, rows'[i] # None, i > sequence
        PROVE  \E d \in Clients : post'[d].at = "done" /\ post'[d].id = i /\ post'[d].crossed
    <3>1. CASE i = post[c].id
        BY <1>b, <2>2, <2>3, <2>4, <3>1
    <3>2. CASE i # post[c].id
        BY <2>1, <2>2, <2>4, <3>2
    <3> QED BY <3>1, <3>2
  <2> QED BY <2>1, <2>2, <2>4
<1>7. ASSUME NEW j \in Ids, Patch(j) \/ Delete(j) PROVE SequenceInv'
  <2>1. /\ UNCHANGED <<sequence, pass, post>>
        /\ rows[j] # None /\ \A i \in Ids : i # j => rows'[i] = rows[i]
      BY <1>7 DEF Patch, Delete, TypeInv
  <2> QED BY <2>1
<1>8. CASE UNCHANGED importVars
    BY <1>8 DEF importVars
<1> QED BY <1>1, <1>2, <1>3, <1>4, <1>5, <1>6, <1>7, <1>8 DEF Next, Work

\* "The next create collides" no more once a pass has ended, whenever the API is
\* used, unless it meets a template whose POST setval could not see.
THEOREM SequenceIsPastTheIds == Spec => []NudgeIsEnough
<1>1. Init => TypeInv /\ SequenceInv
    BY TypeInit, SequenceInit
<1>2. TypeInv /\ SequenceInv /\ [Next]_importVars => (TypeInv /\ SequenceInv)'
    BY TypeStep, SequenceStep
<1>3. SequenceInv => NudgeIsEnough
    BY DEF SequenceInv, NudgeIsEnough
<1> QED BY <1>1, <1>2, <1>3, PTL DEF Spec

-----------------------------------------------------------------------------
(* One commit for all *)

LEMMA PassInit == Init => PassInv
BY DEF Init, Off, PassInv

LEMMA PassStep == TypeInv /\ PassInv /\ [Next]_importVars => PassInv'
<1> SUFFICES ASSUME TypeInv, PassInv, [Next]_importVars PROVE PassInv'
    OBVIOUS
<1> USE DEF PassInv
<1>1. CASE Begin
    BY <1>1 DEF Begin, Off, TypeInv
<1>2. CASE SkipRow
  <2>1. NextOld \notin readable
      BY <1>2 DEF SkipRow
  <2> QED BY <1>2, <2>1 DEF SkipRow, TypeInv
<1>3. CASE LoadRow
    BY <1>3 DEF LoadRow, TypeInv
<1>4. CASE WriteRow
  <2>1. /\ pass'.at = "row" /\ pass.at = "write" /\ readable' = readable
        /\ pass'.todo = pass.todo \ {NextOld} /\ pass'.pending = pass.pending \cup {NextOld}
      BY <1>4 DEF WriteRow, TypeInv
  <2> QED BY <2>1
<1>5. CASE CommitPass \/ Nudge \/ Dies
  <2>1. CommitPass => readable' = readable /\ pass'.at = "nudge"
      BY DEF CommitPass, Off
  <2>2. Nudge => readable' = readable /\ pass'.at = "done"
      BY DEF Nudge, Off
  <2>3. Dies => readable' = readable /\ pass'.at = "off"
      BY DEF Dies, Off, RolledBack
  <2> QED BY <1>5, <2>1, <2>2, <2>3
<1>6. ASSUME NEW i \in OldIds, Mend(i) PROVE PassInv'
    BY <1>6 DEF Mend, Importing
<1>7. (\E c \in Clients : Post(c) \/ Insert(c) \/ CommitPost(c)) \/ UNCHANGED importVars
        => readable' = readable /\ pass' = pass
    BY DEF Post, Insert, CommitPost, importVars
<1>8. (\E i \in Ids : Patch(i) \/ Delete(i)) => readable' = readable /\ pass' = pass
    BY DEF Patch, Delete
<1> QED BY <1>1, <1>2, <1>3, <1>4, <1>5, <1>6, <1>7, <1>8 DEF Next, Work

\* What a step that shows an imported template where there was none does.
LEMMA OneCommit ==
    ASSUME TypeInv, PassInv, [Next]_importVars,
           NEW i \in OldIds, rows[i] = None, rows'[i] # None, rows'[i].by = "import",
           NEW j \in readable
    PROVE  rows'[j] # None
<1> USE NoneIsNoRow
<1>1. i \in Ids /\ j \in OldIds /\ j \in Ids
    BY IdsType DEF PassInv
<1>2. CASE CommitPass
  <2>1. j \in pass.pending
      BY <1>2 DEF CommitPass, AllWritten, PassInv
  <2>2. 0 \in 0..MaxEdits
      BY ImportAssumption
  <2>3. CASE rows[j] = None
    <3>1. [by |-> "import", boxes |-> Converted(j), edit |-> 0,
            clash |-> FALSE, deleted |-> FALSE] \in Row
        BY <1>1, <2>2 DEF Row
    <3> QED BY <1>1, <1>2, <2>1, <2>3, <3>1 DEF CommitPass
  <2>4. CASE rows[j] # None
    <3>1. rows[j] \in Row
        BY <1>1, <2>4 DEF TypeInv
    <3>2. [rows[j] EXCEPT !.boxes = Converted(j), !.edit = 0, !.clash = FALSE] \in Row
        BY <1>1, <2>2, <3>1 DEF Row
    <3> QED BY <1>1, <1>2, <2>1, <2>4, <3>2 DEF CommitPass
  <2> QED BY <2>3, <2>4
<1>3. ASSUME NEW c \in Clients, CommitPost(c) PROVE FALSE
    BY <1>1, <1>3 DEF CommitPost, TypeInv
<1>4. ASSUME NEW k \in Ids, Patch(k) \/ Delete(k) PROVE FALSE
  <2>1. rows[k] # None /\ \A m \in Ids : m # k => rows'[m] = rows[m]
      BY <1>4 DEF Patch, Delete, TypeInv
  <2> QED BY <1>1, <2>1
<1>5. Begin \/ SkipRow \/ LoadRow \/ WriteRow \/ Nudge \/ Dies \/ (\E k \in OldIds : Mend(k))
        => rows' = rows
    BY DEF Begin, SkipRow, LoadRow, WriteRow, Nudge, Dies, Mend
<1>6. (\E c \in Clients : Post(c) \/ Insert(c)) \/ UNCHANGED importVars => rows' = rows
    BY DEF Post, Insert, importVars
<1> QED BY <1>2, <1>3, <1>4, <1>5, <1>6 DEF Next, Work

\* "A half-migrated database is worse than a reported gap": the first imported
\* template that anybody sees comes with all others that could be read, whenever
\* the import dies.
THEOREM PassesAreWhole == Spec => WholePasses
<1>1. Init => TypeInv /\ PassInv
    BY TypeInit, PassInit
<1>2. TypeInv /\ PassInv /\ [Next]_importVars => (TypeInv /\ PassInv)'
    BY TypeStep, PassStep
<1>3. TypeInv /\ PassInv /\ [Next]_importVars
        => [(\E i \in OldIds : rows[i] = None /\ rows'[i] # None /\ rows'[i].by = "import")
            => \A i \in readable : rows'[i] # None]_importVars
    BY OneCommit
<1> QED BY <1>1, <1>2, <1>3, PTL DEF Spec, WholePasses

-----------------------------------------------------------------------------
(* How far the sequence gets *)

\* The ids clients hold: in a request, or in a template they have made.
Held == {post[c].id : c \in {d \in Clients : post[d].at # "new"}}

\* An id past the old ones is given up only when it is taken, and only a client
\* takes one: so those given out, now or before the sequence was moved back, are
\* held without a gap, each by a client of its own.
HeldInv ==
    /\ \A c \in Clients : (LastOld + 1)..post[c].id \subseteq Held
    /\ (LastOld + 1)..sequence \subseteq Held
    /\ \A i \in Ids : rows[i] # None /\ i > LastOld =>
          \E c \in Clients : post[c].at = "done" /\ post[c].id = i

\* There are no more ids held than clients.
LEMMA HeldAreFew ==
    ASSUME TypeInv, NEW n \in Nat, (LastOld + 1)..n \subseteq Held
    PROVE  n <= LastOld + Cardinality(Clients)
<1> DEFINE holders == {d \in Clients : post[d].at # "new"}
           gap == (LastOld + 1)..n
<1>1. LastOld \in Nat /\ Cardinality(Clients) \in Nat
    BY LastOldType
<1>2. IsFiniteSet(Clients)
    BY ImportAssumption, Zenon
<1>3. IsFiniteSet(holders) /\ Cardinality(holders) <= Cardinality(Clients)
    BY <1>2, FS_Subset
<1>4. IsFiniteSet(Held) /\ Cardinality(Held) <= Cardinality(holders)
  <2>1. [c \in holders |-> post[c].id] \in Surjection(holders, Held)
      BY DEF Surjection, Held
  <2> HIDE DEF holders
  <2> QED BY <1>3, <2>1, FS_Surjection
<1>5. Cardinality(gap) <= Cardinality(Held)
    BY <1>4, FS_Subset
<1>6. CASE n >= LastOld + 1
  <2>1. LastOld + 1 \in Int /\ n \in Int
      BY <1>1
  <2>2. Cardinality(gap) = n - (LastOld + 1) + 1
      BY <1>1, <1>6, <2>1, FS_Interval
  <2>3. Cardinality(holders) \in Nat /\ Cardinality(Held) \in Nat
      BY <1>3, <1>4, FS_CardinalityType
  <2> HIDE DEF holders, gap
  <2> QED BY <1>1, <1>3, <1>4, <1>5, <2>2, <2>3
<1>7. CASE ~(n >= LastOld + 1)
    BY <1>1, <1>7
<1> QED BY <1>6, <1>7

LEMMA IdsAreEnough ==
    ASSUME TypeInv, HeldInv
    PROVE  /\ sequence \in 0..Largest(Ids)
           /\ \A c \in Clients : post[c].id \in 0..Largest(Ids)
<1>1. sequence \in Nat /\ \A c \in Clients : post[c].id \in Nat
    BY DEF TypeInv
<1>2. sequence <= LastOld + Cardinality(Clients)
    BY <1>1, HeldAreFew DEF HeldInv
<1>3. \A c \in Clients : post[c].id <= LastOld + Cardinality(Clients)
    BY <1>1, HeldAreFew DEF HeldInv
<1> QED BY <1>1, <1>2, <1>3, LastOldType

LEMMA HeldInit == Init => HeldInv
<1> SUFFICES ASSUME Init PROVE HeldInv
    OBVIOUS
<1>1. sequence = 0 /\ \A c \in Clients : post[c].id = 0
    BY DEF Init
<1>2. \A i \in Ids : rows[i] = None
    BY DEF Init
<1>3. (LastOld + 1)..0 = {}
    BY LastOldType
<1> QED BY <1>1, <1>2, <1>3 DEF HeldInv

LEMMA HeldStep == TypeInv /\ HeldInv /\ [Next]_importVars => HeldInv'
<1> SUFFICES ASSUME TypeInv, HeldInv, [Next]_importVars PROVE HeldInv'
    OBVIOUS
<1>a. /\ LastOld' = LastOld
      /\ LastOld \in Nat /\ LastOld >= 1 /\ \A i \in OldIds : i <= LastOld
    BY LastOldType
<1>b. /\ sequence \in Nat /\ \A c \in Clients : post[c].id \in Nat
      /\ \A i \in Ids : i \in Nat
    BY IdsType DEF TypeInv
<1>c. /\ \A c \in Clients : (LastOld + 1)..post[c].id \subseteq Held
      /\ (LastOld + 1)..sequence \subseteq Held
      /\ \A i \in Ids : rows[i] # None /\ i > LastOld =>
            \E c \in Clients : post[c].at = "done" /\ post[c].id = i
    BY DEF HeldInv
\* A step that makes no template but an imported one.
<1>1. ASSUME post' = post, sequence' = sequence,
             \A i \in Ids : i > LastOld => (rows'[i] # None => rows[i] # None)
      PROVE  HeldInv'
  <2>1. Held' = Held
      BY <1>1 DEF Held
  <2> QED BY <1>1, <1>a, <1>c, <2>1 DEF HeldInv
<1>2. CASE Begin \/ SkipRow \/ LoadRow \/ WriteRow \/ Dies \/ (\E i \in OldIds : Mend(i))
    BY <1>1, <1>2 DEF Begin, SkipRow, LoadRow, WriteRow, Dies, Mend
<1>3. CASE CommitPass
  <2>1. \A i \in pass.pending : i <= LastOld
      BY <1>a DEF TypeInv
  <2>2. \A i \in Ids : i > LastOld => i \notin pass.pending
      BY <1>a, <1>b, <2>1
  <2> QED BY <1>1, <1>3, <2>2 DEF CommitPass
<1>4. CASE Nudge
  <2>1. /\ sequence' = LargestId /\ rows' = rows
        /\ \A c \in Clients : post'[c].at = post[c].at /\ post'[c].id = post[c].id
      BY <1>4, NudgePosts DEF Nudge
  <2>2. LargestId = 1 \/ (LargestId \in Ids /\ rows[LargestId] # None)
      BY LargestIdType
  <2>3. (LastOld + 1)..LargestId \subseteq Held
    <3>1. CASE LargestId <= LastOld
      <4>1. LargestId \in Nat
          BY <1>b, <2>2
      <4> QED BY <1>a, <3>1, <4>1
    <3>2. CASE ~(LargestId <= LastOld)
      <4>1. LargestId \in Ids /\ rows[LargestId] # None /\ LargestId > LastOld
          BY <1>a, <1>b, <2>2, <3>2
      <4> QED BY <1>c, <4>1
    <3> QED BY <3>1, <3>2
  <2>4. Held' = Held
      BY <2>1 DEF Held
  <2> QED BY <1>a, <1>c, <2>1, <2>3, <2>4 DEF HeldInv
<1>5. ASSUME NEW c \in Clients, Post(c) PROVE HeldInv'
  <2>1. /\ post[c].at = "new" /\ sequence' = sequence + 1 /\ rows' = rows
        /\ post'[c] = [at |-> "insert", id |-> sequence + 1, crossed |-> FALSE]
        /\ \A d \in Clients \ {c} : post'[d] = post[d]
      BY <1>5 DEF Post, TypeInv
  <2>2. Held \subseteq Held'
      BY <2>1 DEF Held
  <2>3. sequence + 1 \in Held'
      BY <2>1 DEF Held
  <2>4. (LastOld + 1)..(sequence + 1) \subseteq Held'
    <3> SUFFICES ASSUME NEW j \in (LastOld + 1)..(sequence + 1) PROVE j \in Held'
        OBVIOUS
    <3>1. j = sequence + 1 \/ j \in (LastOld + 1)..sequence
        BY <1>a, <1>b
    <3> QED BY <1>c, <2>2, <2>3, <3>1
  <2>5. \A d \in Clients : (LastOld + 1)..post'[d].id \subseteq Held'
      BY <1>c, <2>1, <2>2, <2>4
  <2>6. \A i \in Ids : rows'[i] # None /\ i > LastOld =>
            \E d \in Clients : post'[d].at = "done" /\ post'[d].id = i
      BY <1>c, <2>1
  <2> QED BY <1>a, <2>1, <2>4, <2>5, <2>6 DEF HeldInv
<1>6. ASSUME NEW c \in Clients, Insert(c) PROVE HeldInv'
  <2>1. /\ post[c].at = "insert" /\ sequence' = sequence /\ rows' = rows
        /\ post'[c].id = post[c].id
        /\ post'[c].at = IF Taken(post[c].id) THEN "new" ELSE "commit"
        /\ \A d \in Clients \ {c} : post'[d] = post[d]
      BY <1>6 DEF Insert, TypeInv
  <2>2. \A i \in Ids : rows[i] # None /\ i > LastOld =>
            \E d \in Clients : post'[d].at = "done" /\ post'[d].id = i
      BY <1>c, <2>1
  <2>3. ASSUME NEW j \in Held, j > LastOld  PROVE j \in Held'
    <3>1. PICK d \in Clients : post[d].at # "new" /\ post[d].id = j
        BY DEF Held
    <3>2. CASE d # c \/ ~Taken(post[c].id)
        BY <2>1, <3>1, <3>2 DEF Held
    <3>3. CASE d = c /\ Taken(post[c].id)
      <4>1. j \in Ids
          BY <1>a, <1>b, <2>3, <3>1, IdsAreEnough, LastOldType
      <4>2. rows[j] # None
          BY <3>1, <3>3 DEF Taken
      <4>3. PICK e \in Clients : post'[e].at = "done" /\ post'[e].id = j
          BY <2>2, <2>3, <4>1, <4>2
      <4> QED BY <4>3 DEF Held
    <3> QED BY <3>2, <3>3
  <2>4. ASSUME NEW n \in Nat, (LastOld + 1)..n \subseteq Held
        PROVE  (LastOld + 1)..n \subseteq Held'
      BY <1>a, <2>3, <2>4
  <2>5. (LastOld + 1)..sequence \subseteq Held'
      BY <1>b, <1>c, <2>4
  <2>6. \A d \in Clients : (LastOld + 1)..post'[d].id \subseteq Held'
      BY <1>b, <1>c, <2>1, <2>4
  <2> QED BY <1>a, <2>1, <2>2, <2>5, <2>6 DEF HeldInv
<1>7. ASSUME NEW c \in Clients, CommitPost(c) PROVE HeldInv'
  <2>1. /\ post[c].at = "commit" /\ sequence' = sequence
        /\ post'[c].id = post[c].id /\ post'[c].at = "done"
        /\ \A d \in Clients \ {c} : post'[d] = post[d]
        /\ \A i \in Ids : i # post[c].id => rows'[i] = rows[i]
      BY <1>7 DEF CommitPost, TypeInv
  <2>2. Held' = Held
    <3>1. \A d \in Clients : post'[d].id = post[d].id /\ (post'[d].at # "new" <=> post[d].at # "new")
        BY <2>1
    <3> QED BY <3>1 DEF Held
  <2>3. \A d \in Clients : post'[d].id = post[d].id
      BY <2>1
  <2>4. ASSUME NEW i \in Ids, rows'[i] # None, i > LastOld
        PROVE  \E d \in Clients : post'[d].at = "done" /\ post'[d].id = i
      BY <1>c, <2>1, <2>4
  <2> QED BY <1>a, <1>c, <2>1, <2>2, <2>3, <2>4 DEF HeldInv
<1>8. ASSUME NEW j \in Ids, Patch(j) \/ Delete(j) PROVE HeldInv'
  <2>1. /\ post' = post /\ sequence' = sequence
        /\ rows[j] # None /\ \A i \in Ids : i # j => rows'[i] = rows[i]
      BY <1>8 DEF Patch, Delete, TypeInv
  <2> QED BY <1>1, <2>1
<1>9. CASE UNCHANGED importVars
    BY <1>1, <1>9 DEF importVars
<1> QED BY <1>2, <1>3, <1>4, <1>5, <1>6, <1>7, <1>8, <1>9 DEF Next, Work

\* Types, and a bound that takes the whole protocol to see: however often the
\* import moves the sequence back and a POST collides, no more ids past the old
\* ones are given out than there are clients.
THEOREM ImportTypeCorrect == Spec => []ImportTypeOK
<1>1. Init => TypeInv /\ HeldInv
    BY TypeInit, HeldInit
<1>2. TypeInv /\ HeldInv /\ [Next]_importVars => (TypeInv /\ HeldInv)'
    BY TypeStep, HeldStep
<1>3. TypeInv /\ HeldInv => ImportTypeOK
    BY IdsAreEnough DEF TypeInv, ImportTypeOK
<1> QED BY <1>1, <1>2, <1>3, PTL DEF Spec
=============================================================================
