--------------------------- MODULE AdapterProofs ---------------------------
(***************************************************************************)
(* What TLAPS proves of Adapters, for every directory, every set of        *)
(* manifests, settings and tasks and any number of loads that overlap: the *)
(* types, that no file is passed over, that the registry is the directory, *)
(* and that the command line of a start is the one declared.               *)
(*                                                                         *)
(* And of Tracker, for every staleness cap, every debounce, every set of   *)
(* readings and every number of restarts: types, the counts that justify a *)
(* belief, and that a tracker is a status reader.                          *)
(***************************************************************************)
EXTENDS Adapters, Tracker, SequenceTheorems, WellFoundedInduction, TLAPS

(* A set of naturals has a least element, and Min is that.                 *)
LEMMA MinIsLeast ==
  ASSUME NEW S \in SUBSET Nat, S # {}
  PROVE  Min(S) \in S /\ \A y \in S : Min(S) <= y
<1>1. PICK x \in S : \A y \in S : <<y, x>> \notin OpToRel(<, Nat)
  BY NatLessThanWellFounded, WFMin
<1>2. \A y \in S : ~(y < x)  BY <1>1 DEF OpToRel
<1>3. \E z \in S : \A y \in S : z <= y  BY <1>2
<1>. QED  BY <1>3 DEF Min

-----------------------------------------------------------------------------
(* The registry: what one file adds                                        *)
-----------------------------------------------------------------------------

LEMMA FileIsNat == File \in SUBSET Nat /\ \A f \in File : f >= 1
BY FilesAssumption DEF File

(* The built-ins are an adapter each, whose file is none.                  *)
LEMMA BuiltInsAre ==
  /\ BuiltIn \in Seq(Text) /\ Len(BuiltIn) \in Nat
  /\ DOMAIN BuiltIn = 1 .. Len(BuiltIn)
  /\ BuiltIns \in Seq(Entry)
  /\ Len(BuiltIns) = Len(BuiltIn)
  /\ \A i \in DOMAIN BuiltIn : BuiltIns[i] = [text |-> BuiltIn[i], source |-> 0] /\ BuiltIn[i] \in Text
<1>1. BuiltIn \in Seq(Text)  BY TextAssumption
<1>2. Len(BuiltIn) \in Nat /\ DOMAIN BuiltIn = 1 .. Len(BuiltIn) /\ \A i \in DOMAIN BuiltIn : BuiltIn[i] \in Text
  BY <1>1
<1>3. BuiltIns = [i \in 1 .. Len(BuiltIn) |-> [text |-> BuiltIn[i], source |-> 0]]
  BY <1>2 DEF BuiltIns
<1>4. \A i \in 1 .. Len(BuiltIn) : [text |-> BuiltIn[i], source |-> 0] \in Entry
  BY <1>2, FilesAssumption DEF Entry
<1>5. BuiltIns \in [1 .. Len(BuiltIn) -> Entry]  BY <1>3, <1>4
<1>6. BuiltIns \in Seq(Entry) /\ Len(BuiltIns) = Len(BuiltIn)  BY <1>2, <1>5
<1>. QED  BY <1>1, <1>2, <1>3, <1>6

(* A load in its middle: the sequences and where their elements come from. *)
LEMMA LoadedIs ==
  ASSUME NEW x \in Loaded
  PROVE  /\ x.adapters \in Seq(Entry) /\ Len(x.adapters) \in Nat
         /\ DOMAIN x.adapters = 1 .. Len(x.adapters)
         /\ \A i \in DOMAIN x.adapters :
              x.adapters[i] \in Entry /\ x.adapters[i].text \in Text /\ Origin(x, i) \in 0 .. Files
         /\ x.errors \in Seq(LoadError) /\ Len(x.errors) \in Nat
         /\ DOMAIN x.errors = 1 .. Len(x.errors)
         /\ \A i \in DOMAIN x.errors : x.errors[i] \in LoadError /\ x.errors[i].source \in File
         /\ x.listed \in SUBSET File /\ x.asOf \in 0 .. MaxEdits
         /\ FromFile(x) \subseteq DOMAIN x.adapters
         /\ \A i \in FromFile(x) : i \in Nat /\ i > Len(BuiltIn)
<1>1. x.adapters \in Seq(Entry) /\ x.errors \in Seq(LoadError) /\ x.listed \in SUBSET File /\ x.asOf \in 0 .. MaxEdits
  BY DEF Loaded
<1>2. /\ Len(x.adapters) \in Nat /\ DOMAIN x.adapters = 1 .. Len(x.adapters)
      /\ \A i \in DOMAIN x.adapters : x.adapters[i] \in Entry
  BY <1>1
<1>3. /\ Len(x.errors) \in Nat /\ DOMAIN x.errors = 1 .. Len(x.errors)
      /\ \A i \in DOMAIN x.errors : x.errors[i] \in LoadError
  BY <1>1
<1>4. \A e \in Entry : e.text \in Text /\ e.source \in 0 .. Files  BY DEF Entry
<1>5. \A e \in LoadError : e.source \in File  BY DEF LoadError
<1>6. FromFile(x) \subseteq DOMAIN x.adapters /\ \A i \in FromFile(x) : i \in Nat /\ i > Len(BuiltIn)
  BY <1>2, BuiltInsAre DEF FromFile
<1>. QED  BY <1>1, <1>2, <1>3, <1>4, <1>5, <1>6 DEF Origin

(* One more adapter, at the end.                                           *)
LEMMA OneMoreAdapter ==
  ASSUME NEW x \in Loaded, NEW e \in Entry, NEW y, y = [x EXCEPT !.adapters = Append(@, e)],
         BuiltInsFirst(x)
  PROVE  /\ y \in Loaded
         /\ y.errors = x.errors /\ y.listed = x.listed /\ y.asOf = x.asOf
         /\ Len(y.adapters) = Len(x.adapters) + 1
         /\ DOMAIN y.adapters = 1 .. Len(x.adapters) + 1
         /\ \A i \in DOMAIN x.adapters : y.adapters[i] = x.adapters[i]
         /\ y.adapters[Len(x.adapters) + 1] = e
         /\ FromFile(y) = FromFile(x) \cup {Len(x.adapters) + 1}
         /\ Served(y) = Served(x) \cup {e.source}
         /\ Failed(y) = Failed(x)
         /\ BuiltInsFirst(y)
<1>. DEFINE n == Len(x.adapters)
<1>1. y.adapters = Append(x.adapters, e) /\ y.errors = x.errors /\ y.listed = x.listed /\ y.asOf = x.asOf
  BY DEF Loaded
<1>2. Append(x.adapters, e) \in Seq(Entry)  BY LoadedIs, AppendProperties
<1>3. y \in Loaded  BY <1>2 DEF Loaded
<1>4. /\ Len(y.adapters) = n + 1
      /\ \A i \in DOMAIN x.adapters : y.adapters[i] = x.adapters[i]
      /\ y.adapters[n + 1] = e
  BY <1>1, LoadedIs, AppendProperties
<1>5. DOMAIN y.adapters = 1 .. n + 1  BY <1>3, <1>4, LoadedIs
<1>6. \A i \in DOMAIN BuiltIn : i \in DOMAIN x.adapters  BY DEF BuiltInsFirst
<1>7. n + 1 \notin DOMAIN BuiltIn /\ DOMAIN x.adapters = 1 .. n /\ n \in Nat  BY <1>6, LoadedIs
<1>8. FromFile(y) = FromFile(x) \cup {n + 1}  BY <1>5, <1>7 DEF FromFile
<1>9. \A i \in FromFile(x) : i \in DOMAIN x.adapters  BY DEF FromFile
<1>10. Served(y) = Served(x) \cup {e.source}
  <2>1. \A i \in FromFile(x) : Origin(y, i) = Origin(x, i)  BY <1>4, <1>9 DEF Origin
  <2>2. Origin(y, n + 1) = e.source  BY <1>4 DEF Origin
  <2>. HIDE DEF n
  <2>3. Served(y) \subseteq Served(x) \cup {e.source}  BY <2>1, <2>2, <1>8 DEF Served
  <2>4. Served(x) \subseteq Served(y)  BY <2>1, <1>8 DEF Served
  <2>5. e.source \in Served(y)  BY <2>2, <1>8 DEF Served
  <2>. QED  BY <2>3, <2>4, <2>5
<1>11. Failed(y) = Failed(x)  BY <1>1 DEF Failed
<1>12. BuiltInsFirst(y)
  <2>. SUFFICES ASSUME NEW i \in DOMAIN BuiltIn PROVE i \in DOMAIN y.adapters /\ y.adapters[i] = BuiltIns[i]
    BY DEF BuiltInsFirst
  <2>1. i \in DOMAIN x.adapters /\ x.adapters[i] = BuiltIns[i]  BY DEF BuiltInsFirst
  <2>. QED  BY <2>1, <1>4, <1>5, <1>7
<1>. QED  BY <1>1, <1>3, <1>4, <1>5, <1>8, <1>10, <1>11, <1>12

(* One more error, at the end.                                             *)
LEMMA OneMoreError ==
  ASSUME NEW x \in Loaded, NEW f \in File, NEW why \in Reason,
         NEW y, y = Refuse(x, f, why)
  PROVE  /\ y \in Loaded
         /\ y.adapters = x.adapters /\ y.listed = x.listed /\ y.asOf = x.asOf
         /\ DOMAIN y.errors = 1 .. Len(x.errors) + 1
         /\ \A i \in DOMAIN x.errors : y.errors[i] = x.errors[i]
         /\ y.errors[Len(x.errors) + 1] = [source |-> f, detail |-> why]
         /\ FromFile(y) = FromFile(x)
         /\ Served(y) = Served(x)
         /\ Failed(y) = Failed(x) \cup {f}
<1>. DEFINE n == Len(x.errors)
            e == [source |-> f, detail |-> why]
<1>1. y.errors = Append(x.errors, e) /\ y.adapters = x.adapters /\ y.listed = x.listed /\ y.asOf = x.asOf
  BY DEF Loaded, Refuse
<1>2. e \in LoadError  BY DEF LoadError
<1>3. Append(x.errors, e) \in Seq(LoadError)  BY <1>2, LoadedIs, AppendProperties
<1>4. y \in Loaded  BY <1>3 DEF Loaded, Refuse
<1>5. /\ Len(y.errors) = n + 1
      /\ \A i \in DOMAIN x.errors : y.errors[i] = x.errors[i]
      /\ y.errors[n + 1] = e
  <2>. HIDE DEF e
  <2>. QED  BY <1>1, <1>2, LoadedIs, AppendProperties
<1>6. DOMAIN y.errors = 1 .. n + 1 /\ DOMAIN x.errors = 1 .. n /\ n \in Nat  BY <1>4, <1>5, LoadedIs
<1>7. FromFile(y) = FromFile(x)  BY <1>1 DEF FromFile
<1>8. Served(y) = Served(x)  BY <1>1, <1>7 DEF Served, Origin
<1>9. Failed(y) = Failed(x) \cup {f}
  <2>. HIDE DEF n
  <2>1. DOMAIN y.errors = DOMAIN x.errors \cup {n + 1}  BY <1>6
  <2>2. y.errors[n + 1].source = f  BY <1>5
  <2>. QED  BY <1>5, <2>1, <2>2 DEF Failed
<1>. QED  BY <1>1, <1>4, <1>5, <1>6, <1>7, <1>8, <1>9

(* A refused file: it is listed, and the next one to be read.              *)
LEMMA RefusedOK ==
  ASSUME NEW x \in Loaded, NEW todo \in SUBSET File, NEW f \in todo, \A g \in todo : f <= g,
         LoadOK(x, todo), NEW why \in Reason,
         NEW y, y = Refuse(x, f, why)
  PROVE  /\ y \in Loaded /\ LoadOK(y, todo \ {f})
         /\ AsOfOK(x, todo) /\ (why = "already loaded" <=> Sound(f)) /\ (x.asOf = edits => ~Wins(f, x.listed))
            /\ (x.asOf = edits /\ Sound(f) =>
                  \E i \in DOMAIN x.adapters : Id(x.adapters[i]) = Manifest[dir[f]].id)
            => AsOfOK(y, todo \ {f})
<1>. DEFINE n == Len(x.errors)
<1>1. f \in File /\ f \in x.listed /\ f \in Nat  BY FileIsNat DEF LoadOK
<1>2. /\ y \in Loaded
      /\ y.adapters = x.adapters /\ y.listed = x.listed /\ y.asOf = x.asOf
      /\ DOMAIN y.errors = 1 .. n + 1
      /\ \A i \in DOMAIN x.errors : y.errors[i] = x.errors[i]
      /\ y.errors[n + 1] = [source |-> f, detail |-> why]
      /\ FromFile(y) = FromFile(x)
      /\ Served(y) = Served(x)
      /\ Failed(y) = Failed(x) \cup {f}
  BY <1>1, OneMoreError
<1>3. DOMAIN x.errors = 1 .. n /\ n \in Nat /\ \A i \in DOMAIN x.errors : x.errors[i].source \in File
  BY LoadedIs
<1>4. y.errors[n + 1].source = f /\ y.errors[n + 1].detail = why  BY <1>2
<1>. HIDE DEF n
<1>5. \A i \in DOMAIN y.errors : i \in DOMAIN x.errors \/ i = n + 1  BY <1>2, <1>3
<1>6. y.listed \ (todo \ {f}) = (x.listed \ todo) \cup {f}  BY <1>1, <1>2
<1>7. f \notin Served(x) /\ f \notin Failed(x)  BY DEF LoadOK
<1>8. \A i \in DOMAIN x.errors : x.errors[i].source \in Failed(x)  BY DEF Failed
<1>9. \A i \in DOMAIN x.errors : x.errors[i].source < f  BY <1>8 DEF LoadOK
<1>10. LoadOK(y, todo \ {f})
  <2>1. \A g \in y.listed \ (todo \ {f}), h \in todo \ {f} : g < h
    <3>. SUFFICES ASSUME NEW g \in y.listed \ (todo \ {f}), NEW h \in todo \ {f} PROVE g < h  OBVIOUS
    <3>1. CASE g \in x.listed \ todo  BY <3>1 DEF LoadOK
    <3>2. CASE g = f
      <4>1. f <= h /\ h # f /\ h \in Nat  BY FileIsNat
      <4>. QED  BY <3>2, <4>1, <1>1
    <3>. QED  BY <3>1, <3>2, <1>6
  <2>2. BuiltInsFirst(y) /\ OneId(y) /\ InOrder(y)
    BY <1>2 DEF LoadOK, BuiltInsFirst, OneId, InOrder, Origin
  <2>3. \A i \in DOMAIN y.adapters : Parses(Manifest[y.adapters[i].text])  BY <1>2 DEF LoadOK
  <2>4. Served(y) \cup Failed(y) = y.listed \ (todo \ {f})  BY <1>2, <1>6 DEF LoadOK
  <2>5. Served(y) \cap Failed(y) = {}  BY <1>2, <1>7 DEF LoadOK
  <2>6. ASSUME NEW i \in DOMAIN y.errors, NEW j \in DOMAIN y.errors, i < j
        PROVE  y.errors[i].source < y.errors[j].source
    <3>0. i \in Nat /\ j \in Nat  BY <1>2, <1>3
    <3>1. i \in DOMAIN x.errors  BY <2>6, <3>0, <1>2, <1>3
    <3>2. CASE j \in DOMAIN x.errors  BY <3>1, <3>2, <2>6, <1>2 DEF LoadOK
    <3>3. CASE j = n + 1  BY <3>1, <3>3, <1>2, <1>4, <1>9
    <3>. QED  BY <3>2, <3>3, <1>5
  <2>7. todo \ {f} \subseteq y.listed  BY <1>2 DEF LoadOK
  <2>. QED  BY <2>1, <2>2, <2>3, <2>4, <2>5, <2>6, <2>7 DEF LoadOK
<1>11. ASSUME AsOfOK(x, todo), why = "already loaded" <=> Sound(f), x.asOf = edits => ~Wins(f, x.listed),
              x.asOf = edits /\ Sound(f) =>
                \E i \in DOMAIN x.adapters : Id(x.adapters[i]) = Manifest[dir[f]].id
       PROVE  AsOfOK(y, todo \ {f})
  <2>. SUFFICES ASSUME x.asOf = edits PROVE
           /\ y.listed \subseteq Present
           /\ AsWritten(y)
           /\ \A g \in y.listed \ (todo \ {f}) :
               /\ g \in Served(y) <=> Wins(g, y.listed)
               /\ Sound(g) => \E i \in DOMAIN y.adapters : Id(y.adapters[i]) = Manifest[dir[g]].id
    BY <1>2, <1>11 DEF AsOfOK
  <2>1. y.listed \subseteq Present  BY <1>2, <1>11 DEF AsOfOK
  <2>2. AsWritten(y)
    <3>1. \A i \in FromFile(y) : y.adapters[i].text = dir[Origin(y, i)]
      BY <1>2, <1>11 DEF AsOfOK, AsWritten, Origin
    <3>2. ASSUME NEW i \in DOMAIN y.errors
          PROVE  y.errors[i].detail = "already loaded" <=> Sound(y.errors[i].source)
      <4>1. CASE i \in DOMAIN x.errors  BY <4>1, <1>2, <1>11 DEF AsOfOK, AsWritten
      <4>2. CASE i = n + 1  BY <4>2, <1>4, <1>11
      <4>. QED  BY <4>1, <4>2, <1>5
    <3>. QED  BY <3>1, <3>2 DEF AsWritten
  <2>3. ASSUME NEW g \in y.listed \ (todo \ {f})
        PROVE  /\ g \in Served(y) <=> Wins(g, y.listed)
               /\ Sound(g) => \E i \in DOMAIN y.adapters : Id(y.adapters[i]) = Manifest[dir[g]].id
    <3>1. CASE g \in x.listed \ todo
      <4>1. g \in Served(x) <=> Wins(g, y.listed)  BY <3>1, <1>2, <1>11 DEF AsOfOK
      <4>2. Sound(g) => \E i \in DOMAIN x.adapters : Id(x.adapters[i]) = Manifest[dir[g]].id
        BY <3>1, <1>11 DEF AsOfOK
      <4>3. Served(y) = Served(x) /\ y.adapters = x.adapters  BY <1>2
      <4>. QED  BY <4>1, <4>2, <4>3
    <3>2. CASE g = f  BY <3>2, <1>2, <1>7, <1>11
    <3>. QED  BY <3>1, <3>2, <1>6
  <2>. QED  BY <2>1, <2>2, <2>3
<1>. QED  BY <1>2, <1>10, <1>11

(* A file that is taken: its manifest is sound, and nobody has its id.     *)
LEMMA TakenOK ==
  ASSUME NEW x \in Loaded, NEW todo \in SUBSET File, NEW f \in todo, \A g \in todo : f <= g,
         LoadOK(x, todo), dir[f] \in Text, Parses(Manifest[dir[f]]),
         \A i \in DOMAIN x.adapters : Id(x.adapters[i]) # Manifest[dir[f]].id,
         NEW y, y = [x EXCEPT !.adapters = Append(@, [text |-> dir[f], source |-> f])]
  PROVE  /\ y \in Loaded /\ LoadOK(y, todo \ {f})
         /\ AsOfOK(x, todo) /\ (x.asOf = edits => Wins(f, x.listed)) => AsOfOK(y, todo \ {f})
<1>. DEFINE n == Len(x.adapters)
            e == [text |-> dir[f], source |-> f]
<1>1. f \in File /\ f \in x.listed /\ f \in Nat /\ f >= 1  BY FileIsNat DEF LoadOK
<1>2. e \in Entry  BY <1>1, FilesAssumption DEF Entry, File
<1>3. e.text = dir[f] /\ e.source = f /\ Id(e) = Manifest[dir[f]].id  BY DEF Id
<1>. HIDE DEF e
<1>4. BuiltInsFirst(x)  BY DEF LoadOK
<1>5. y = [x EXCEPT !.adapters = Append(@, e)]  BY DEF e
<1>6. /\ y \in Loaded
      /\ y.errors = x.errors /\ y.listed = x.listed /\ y.asOf = x.asOf
      /\ DOMAIN y.adapters = 1 .. n + 1
      /\ \A i \in DOMAIN x.adapters : y.adapters[i] = x.adapters[i]
      /\ y.adapters[n + 1] = e
      /\ FromFile(y) = FromFile(x) \cup {n + 1}
      /\ Served(y) = Served(x) \cup {f}
      /\ Failed(y) = Failed(x)
      /\ BuiltInsFirst(y)
  BY <1>2, <1>3, <1>4, <1>5, OneMoreAdapter
<1>7. DOMAIN x.adapters = 1 .. n /\ n \in Nat /\ FromFile(x) \subseteq DOMAIN x.adapters  BY LoadedIs
<1>. HIDE DEF n
<1>71. \A i \in FromFile(x) : i \in Nat /\ i <= n + 1  BY <1>7
<1>72. n + 1 \in Nat  BY <1>7
<1>73. \A i \in FromFile(y) : i \in FromFile(x) \/ i = n + 1  BY <1>6
<1>74. \A i \in FromFile(y) : i \in Nat /\ i <= n + 1  BY <1>71, <1>72, <1>73
<1>8. \A i \in DOMAIN y.adapters : i \in DOMAIN x.adapters \/ i = n + 1  BY <1>6, <1>7
<1>9. y.listed \ (todo \ {f}) = (x.listed \ todo) \cup {f}  BY <1>1, <1>6
<1>10. f \notin Served(x) /\ f \notin Failed(x)  BY DEF LoadOK
<1>11. \A i \in FromFile(x) : Origin(x, i) \in Served(x)  BY DEF Served
<1>12. \A i \in FromFile(x) : Origin(x, i) < f  BY <1>11 DEF LoadOK
<1>13. LoadOK(y, todo \ {f})
  <2>1. \A g \in y.listed \ (todo \ {f}), h \in todo \ {f} : g < h
    <3>. SUFFICES ASSUME NEW g \in y.listed \ (todo \ {f}), NEW h \in todo \ {f} PROVE g < h  OBVIOUS
    <3>1. CASE g \in x.listed \ todo  BY <3>1 DEF LoadOK
    <3>2. CASE g = f
      <4>1. f <= h /\ h # f /\ h \in Nat  BY FileIsNat
      <4>. QED  BY <3>2, <4>1, <1>1
    <3>. QED  BY <3>1, <3>2, <1>9
  <2>2. OneId(y)
    <3>. SUFFICES ASSUME NEW i \in DOMAIN y.adapters, NEW j \in DOMAIN y.adapters,
                         Id(y.adapters[i]) = Id(y.adapters[j])
                  PROVE  i = j
      BY DEF OneId
    <3>1. CASE i \in DOMAIN x.adapters /\ j \in DOMAIN x.adapters
      BY <3>1, <1>6 DEF LoadOK, OneId
    <3>2. CASE i = n + 1 /\ j \in DOMAIN x.adapters  BY <3>2, <1>3, <1>6
    <3>3. CASE i \in DOMAIN x.adapters /\ j = n + 1  BY <3>3, <1>3, <1>6
    <3>. QED  BY <3>1, <3>2, <3>3, <1>8
  <2>3. InOrder(y)
    <3>. SUFFICES ASSUME NEW i \in FromFile(y), NEW j \in FromFile(y), i < j
                  PROVE  Origin(y, i) < Origin(y, j)
      BY DEF InOrder
    <3>0. i \in Nat /\ j \in Nat /\ j <= n + 1  BY <1>74
    <3>1. i \in FromFile(x)
      <4>1. i # n + 1  BY <3>0, <1>7
      <4>. QED  BY <4>1, <1>6
    <3>2. CASE j \in FromFile(x)  BY <3>1, <3>2, <1>6, <1>7 DEF LoadOK, InOrder, Origin
    <3>3. CASE j = n + 1  BY <3>1, <3>3, <1>3, <1>6, <1>7, <1>12 DEF Origin
    <3>. QED  BY <3>2, <3>3, <1>6
  <2>4. \A i \in DOMAIN y.adapters : Parses(Manifest[y.adapters[i].text])
    BY <1>3, <1>6, <1>8 DEF LoadOK
  <2>5. Served(y) \cup Failed(y) = y.listed \ (todo \ {f})  BY <1>6, <1>9 DEF LoadOK
  <2>6. Served(y) \cap Failed(y) = {}  BY <1>6, <1>10 DEF LoadOK
  <2>7. todo \ {f} \subseteq y.listed  BY <1>6 DEF LoadOK
  <2>8. \A i, j \in DOMAIN y.errors : i < j => y.errors[i].source < y.errors[j].source
    BY <1>6 DEF LoadOK
  <2>. QED  BY <2>1, <2>2, <2>3, <2>4, <2>5, <2>6, <2>7, <2>8, <1>6 DEF LoadOK
<1>14. ASSUME AsOfOK(x, todo), x.asOf = edits => Wins(f, x.listed) PROVE AsOfOK(y, todo \ {f})
  <2>. SUFFICES ASSUME x.asOf = edits PROVE
           /\ y.listed \subseteq Present
           /\ AsWritten(y)
           /\ \A g \in y.listed \ (todo \ {f}) :
               /\ g \in Served(y) <=> Wins(g, y.listed)
               /\ Sound(g) => \E i \in DOMAIN y.adapters : Id(y.adapters[i]) = Manifest[dir[g]].id
    BY <1>6, <1>14 DEF AsOfOK
  <2>1. y.listed \subseteq Present  BY <1>6, <1>14 DEF AsOfOK
  <2>2. AsWritten(y)
    <3>1. ASSUME NEW i \in FromFile(y) PROVE y.adapters[i].text = dir[Origin(y, i)]
      <4>1. CASE i \in FromFile(x)  BY <4>1, <1>6, <1>7, <1>14 DEF AsOfOK, AsWritten, Origin
      <4>2. CASE i = n + 1  BY <4>2, <1>3, <1>6 DEF Origin
      <4>. QED  BY <4>1, <4>2, <1>6
    <3>2. \A i \in DOMAIN y.errors : y.errors[i].detail = "already loaded" <=> Sound(y.errors[i].source)
      BY <1>6, <1>14 DEF AsOfOK, AsWritten
    <3>. QED  BY <3>1, <3>2 DEF AsWritten
  <2>3. ASSUME NEW g \in y.listed \ (todo \ {f})
        PROVE  /\ g \in Served(y) <=> Wins(g, y.listed)
               /\ Sound(g) => \E i \in DOMAIN y.adapters : Id(y.adapters[i]) = Manifest[dir[g]].id
    <3>1. CASE g \in x.listed \ todo
      <4>1. g # f /\ (g \in Served(x) <=> Wins(g, y.listed))  BY <3>1, <1>6, <1>14 DEF AsOfOK
      <4>2. ASSUME Sound(g) PROVE \E i \in DOMAIN y.adapters : Id(y.adapters[i]) = Manifest[dir[g]].id
        <5>1. PICK i \in DOMAIN x.adapters : Id(x.adapters[i]) = Manifest[dir[g]].id
          BY <3>1, <4>2, <1>14 DEF AsOfOK
        <5>. QED  BY <5>1, <1>6, <1>7
      <4>. QED  BY <4>1, <4>2, <1>6
    <3>2. CASE g = f
      <4>1. n + 1 \in DOMAIN y.adapters  BY <1>6, <1>7
      <4>. QED  BY <3>2, <4>1, <1>3, <1>6, <1>14
    <3>. QED  BY <3>1, <3>2, <1>9
  <2>. QED  BY <2>1, <2>2, <2>3
<1>. QED  BY <1>6, <1>13, <1>14

(* What a load makes of the next file in the order of their names.         *)
LEMMA LoadFileOK ==
  ASSUME dir \in [File -> Text \cup {Absent, Unreadable}],
         NEW x \in Loaded, NEW todo \in SUBSET File, NEW f \in todo, \A g \in todo : f <= g,
         LoadOK(x, todo), AsOfOK(x, todo), NEW y, y = LoadFile(x, f)
  PROVE  y \in Loaded /\ LoadOK(y, todo \ {f}) /\ AsOfOK(y, todo \ {f})
<1>0. f \in File /\ f \in Nat  BY FileIsNat
<1>01. BuiltInsFirst(x)  BY DEF LoadOK
<1>02. \A i \in DOMAIN BuiltIn : i \in DOMAIN x.adapters /\ x.adapters[i].text = BuiltIn[i]
  <2>. SUFFICES ASSUME NEW i \in DOMAIN BuiltIn
                PROVE  i \in DOMAIN x.adapters /\ x.adapters[i].text = BuiltIn[i]
    OBVIOUS
  <2>1. i \in DOMAIN x.adapters /\ x.adapters[i] = BuiltIns[i]  BY <1>01 DEF BuiltInsFirst
  <2>2. BuiltIns[i].text = BuiltIn[i]  BY DEF BuiltIns
  <2>. QED  BY <2>1, <2>2
<1>1. CASE dir[f] \in {Absent, Unreadable} \/ (dir[f] \in Text /\ ~Parses(Manifest[dir[f]]))
  <2>1. ~Sound(f)  BY <1>1, TextAssumption DEF Sound
  <2>2. ~Wins(f, x.listed)  BY <2>1 DEF Wins
  <2>3. y = Refuse(x, f, "cannot read it") \/ y = Refuse(x, f, "invalid")
    <3>1. CASE dir[f] \in {Absent, Unreadable}
      <4>1. ~(dir[f] \in Text /\ ~Parses(Manifest[dir[f]]))  BY <3>1, TextAssumption
      <4>. QED  BY <3>1, <4>1 DEF LoadFile
    <3>2. CASE dir[f] \in Text /\ ~Parses(Manifest[dir[f]])
      <4>1. dir[f] \notin {Absent, Unreadable}  BY <3>2, TextAssumption
      <4>. QED  BY <3>2, <4>1 DEF LoadFile
    <3>. QED  BY <1>1, <3>1, <3>2
  <2>4. "cannot read it" \in Reason /\ "invalid" \in Reason
        /\ "cannot read it" # "already loaded" /\ "invalid" # "already loaded"
    BY DEF Reason
  <2>5. CASE y = Refuse(x, f, "cannot read it")  BY <2>1, <2>2, <2>4, <2>5, RefusedOK
  <2>6. CASE y = Refuse(x, f, "invalid")  BY <2>1, <2>2, <2>4, <2>6, RefusedOK
  <2>. QED  BY <2>3, <2>5, <2>6
<1>2. CASE dir[f] \in Text /\ Parses(Manifest[dir[f]])
  <2>0. Sound(f) /\ dir[f] \notin {Absent, Unreadable}  BY <1>2, TextAssumption DEF Sound
  <2>. DEFINE taken == \E i \in DOMAIN x.adapters : Id(x.adapters[i]) = Manifest[dir[f]].id
  <2>1. (\E had \in ToSet(x.adapters) : Id(had) = Manifest[dir[f]].id) <=> taken  BY DEF ToSet
  <2>2. CASE taken
    <3>1. y = Refuse(x, f, "already loaded")  BY <1>2, <2>0, <2>1, <2>2 DEF LoadFile
    <3>2. "already loaded" \in Reason  BY DEF Reason
    <3>3. ASSUME x.asOf = edits PROVE ~Wins(f, x.listed)
      <4>1. PICK i \in DOMAIN x.adapters : Id(x.adapters[i]) = Manifest[dir[f]].id  BY <2>2
      <4>2. CASE i \in DOMAIN BuiltIn
        <5>1. x.adapters[i].text = BuiltIn[i]  BY <4>2, <1>02
        <5>2. BuiltIn[i] \in ToSet(BuiltIn)  BY <4>2 DEF ToSet
        <5>. QED  BY <4>1, <5>1, <5>2 DEF Id, Wins
      <4>3. CASE i \in FromFile(x)
        <5>. DEFINE g == Origin(x, i)
        <5>1. g \in Served(x)  BY <4>3 DEF Served
        <5>2. g \in x.listed \ todo  BY <5>1 DEF LoadOK
        <5>3. Wins(g, x.listed) /\ x.adapters[i].text = dir[g]  BY <3>3, <4>3, <5>1, <5>2 DEF AsOfOK, AsWritten
        <5>4. g < f  BY <5>2 DEF LoadOK
        <5>5. g \in x.listed  BY <5>2
        <5>6. Manifest[dir[g]].id = Manifest[dir[f]].id  BY <4>1, <5>3 DEF Id
        <5>7. Sound(g)  BY <5>3 DEF Wins
        <5>. HIDE DEF g
        <5>. QED  BY <5>4, <5>5, <5>6, <5>7 DEF Wins
      <4>. QED  BY <4>2, <4>3 DEF FromFile
    <3>. QED  BY <2>0, <2>2, <3>1, <3>2, <3>3, RefusedOK
  <2>3. CASE ~taken
    <3>1. y = [x EXCEPT !.adapters = Append(@, [text |-> dir[f], source |-> f])]
      BY <1>2, <2>0, <2>1, <2>3 DEF LoadFile
    <3>2. ASSUME x.asOf = edits PROVE Wins(f, x.listed)
      <4>1. ASSUME NEW b \in ToSet(BuiltIn) PROVE Manifest[b].id # Manifest[dir[f]].id
        <5>1. PICK i \in DOMAIN BuiltIn : BuiltIn[i] = b  BY DEF ToSet
        <5>2. i \in DOMAIN x.adapters /\ x.adapters[i].text = b  BY <5>1, <1>02
        <5>. QED  BY <5>2, <2>3 DEF Id
      <4>2. ASSUME NEW g \in x.listed, g < f, Sound(g) PROVE Manifest[dir[g]].id # Manifest[dir[f]].id
        <5>1. g \in Nat  BY LoadedIs, FileIsNat
        <5>2. g \notin todo  BY <4>2, <5>1, <1>0
        <5>3. g \in x.listed \ todo  BY <5>2
        <5>. QED  BY <3>2, <4>2, <5>3, <2>3 DEF AsOfOK
      <4>. QED  BY <2>0, <4>1, <4>2 DEF Wins
    <3>. QED  BY <1>2, <2>3, <3>1, <3>2, TakenOK
  <2>. QED  BY <2>2, <2>3
<1>. QED  BY <1>0, <1>1, <1>2

-----------------------------------------------------------------------------
(* The registry: the invariant, step by step                               *)
-----------------------------------------------------------------------------

LEMMA TypesHold ==
  ASSUME RegistryIInv, [RegistryNext]_registryVars
  PROVE  RegistryTypeOK'
<1>. USE DEF RegistryIInv, RegistryTypeOK
<1>1. CASE UNCHANGED registryVars  BY <1>1 DEF registryVars
<1>2. ASSUME NEW l \in Loader, List(l) PROVE RegistryTypeOK'
  <2>1. PICK found \in SUBSET File :
          loader' = [loader EXCEPT ![l] =
              [todo  |-> found,
               fresh |-> [adapters |-> BuiltIns, errors |-> <<>>, listed |-> found, asOf |-> edits]]]
    BY <1>2 DEF List, Listings, Present
  <2>2. [adapters |-> BuiltIns, errors |-> <<>>, listed |-> found, asOf |-> edits] \in Loaded
    BY BuiltInsAre, EmptySeq DEF Loaded
  <2>. QED  BY <1>2, <2>1, <2>2 DEF List
<1>3. ASSUME NEW l \in Loader, ReadFile(l) PROVE RegistryTypeOK'
  <2>. DEFINE todo == loader[l].todo
              f == Min(todo)
  <2>1. todo \in SUBSET File /\ todo # {} /\ todo \in SUBSET Nat  BY <1>3, FileIsNat DEF ReadFile
  <2>2. f \in todo /\ \A g \in todo : f <= g  BY <2>1, MinIsLeast
  <2>3. loader[l] # Idle  BY <2>1 DEF Idle
  <2>4. LoadFile(loader[l].fresh, f) \in Loaded
    BY <2>1, <2>2, <2>3, LoadFileOK DEF LoadsOK
  <2>5. loader' = [loader EXCEPT ![l] = [todo |-> todo \ {f}, fresh |-> LoadFile(loader[l].fresh, f)]]
    BY <1>3 DEF ReadFile
  <2>. HIDE DEF f, todo
  <2>. QED  BY <1>3, <2>1, <2>4, <2>5 DEF ReadFile
<1>4. ASSUME NEW l \in Loader, Swap(l) PROVE RegistryTypeOK'
  BY <1>4 DEF Swap, Idle
<1>5. ASSUME NEW t \in Task, Create(t) PROVE RegistryTypeOK'
  BY <1>5 DEF Create
<1>6. ASSUME NEW t \in Task, Begin(t) PROVE RegistryTypeOK'
  BY <1>6 DEF Begin
<1>7. CASE Probe \/ Unavailable  BY <1>7 DEF Probe, Unavailable
<1>8. CASE Launch
  <2>1. PICK e \in Called(start.task.adapter) :
          launched' = [task |-> start.task, entry |-> e, blob |-> start.blob,
                       argv |-> LaunchCommand(Manifest[e.text],
                                  ValuesFor(start.blob, start.task.adapter), start.task)]
    BY <1>8 DEF Launch
  <2>2. registry \in Loaded  BY <1>8 DEF Launch
  <2>3. e \in Entry  BY <2>2, LoadedIs DEF Called, ToSet
  <2>4. start \in [task : tasks, blob : Blob, found : BOOLEAN]  BY <1>8 DEF Launch
  <2>5. launched'.task \in tasks /\ launched'.entry \in Entry /\ launched'.blob \in Blob
    BY <2>1, <2>3, <2>4
  <2>. QED  BY <1>8, <2>5 DEF Launch
<1>9. ASSUME NEW b \in Blob, SaveSettings(b) PROVE RegistryTypeOK'
  BY <1>9 DEF SaveSettings
<1>10. ASSUME NEW f \in File, NEW text \in Text \cup {Absent, Unreadable}, Edit(f, text)
       PROVE  RegistryTypeOK'
  BY <1>10, FilesAssumption DEF Edit
<1>11. CASE DaemonEnds  BY <1>11 DEF DaemonEnds, Idle
<1>. QED  BY <1>1, <1>2, <1>3, <1>4, <1>5, <1>6, <1>7, <1>8, <1>9, <1>10, <1>11 DEF RegistryNext

(* What a load says stays true of the directory while nobody edits it; an  *)
(* edit makes it one of before.                                            *)
LEMMA NobodyEdits ==
  ASSUME NEW x, NEW todo, AsOfOK(x, todo), UNCHANGED <<dir, edits>>
  PROVE  AsOfOK(x, todo)'
BY DEF AsOfOK, AsWritten, Present, Wins, Sound, Served, Failed, FromFile, Origin, Id

LEMMA SomebodyEdits ==
  ASSUME NEW x \in Loaded, NEW todo, AsOfOK(x, todo), edits \in Nat, edits' = edits + 1
  PROVE  AsOfOK(x, todo)'
<1>1. x.asOf \in Nat /\ x.asOf <= edits  BY FilesAssumption DEF Loaded, AsOfOK
<1>2. x.asOf <= edits' /\ x.asOf # edits'  BY <1>1
<1>. QED  BY <1>2 DEF AsOfOK

(* The registry and the loads, when no load takes a step.                  *)
LEMMA OthersLeaveLoads ==
  ASSUME RegistryIInv, UNCHANGED <<registry, loader>>,
         UNCHANGED <<dir, edits>> \/ edits' = edits + 1
  PROVE  LoadsOK'
<1>. USE DEF RegistryIInv, RegistryTypeOK
<1>0. edits \in Nat  BY FilesAssumption
<1>1. ASSUME registry # NoRegistry PROVE LoadOK(registry, {}) /\ AsOfOK(registry, {})'
  <2>1. registry \in Loaded /\ LoadOK(registry, {}) /\ AsOfOK(registry, {})  BY <1>1 DEF LoadsOK
  <2>. QED  BY <2>1, <1>0, NobodyEdits, SomebodyEdits
<1>2. ASSUME NEW l \in Loader, loader[l] # Idle
      PROVE  /\ loader[l].fresh \in Loaded
             /\ LoadOK(loader[l].fresh, loader[l].todo)
             /\ AsOfOK(loader[l].fresh, loader[l].todo)'
  <2>. DEFINE x == loader[l].fresh
              todo == loader[l].todo
  <2>1. x \in Loaded /\ LoadOK(x, todo) /\ AsOfOK(x, todo)  BY <1>2 DEF LoadsOK
  <2>. QED  BY <2>1, <1>0, NobodyEdits, SomebodyEdits
<1>. QED  BY <1>1, <1>2 DEF LoadsOK

LEMMA LoadsHold ==
  ASSUME RegistryIInv, [RegistryNext]_registryVars
  PROVE  LoadsOK'
<1>. USE DEF RegistryIInv, RegistryTypeOK
<1>1. CASE UNCHANGED registryVars  BY <1>1, OthersLeaveLoads DEF registryVars
<1>2. ASSUME NEW l \in Loader, NEW x \in Loaded, NEW todo \in SUBSET File,
             LoadOK(x, todo), AsOfOK(x, todo), UNCHANGED <<dir, edits, registry>>,
             loader' = [loader EXCEPT ![l] = [todo |-> todo, fresh |-> x]]
      PROVE  LoadsOK'
  <2>1. ASSUME registry' # NoRegistry PROVE LoadOK(registry', {}) /\ AsOfOK(registry, {})'
    <3>1. registry' = registry  BY <1>2
    <3>2. LoadOK(registry, {}) /\ AsOfOK(registry, {})  BY <2>1, <3>1 DEF LoadsOK
    <3>. QED  BY <3>1, <3>2, <1>2, NobodyEdits
  <2>2. ASSUME NEW k \in Loader, loader'[k] # Idle
        PROVE  /\ loader'[k].fresh \in Loaded
               /\ LoadOK(loader'[k].fresh, loader'[k].todo)
               /\ AsOfOK(loader[k].fresh, loader[k].todo)'
    <3>1. CASE k = l
      <4>1. loader'[k].fresh = x /\ loader'[k].todo = todo  BY <3>1, <1>2
      <4>2. AsOfOK(x, todo)'  BY <1>2, NobodyEdits
      <4>. QED  BY <4>1, <4>2, <1>2
    <3>2. CASE k # l
      <4>1. loader'[k] = loader[k]  BY <3>2, <1>2
      <4>2. /\ loader[k].fresh \in Loaded
            /\ LoadOK(loader[k].fresh, loader[k].todo)
            /\ AsOfOK(loader[k].fresh, loader[k].todo)
        BY <4>1, <2>2 DEF LoadsOK
      <4>. QED  BY <4>1, <4>2, <1>2, NobodyEdits
    <3>. QED  BY <3>1, <3>2
  <2>. QED  BY <2>1, <2>2 DEF LoadsOK
<1>3. ASSUME NEW l \in Loader, List(l) PROVE LoadsOK'
  <2>0. PICK files \in SUBSET File :
          /\ files \subseteq Present
          /\ loader' = [loader EXCEPT ![l] =
                 [todo  |-> files,
                  fresh |-> [adapters |-> BuiltIns, errors |-> <<>>, listed |-> files, asOf |-> edits]]]
    BY <1>3 DEF List, Listings, Present
  <2>1. PICK x : x = [adapters |-> BuiltIns, errors |-> <<>>, listed |-> files, asOf |-> edits]
    OBVIOUS
  <2>2. x \in Loaded  BY <2>0, <2>1, BuiltInsAre, EmptySeq DEF Loaded
  <2>3. x.adapters = BuiltIns /\ x.errors = <<>> /\ x.listed = files /\ x.asOf = edits  BY <2>1
  <2>4. loader' = [loader EXCEPT ![l] = [todo |-> files, fresh |-> x]] /\ UNCHANGED <<dir, edits, registry>>
    BY <1>3, <2>0, <2>1 DEF List
  <2>5. DOMAIN x.adapters = DOMAIN BuiltIn /\ DOMAIN x.errors = {}
    <3>1. Len(x.errors) = 0  BY <2>3
    <3>. QED  BY <3>1, <2>2, <2>3, BuiltInsAre, LoadedIs
  <2>6. FromFile(x) = {}  BY <2>5 DEF FromFile
  <2>7. Served(x) = {} /\ Failed(x) = {}  BY <2>5, <2>6 DEF Served, Failed
  <2>8. \A i \in DOMAIN BuiltIn : x.adapters[i].text = BuiltIn[i]  BY <2>3 DEF BuiltIns
  <2>9. LoadOK(x, files)
    <3>1. BuiltInsFirst(x)  BY <2>3, <2>5 DEF BuiltInsFirst
    <3>2. OneId(x)  BY <2>5, <2>8, BuiltInAssumption DEF OneId, Id
    <3>3. InOrder(x)  BY <2>6 DEF InOrder
    <3>4. \A i \in DOMAIN x.adapters : Parses(Manifest[x.adapters[i].text])
      BY <2>5, <2>8, BuiltInAssumption
    <3>. QED  BY <2>3, <2>5, <2>7, <3>1, <3>2, <3>3, <3>4 DEF LoadOK
  <2>10. edits \in Nat  BY FilesAssumption
  <2>11. AsOfOK(x, files)
    BY <2>0, <2>3, <2>5, <2>6, <2>7, <2>10 DEF AsOfOK, AsWritten
  <2>. QED  BY <2>2, <2>4, <2>9, <2>11, <1>2
<1>4. ASSUME NEW l \in Loader, ReadFile(l) PROVE LoadsOK'
  <2>1. PICK todo \in SUBSET File : todo = loader[l].todo  OBVIOUS
  <2>2. PICK x : x = loader[l].fresh  OBVIOUS
  <2>3. todo # {} /\ todo \in SUBSET Nat  BY <1>4, <2>1, FileIsNat DEF ReadFile
  <2>4. PICK f \in todo : f = Min(todo) /\ \A g \in todo : f <= g  BY <2>3, MinIsLeast
  <2>5. loader[l] # Idle  BY <2>1, <2>3 DEF Idle
  <2>6. x \in Loaded /\ LoadOK(x, todo) /\ AsOfOK(x, todo)  BY <2>1, <2>2, <2>5 DEF LoadsOK
  <2>7. PICK y : y = LoadFile(x, f)  OBVIOUS
  <2>8. y \in Loaded /\ LoadOK(y, todo \ {f}) /\ AsOfOK(y, todo \ {f})
    BY <2>4, <2>6, <2>7, LoadFileOK
  <2>9. loader' = [loader EXCEPT ![l] = [todo |-> todo \ {f}, fresh |-> y]] /\ UNCHANGED <<dir, edits, registry>>
    BY <1>4, <2>1, <2>2, <2>4, <2>7 DEF ReadFile
  <2>10. todo \ {f} \in SUBSET File  OBVIOUS
  <2>. QED  BY <2>8, <2>9, <2>10, <1>2
<1>5. ASSUME NEW l \in Loader, Swap(l) PROVE LoadsOK'
  <2>1. PICK x : x = loader[l].fresh  OBVIOUS
  <2>2. x \in Loaded /\ LoadOK(x, {}) /\ AsOfOK(x, {})  BY <1>5, <2>1 DEF Swap, LoadsOK
  <2>3. registry' = x /\ UNCHANGED <<dir, edits>> /\ loader' = [loader EXCEPT ![l] = Idle]
    BY <1>5, <2>1 DEF Swap
  <2>4. AsOfOK(x, {})'  BY <2>2, <2>3, NobodyEdits
  <2>5. LoadOK(registry', {}) /\ AsOfOK(registry, {})'  BY <2>2, <2>3, <2>4
  <2>6. ASSUME NEW k \in Loader, loader'[k] # Idle
        PROVE  /\ loader'[k].fresh \in Loaded
               /\ LoadOK(loader'[k].fresh, loader'[k].todo)
               /\ AsOfOK(loader[k].fresh, loader[k].todo)'
    <3>1. loader'[k] = loader[k]  BY <2>3, <2>6
    <3>2. /\ loader[k].fresh \in Loaded
          /\ LoadOK(loader[k].fresh, loader[k].todo)
          /\ AsOfOK(loader[k].fresh, loader[k].todo)
      BY <3>1, <2>6 DEF LoadsOK
    <3>. QED  BY <3>1, <3>2, <2>3, NobodyEdits
  <2>. QED  BY <2>5, <2>6 DEF LoadsOK
<1>6. CASE \E t \in Task : Create(t) \/ Begin(t)  BY <1>6, OthersLeaveLoads DEF Create, Begin
<1>7. CASE Probe \/ Unavailable \/ Launch  BY <1>7, OthersLeaveLoads DEF Probe, Unavailable, Launch
<1>8. CASE \E b \in Blob : SaveSettings(b)  BY <1>8, OthersLeaveLoads DEF SaveSettings
<1>9. CASE \E f \in File, text \in Text \cup {Absent, Unreadable} : Edit(f, text)
  BY <1>9, OthersLeaveLoads DEF Edit
<1>10. CASE DaemonEnds  BY <1>10 DEF DaemonEnds, LoadsOK
<1>. QED  BY <1>1, <1>3, <1>4, <1>5, <1>6, <1>7, <1>8, <1>9, <1>10 DEF RegistryNext

(* What is launched is an adapter of the registry: the built-in, where the *)
(* id is one of theirs.                                                    *)
LEMMA LaunchesHold ==
  ASSUME RegistryIInv, [RegistryNext]_registryVars
  PROVE  LaunchOK'
<1>. USE DEF RegistryIInv
<1>1. CASE UNCHANGED <<blob, start, launched>>
  BY <1>1 DEF LaunchOK
<1>2. ASSUME NEW t \in Task, Begin(t) PROVE LaunchOK'
  BY <1>2 DEF Begin, LaunchOK
<1>21. CASE Probe
  <2>1. /\ start # NoStart /\ start' = [start EXCEPT !.found = TRUE]
        /\ UNCHANGED <<blob, launched>>
    BY <1>21 DEF Probe
  <2>2. start \in [task : tasks, blob : Blob, found : BOOLEAN]  BY <2>1 DEF RegistryTypeOK
  <2>3. start'.blob = start.blob  BY <2>1, <2>2
  <2>. QED  BY <2>1, <2>3 DEF LaunchOK, WellFormed
<1>3. CASE Unavailable  BY <1>3 DEF Unavailable, LaunchOK
<1>4. CASE Launch
  <2>1. PICK e \in Called(start.task.adapter) :
          launched' = [task |-> start.task, entry |-> e, blob |-> start.blob,
                       argv |-> LaunchCommand(Manifest[e.text],
                                  ValuesFor(start.blob, start.task.adapter), start.task)]
    BY <1>4 DEF Launch
  <2>2. registry # NoRegistry /\ registry \in Loaded /\ LoadOK(registry, {})
    BY <1>4 DEF Launch, LoadsOK, RegistryTypeOK
  <2>3. PICK i \in DOMAIN registry.adapters : registry.adapters[i] = e  BY <2>1 DEF Called, ToSet
  <2>4. Manifest[e.text].id = start.task.adapter  BY <2>1 DEF Called, Id
  <2>5. Parses(Manifest[e.text])  BY <2>2, <2>3 DEF LoadOK
  <2>6. ASSUME NEW b \in ToSet(BuiltIn), Manifest[b].id = start.task.adapter
        PROVE  e \in ToSet(BuiltIns)
    <3>1. PICK j \in DOMAIN BuiltIn : BuiltIn[j] = b  BY DEF ToSet
    <3>2. BuiltInsFirst(registry) /\ OneId(registry)  BY <2>2 DEF LoadOK
    <3>3. j \in DOMAIN registry.adapters /\ registry.adapters[j] = BuiltIns[j]  BY <3>2 DEF BuiltInsFirst
    <3>4. BuiltIns[j].text = b  BY <3>1 DEF BuiltIns
    <3>5. Id(registry.adapters[j]) = Id(registry.adapters[i])
      BY <2>3, <2>4, <2>6, <3>3, <3>4 DEF Id
    <3>6. i = j  BY <3>2, <3>3, <3>5 DEF OneId
    <3>7. e = BuiltIns[j] /\ j \in DOMAIN BuiltIns  BY <2>3, <3>3, <3>6 DEF BuiltIns
    <3>. QED  BY <3>7 DEF ToSet
  <2>7. WellFormed(blob) /\ WellFormed(start.blob)  BY <1>4 DEF LaunchOK, Launch
  <2>8. blob' = blob /\ start' = NoStart  BY <1>4 DEF Launch
  <2>9. /\ launched'.task = start.task /\ launched'.entry = e /\ launched'.blob = start.blob
        /\ launched'.argv = LaunchCommand(Manifest[e.text],
                              ValuesFor(start.blob, start.task.adapter), start.task)
    BY <2>1
  <2>. QED  BY <2>4, <2>5, <2>6, <2>7, <2>8, <2>9 DEF LaunchOK, WellFormed
<1>5. ASSUME NEW b \in Blob, SaveSettings(b) PROVE LaunchOK'
  BY <1>5 DEF SaveSettings, LaunchOK, WellFormed
<1>6. CASE DaemonEnds  BY <1>6 DEF DaemonEnds, LaunchOK
<1>7. CASE \E l \in Loader : List(l) \/ ReadFile(l) \/ Swap(l)
  BY <1>7, <1>1 DEF List, ReadFile, Swap
<1>8. CASE \E t \in Task : Create(t)  BY <1>8, <1>1 DEF Create
<1>9. CASE \E f \in File, text \in Text \cup {Absent, Unreadable} : Edit(f, text)
  BY <1>9, <1>1 DEF Edit
<1>10. CASE UNCHANGED registryVars  BY <1>10, <1>1 DEF registryVars
<1>. QED  BY <1>2, <1>21, <1>3, <1>4, <1>5, <1>6, <1>7, <1>8, <1>9, <1>10 DEF RegistryNext

LEMMA RegistryInitOK == RegistryInit => RegistryIInv
<1>. SUFFICES ASSUME RegistryInit PROVE RegistryIInv  OBVIOUS
<1>1. RegistryTypeOK
  BY FilesAssumption, BlobAssumption DEF RegistryInit, RegistryTypeOK, Idle
<1>2. LoadsOK  BY DEF RegistryInit, LoadsOK
<1>3. LaunchOK  BY DEF RegistryInit, LaunchOK, WellFormed
<1>. QED  BY <1>1, <1>2, <1>3 DEF RegistryIInv

LEMMA RegistryInvariant == RegistrySpec => []RegistryIInv
<1>1. RegistryIInv /\ [RegistryNext]_registryVars => RegistryIInv'
  BY TypesHold, LoadsHold, LaunchesHold DEF RegistryIInv
<1>. QED  BY <1>1, RegistryInitOK, PTL DEF RegistrySpec

(* The registry, the loads under way, the tasks, the settings and the      *)
(* starts are of their types, in every reachable state.                    *)
THEOREM RegistryTypeCorrect == RegistrySpec => []RegistryTypeOK
BY RegistryInvariant, PTL DEF RegistryIInv

(* Nothing a load listed is passed over in silence, whatever is edited     *)
(* while it reads: every file is an adapter or an error, once, and neither *)
(* a built-in nor an earlier file loses its id to a later one (load_dir).  *)
THEOREM NothingHidden == RegistrySpec => []NothingIsHidden
<1>1. RegistryIInv => NothingIsHidden
  <2>. SUFFICES ASSUME RegistryIInv, registry # NoRegistry
                PROVE  /\ BuiltInsFirst(registry)
                       /\ Served(registry) \cup Failed(registry) = registry.listed
                       /\ EachOnce(registry)
                       /\ OneId(registry)
    BY DEF NothingIsHidden
  <2>1. registry \in Loaded /\ LoadOK(registry, {})
    BY DEF RegistryIInv, RegistryTypeOK, LoadsOK
  <2>2. ASSUME NEW i \in FromFile(registry), NEW j \in FromFile(registry),
               Origin(registry, i) = Origin(registry, j)
        PROVE  i = j
    <3>1. i \in Nat /\ j \in Nat  BY <2>1, LoadedIs
    <3>2. Origin(registry, i) \in Int /\ Origin(registry, j) \in Int
      BY <2>1, LoadedIs, FilesAssumption
    <3>3. ~(i < j) /\ ~(j < i)  BY <2>1, <2>2, <3>2 DEF LoadOK, InOrder
    <3>. QED  BY <3>1, <3>3
  <2>3. ASSUME NEW i \in DOMAIN registry.errors, NEW j \in DOMAIN registry.errors,
               registry.errors[i].source = registry.errors[j].source
        PROVE  i = j
    <3>1. i \in Nat /\ j \in Nat  BY <2>1, LoadedIs
    <3>0. registry.errors[i].source \in File /\ registry.errors[j].source \in File
      BY <2>1, LoadedIs
    <3>2. registry.errors[i].source \in Int /\ registry.errors[j].source \in Int
      BY <3>0, FilesAssumption DEF File
    <3>3. ~(i < j) /\ ~(j < i)  BY <2>1, <2>3, <3>2 DEF LoadOK
    <3>. QED  BY <3>1, <3>3
  <2>4. EachOnce(registry)  BY <2>1, <2>2, <2>3 DEF EachOnce, LoadOK
  <2>. QED  BY <2>1, <2>4 DEF LoadOK
<1>. QED  BY <1>1, RegistryInvariant, PTL

(* A registry whose directory was not edited since it was listed is what   *)
(* the listed files say, whatever loads overlapped and were swapped        *)
(* before: the first sound file by name serves an id, every other listed   *)
(* one is an error, and what the listing left out is neither (load_dir).   *)
THEOREM RegistryShowsDirectory == RegistrySpec => []RegistryIsDirectory
<1>1. RegistryIInv => RegistryIsDirectory
  <2>. SUFFICES ASSUME RegistryIInv, registry # NoRegistry, registry.asOf = edits
                PROVE  /\ BuiltInsFirst(registry) /\ InOrder(registry) /\ AsWritten(registry)
                       /\ registry.listed \subseteq Present
                       /\ Served(registry) = {f \in registry.listed : Wins(f, registry.listed)}
                       /\ Failed(registry) = registry.listed \ Served(registry)
    BY DEF RegistryIsDirectory
  <2>1. registry \in Loaded /\ LoadOK(registry, {}) /\ AsOfOK(registry, {})
    BY DEF RegistryIInv, RegistryTypeOK, LoadsOK
  <2>2. /\ registry.listed \subseteq Present /\ AsWritten(registry)
        /\ \A f \in registry.listed : f \in Served(registry) <=> Wins(f, registry.listed)
    BY <2>1 DEF AsOfOK
  <2>3. /\ Served(registry) \cup Failed(registry) = registry.listed
        /\ Served(registry) \cap Failed(registry) = {}
        /\ BuiltInsFirst(registry) /\ InOrder(registry)
    BY <2>1 DEF LoadOK
  <2>4. Served(registry) = {f \in registry.listed : Wins(f, registry.listed)}  BY <2>2, <2>3
  <2>. QED  BY <2>2, <2>3, <2>4
<1>. QED  BY <1>1, RegistryInvariant, PTL

-----------------------------------------------------------------------------
(* The command line: what a loop gathers                                  *)
-----------------------------------------------------------------------------

(* What holds at the end, and at a place when it holds at the next, holds  *)
(* at the first.                                                           *)
LEMMA Downwards ==
  ASSUME NEW n \in Nat, NEW K \in SUBSET (1 .. n), n \in K, \A k \in K : k > 1 => k - 1 \in K
  PROVE  1 \in K
<1>1. K \in SUBSET Nat /\ K # {}  OBVIOUS
<1>2. Min(K) \in K /\ \A y \in K : Min(K) <= y  BY <1>1, MinIsLeast
<1>3. PICK k \in K : \A y \in K : k <= y  BY <1>2
<1>4. k \in Nat /\ k >= 1  OBVIOUS
<1>5. ~(k > 1)
  <2>. SUFFICES ASSUME k > 1 PROVE FALSE  OBVIOUS
  <2>1. k - 1 \in K  OBVIOUS
  <2>2. k <= k - 1  BY <1>3, <2>1
  <2>. QED  BY <1>4, <2>2
<1>. QED  BY <1>4, <1>5

(* What holds at the start, and at a place when it holds before, holds at  *)
(* the last.                                                               *)
LEMMA Upwards ==
  ASSUME NEW m \in Int, NEW n \in Int, m <= n, NEW K \in SUBSET (m .. n),
         m \in K, \A k \in K : k < n => k + 1 \in K
  PROVE  n \in K
<1>1. SUFFICES ASSUME n \notin K PROVE FALSE  OBVIOUS
<1>. DEFINE T == {j \in Nat : j <= n - m /\ m + j \notin K}
<1>2. n - m \in T  BY <1>1
<1>3. T \in SUBSET Nat /\ T # {}  BY <1>2
<1>4. PICK j \in T : \A y \in T : j <= y  BY <1>3, MinIsLeast
<1>5. j \in Nat /\ j <= n - m /\ m + j \notin K  OBVIOUS
<1>6. j # 0  BY <1>5
<1>7. j - 1 \in Nat /\ j - 1 <= n - m /\ j - 1 \notin T  BY <1>4, <1>5, <1>6
<1>8. m + (j - 1) \in K  BY <1>7
<1>9. m + (j - 1) + 1 \in K  BY <1>5, <1>8
<1>. QED  BY <1>5, <1>9

(* A loop that goes forward is at the end at last: what it gathers is      *)
(* defined, and is what is added where it is and what it gathers from      *)
(* there on.                                                               *)
Loops(S, adds, goesOn, n) ==
  adds \in Seq(Seq(S)) /\ Len(adds) = n /\ \A i \in 1 .. n : goesOn[i] \in i + 1 .. n + 1
Gathers(S, g, adds, goesOn, n) ==
  /\ g \in [1 .. n + 1 -> Seq(S)]
  /\ g[n + 1] = <<>> /\ \A i \in 1 .. n : g[i] = adds[i] \o g[goesOn[i]]
LEMMA GatheredFrom ==
  ASSUME NEW S, NEW n \in Nat, NEW adds, NEW goesOn, Loops(S, adds, goesOn, n)
  PROVE  \E g : Gathers(S, g, adds, goesOn, n) /\ Gather(adds, goesOn) = g[1]
<1>0. n = Len(adds)  BY DEF Loops
<1>1. DOMAIN adds = 1 .. n /\ \A i \in 1 .. n : adds[i] \in Seq(S)  BY <1>0, LenProperties DEF Loops
<1>2. \A i \in 1 .. n : goesOn[i] \in Nat /\ i < goesOn[i] /\ goesOn[i] <= n + 1  BY DEF Loops
<1>. DEFINE OK(k, g) == g[n + 1] = <<>> /\ \A i \in k .. n : g[i] = adds[i] \o g[goesOn[i]]
            K == {k \in 1 .. n + 1 : \E g \in [k .. n + 1 -> Seq(S)] : OK(k, g)}
<1>3. n + 1 \in K
  <2>. DEFINE g == [i \in n + 1 .. n + 1 |-> <<>>]
  <2>1. g \in [n + 1 .. n + 1 -> Seq(S)] /\ g[n + 1] = <<>>  BY EmptySeq
  <2>2. \A i \in n + 1 .. n : FALSE  OBVIOUS
  <2>3. n + 1 \in 1 .. n + 1  OBVIOUS
  <2>. HIDE DEF g
  <2>4. OK(n + 1, g)  BY <2>1, <2>2
  <2>. QED  BY <2>1, <2>3, <2>4
<1>4. ASSUME NEW k \in K, k > 1 PROVE k - 1 \in K
  <2>1. PICK g \in [k .. n + 1 -> Seq(S)] : OK(k, g)  OBVIOUS
  <2>. DEFINE p == k - 1
              h == [i \in p .. n + 1 |-> IF i = p THEN adds[p] \o g[goesOn[p]] ELSE g[i]]
  <2>2. k \in Nat /\ p \in 1 .. n /\ k = p + 1 /\ p \in Nat  BY <1>4
  <2>3. goesOn[p] \in k .. n + 1 /\ goesOn[p] # p  BY <1>2, <2>2
  <2>4. adds[p] \o g[goesOn[p]] \in Seq(S)
    <3>1. adds[p] \in Seq(S) /\ g[goesOn[p]] \in Seq(S)  BY <1>1, <2>2, <2>3
    <3>. QED  BY <3>1, ConcatProperties
  <2>5. \A i \in p .. n + 1 : i = p \/ i \in k .. n + 1  BY <2>2
  <2>6. h \in [p .. n + 1 -> Seq(S)]  BY <2>4, <2>5
  <2>7. h[p] = adds[p] \o g[goesOn[p]] /\ \A i \in k .. n + 1 : h[i] = g[i]
    <3>1. p \in p .. n + 1 /\ \A i \in k .. n + 1 : i \in p .. n + 1 /\ i # p  BY <2>2
    <3>. HIDE DEF p
    <3>. QED  BY <3>1
  <2>. HIDE DEF h
  <2>8. h[n + 1] = <<>>  BY <2>1, <2>2, <2>7
  <2>9. ASSUME NEW i \in p .. n PROVE h[i] = adds[i] \o h[goesOn[i]]
    <3>1. CASE i = p  BY <3>1, <2>3, <2>7
    <3>2. CASE i \in k .. n
      <4>1. i \in 1 .. n /\ i \in k .. n + 1  BY <3>2, <2>2
      <4>2. goesOn[i] \in k .. n + 1  BY <1>2, <4>1, <2>2
      <4>3. g[i] = adds[i] \o g[goesOn[i]]  BY <2>1, <3>2
      <4>. QED  BY <4>1, <4>2, <4>3, <2>7
    <3>3. i = p \/ i \in k .. n  BY <2>2
    <3>. QED  BY <3>1, <3>2, <3>3
  <2>10. p \in 1 .. n + 1  BY <2>2
  <2>. QED  BY <2>6, <2>8, <2>9, <2>10
<1>5. 1 \in K
  <2>. HIDE DEF K
  <2>1. K \in SUBSET (1 .. n + 1)  BY DEF K
  <2>. QED  BY <1>3, <1>4, <2>1, Downwards
<1>6. PICK g \in [1 .. n + 1 -> Seq(S)] : OK(1, g)  BY <1>5
<1>. DEFINE gathered[i \in 1 .. Len(adds) + 1] ==
              IF i \in DOMAIN adds THEN adds[i] \o gathered[goesOn[i]] ELSE <<>>
            Is(f) == f = [i \in 1 .. n + 1 |->
                            IF i \in DOMAIN adds THEN adds[i] \o f[goesOn[i]] ELSE <<>>]
<1>7. Is(g)
  <2>1. \A i \in 1 .. n + 1 : i \in 1 .. n \/ i = n + 1  OBVIOUS
  <2>2. n + 1 \notin 1 .. n  OBVIOUS
  <2>3. \A i \in 1 .. n + 1 : g[i] = IF i \in DOMAIN adds THEN adds[i] \o g[goesOn[i]] ELSE <<>>
    BY <1>1, <1>6, <2>1, <2>2
  <2>. QED  BY <2>3
<1>8. Is(gathered)
  <2>1. gathered = CHOOSE f : Is(f)  BY <1>0
  <2>. HIDE DEF gathered, Is
  <2>. QED  BY <1>7, <2>1
<1>9. Gather(adds, goesOn) = gathered[1]  BY DEF Gather
<1>. HIDE DEF gathered, Is
<1>10. PICK f : f = gathered  OBVIOUS
<1>11. Is(f) /\ Gather(adds, goesOn) = f[1]  BY <1>8, <1>9, <1>10
<1>12. /\ f = [i \in 1 .. n + 1 |-> f[i]]
       /\ f[n + 1] = <<>> /\ \A i \in 1 .. n : f[i] = adds[i] \o f[goesOn[i]]
  <2>. DEFINE e(i) == IF i \in DOMAIN adds THEN adds[i] \o f[goesOn[i]] ELSE <<>>
  <2>1. f = [i \in 1 .. n + 1 |-> e(i)]  BY <1>11 DEF Is
  <2>2. n + 1 \in 1 .. n + 1 /\ n + 1 \notin DOMAIN adds  BY <1>1
  <2>3. \A i \in 1 .. n : i \in 1 .. n + 1 /\ i \in DOMAIN adds  BY <1>1
  <2>4. e(n + 1) = <<>> /\ \A i \in 1 .. n : e(i) = adds[i] \o f[goesOn[i]]  BY <2>2, <2>3
  <2>. HIDE DEF e
  <2>5. \A i \in 1 .. n + 1 : f[i] = e(i)  BY <2>1
  <2>. QED  BY <2>1, <2>2, <2>3, <2>4, <2>5
<1>13. \A i \in 1 .. n + 1 : f[i] \in Seq(S)
  <2>. DEFINE T == {k \in 1 .. n + 1 : \A i \in k .. n + 1 : f[i] \in Seq(S)}
  <2>1. n + 1 \in T
    <3>1. n + 1 \in 1 .. n + 1 /\ \A i \in n + 1 .. n + 1 : i = n + 1  OBVIOUS
    <3>2. f[n + 1] \in Seq(S)  BY <1>12, EmptySeq
    <3>. QED  BY <3>1, <3>2
  <2>2. ASSUME NEW k \in T, k > 1 PROVE k - 1 \in T
    <3>. DEFINE p == k - 1
    <3>1. p \in 1 .. n /\ k = p + 1 /\ p \in Nat  BY <2>2
    <3>2. goesOn[p] \in k .. n + 1  BY <1>2, <3>1
    <3>3. f[goesOn[p]] \in Seq(S) /\ adds[p] \in Seq(S)  BY <1>1, <3>1, <3>2
    <3>4. f[p] = adds[p] \o f[goesOn[p]]  BY <1>12, <3>1
    <3>6. f[p] \in Seq(S)  BY <3>3, <3>4, ConcatProperties
    <3>5. \A i \in p .. n + 1 : i = p \/ i \in k .. n + 1  BY <3>1
    <3>. QED  BY <3>1, <3>5, <3>6
  <2>3. 1 \in T
    <3>1. T \in SUBSET (1 .. n + 1) /\ n + 1 \in Nat  OBVIOUS
    <3>. HIDE DEF T
    <3>. QED  BY <2>1, <2>2, <3>1, Downwards
  <2>. QED  BY <2>3
<1>14. f \in [1 .. n + 1 -> Seq(S)]  BY <1>12, <1>13
<1>. QED  BY <1>11, <1>12, <1>14 DEF Gathers

(* Flattening a sequence of sequences, front by front.                     *)
Flattens(f, seqs, n) == f[0] = <<>> /\ \A i \in 1 .. n : f[i] = f[i - 1] \o seqs[i]
LEMMA FlattenNone ==
  ASSUME NEW seqs, NEW n, n = Len(seqs), n = 0
  PROVE  FlattenSeq(seqs) = seqs
BY DEF FlattenSeq

LEMMA FlattenSome ==
  ASSUME NEW seqs, NEW n, n = Len(seqs), n # 0
  PROVE  \E f : /\ FlattenSeq(seqs) = f[n]
                /\ f = CHOOSE h : h = [i \in 1 .. n |-> IF i = 1 THEN seqs[i] ELSE h[i - 1] \o seqs[i]]
BY DEF FlattenSeq

LEMMA Flattened ==
  ASSUME NEW S, NEW n \in Nat, NEW seqs \in Seq(Seq(S)), Len(seqs) = n
  PROVE  \E f \in [0 .. n -> Seq(S)] : Flattens(f, seqs, n) /\ FlattenSeq(seqs) = f[n]
<1>0. n = Len(seqs)  OBVIOUS
<1>1. DOMAIN seqs = 1 .. n /\ \A i \in 1 .. n : seqs[i] \in Seq(S)  BY <1>0, LenProperties
<1>2. CASE n = 0
  <2>. DEFINE f == [i \in 0 .. 0 |-> <<>>]
  <2>1. f \in [0 .. 0 -> Seq(S)] /\ f[0] = <<>>  BY EmptySeq
  <2>2. seqs = <<>>  BY <1>0, <1>2, EmptySeq
  <2>3. FlattenSeq(seqs) = seqs  BY <1>0, <1>2, FlattenNone
  <2>4. \A i \in 1 .. 0 : FALSE  OBVIOUS
  <2>. HIDE DEF f
  <2>. QED  BY <1>2, <2>1, <2>2, <2>3, <2>4 DEF Flattens
<1>3. CASE n # 0
  <2>. DEFINE OK(k, f) == f[1] = seqs[1] /\ \A i \in 2 .. k : f[i] = f[i - 1] \o seqs[i]
              K == {k \in 1 .. n : \E f \in [1 .. k -> Seq(S)] : OK(k, f)}
  <2>1. 1 \in K
    <3>. DEFINE f == [i \in 1 .. 1 |-> seqs[1]]
    <3>1. 1 \in 1 .. n /\ 1 \in 1 .. 1 /\ \A i \in 2 .. 1 : FALSE  BY <1>3
    <3>2. f \in [1 .. 1 -> Seq(S)] /\ f[1] = seqs[1]  BY <1>1, <3>1
    <3>. HIDE DEF f
    <3>3. OK(1, f)  BY <3>1, <3>2
    <3>. QED  BY <3>1, <3>2, <3>3
  <2>2. ASSUME NEW k \in K, k < n PROVE k + 1 \in K
    <3>1. PICK f \in [1 .. k -> Seq(S)] : OK(k, f)  OBVIOUS
    <3>. DEFINE q == k + 1
                h == [i \in 1 .. q |-> IF i = q THEN f[k] \o seqs[q] ELSE f[i]]
    <3>2. k \in 1 .. k /\ k \in Nat /\ q \in 1 .. n /\ q # 1  BY <2>2
    <3>3. f[k] \o seqs[q] \in Seq(S)
      <4>1. f[k] \in Seq(S) /\ seqs[q] \in Seq(S)  BY <1>1, <3>2
      <4>. QED  BY <4>1, ConcatProperties
    <3>4. \A i \in 1 .. q : i = q \/ i \in 1 .. k  BY <3>2
    <3>5. h \in [1 .. q -> Seq(S)]  BY <3>3, <3>4
    <3>6. \A i \in 1 .. k : i \in 1 .. q /\ i # q  BY <3>2
    <3>7. q \in 1 .. q /\ 1 \in 1 .. k  BY <3>2
    <3>8. h[q] = f[k] \o seqs[q] /\ \A i \in 1 .. k : h[i] = f[i]  BY <3>6, <3>7
    <3>. HIDE DEF h
    <3>9. h[1] = seqs[1]  BY <3>1, <3>7, <3>8
    <3>10. ASSUME NEW i \in 2 .. q PROVE h[i] = h[i - 1] \o seqs[i]
      <4>1. CASE i = q
        <5>1. i - 1 = k  BY <4>1, <3>2
        <5>. QED  BY <4>1, <5>1, <3>2, <3>8
      <4>2. CASE i \in 2 .. k
        <5>1. i \in 1 .. k /\ i - 1 \in 1 .. k  BY <4>2, <3>2
        <5>. QED  BY <4>2, <5>1, <3>1, <3>8
      <4>3. i = q \/ i \in 2 .. k  BY <3>2
      <4>. QED  BY <4>1, <4>2, <4>3
    <3>. QED  BY <3>2, <3>5, <3>9, <3>10
  <2>3. n \in K
    <3>1. K \in SUBSET (1 .. n)  OBVIOUS
    <3>. HIDE DEF K
    <3>2. 1 <= n /\ 1 \in Int /\ n \in Int  BY <1>3
    <3>. QED  BY <2>1, <2>2, <3>1, <3>2, Upwards
  <2>4. PICK g \in [1 .. n -> Seq(S)] : OK(n, g)  BY <2>3
  <2>. DEFINE Is(f) == f = [i \in 1 .. n |-> IF i = 1 THEN seqs[i] ELSE f[i - 1] \o seqs[i]]
  <2>5. Is(g)
    <3>1. \A i \in 1 .. n : i = 1 \/ i \in 2 .. n  OBVIOUS
    <3>2. \A i \in 1 .. n : g[i] = IF i = 1 THEN seqs[i] ELSE g[i - 1] \o seqs[i]
      BY <2>4, <3>1
    <3>. QED  BY <3>2
  <2>6. PICK f : FlattenSeq(seqs) = f[n] /\ f = CHOOSE h : Is(h)  BY <1>0, <1>3, FlattenSome
  <2>. HIDE DEF Is
  <2>9. Is(f) /\ FlattenSeq(seqs) = f[n]  BY <2>5, <2>6
  <2>10. f[1] = seqs[1] /\ \A i \in 2 .. n : f[i] = f[i - 1] \o seqs[i]
    <3>. DEFINE e(i) == IF i = 1 THEN seqs[i] ELSE f[i - 1] \o seqs[i]
    <3>1. f = [i \in 1 .. n |-> e(i)]  BY <2>9 DEF Is
    <3>2. 1 \in 1 .. n /\ \A i \in 2 .. n : i \in 1 .. n /\ i # 1  BY <1>3
    <3>3. e(1) = seqs[1] /\ \A i \in 2 .. n : e(i) = f[i - 1] \o seqs[i]  BY <3>2
    <3>. HIDE DEF e
    <3>4. \A i \in 1 .. n : f[i] = e(i)  BY <3>1
    <3>. QED  BY <3>2, <3>3, <3>4
  <2>11. \A i \in 1 .. n : f[i] \in Seq(S)
    <3>. SUFFICES ASSUME NEW i \in 1 .. n PROVE f[i] \in Seq(S)  OBVIOUS
    <3>. DEFINE T == {k \in 1 .. i : f[k] \in Seq(S)}
    <3>1. 1 \in T
      <4>1. 1 \in 1 .. i /\ 1 \in 1 .. n  OBVIOUS
      <4>. QED  BY <4>1, <1>1, <2>10
    <3>2. ASSUME NEW k \in T, k < i PROVE k + 1 \in T
      <4>1. k + 1 \in 1 .. i /\ k + 1 \in 2 .. n /\ k + 1 \in 1 .. n /\ (k + 1) - 1 = k  BY <3>2
      <4>2. f[k + 1] = f[k] \o seqs[k + 1]  BY <2>10, <4>1
      <4>3. f[k] \in Seq(S) /\ seqs[k + 1] \in Seq(S)  BY <1>1, <4>1
      <4>4. f[k + 1] \in Seq(S)  BY <4>2, <4>3, ConcatProperties
      <4>. QED  BY <4>1, <4>4
    <3>3. i \in T
      <4>1. T \in SUBSET (1 .. i) /\ 1 <= i /\ 1 \in Int /\ i \in Int  OBVIOUS
      <4>. HIDE DEF T
      <4>. QED  BY <3>1, <3>2, <4>1, Upwards
    <3>. QED  BY <3>3
  <2>. DEFINE h == [i \in 0 .. n |-> IF i = 0 THEN <<>> ELSE f[i]]
  <2>12. \A i \in 0 .. n : i = 0 \/ i \in 1 .. n  OBVIOUS
  <2>13. <<>> \in Seq(S)  BY EmptySeq
  <2>14. h \in [0 .. n -> Seq(S)]  BY <2>11, <2>12, <2>13
  <2>15. 0 \in 0 .. n /\ \A i \in 1 .. n : i \in 0 .. n /\ i # 0  OBVIOUS
  <2>16. h[0] = <<>> /\ \A i \in 1 .. n : h[i] = f[i]  BY <2>15
  <2>. HIDE DEF h
  <2>17. ASSUME NEW i \in 1 .. n PROVE h[i] = h[i - 1] \o seqs[i]
    <3>1. CASE i = 1
      <4>1. seqs[1] \in Seq(S) /\ i - 1 = 0  BY <3>1, <1>1
      <4>2. <<>> \o seqs[1] = seqs[1]  BY <4>1, ConcatEmptySeq
      <4>. QED  BY <3>1, <4>1, <4>2, <2>10, <2>16
    <3>2. CASE i \in 2 .. n
      <4>1. i - 1 \in 1 .. n  BY <3>2
      <4>. QED  BY <3>2, <4>1, <2>10, <2>16
    <3>3. i = 1 \/ i \in 2 .. n  OBVIOUS
    <3>. QED  BY <3>1, <3>2, <3>3
  <2>18. FlattenSeq(seqs) = h[n]
    <3>1. n \in 1 .. n  BY <1>3
    <3>. QED  BY <3>1, <2>9, <2>16
  <2>. QED  BY <2>14, <2>16, <2>17, <2>18 DEF Flattens
<1>. QED  BY <1>2, <1>3

(* A loop gathers what a flattening does, if between two of the places it  *)
(* stops at it adds what lies between them.                                *)
KeepsUp(S, f, adds, goesOn, Stops, n) ==
  /\ f \in [0 .. n -> Seq(S)] /\ f[0] = <<>>
  /\ Stops \in SUBSET (1 .. n + 1) /\ 1 \in Stops
  /\ \A i \in Stops : i <= n => goesOn[i] \in Stops /\ f[goesOn[i] - 1] = f[i - 1] \o adds[i]
LEMMA GatherFlattens ==
  ASSUME NEW S, NEW n \in Nat, NEW adds, NEW goesOn, NEW f, NEW Stops,
         Loops(S, adds, goesOn, n), KeepsUp(S, f, adds, goesOn, Stops, n)
  PROVE  Gather(adds, goesOn) = f[n]
<1>1. PICK g : Gathers(S, g, adds, goesOn, n) /\ Gather(adds, goesOn) = g[1]  BY GatheredFrom
<1>2. \A i \in 1 .. n : adds[i] \in Seq(S)  BY LenProperties DEF Loops
<1>3. \A i \in 0 .. n : f[i] \in Seq(S)  BY DEF KeepsUp
<1>4. \A i \in 1 .. n + 1 : g[i] \in Seq(S)  BY <1>1 DEF Gathers
<1>. DEFINE K == {k \in 1 .. n + 1 : \A i \in Stops : i >= k => f[i - 1] \o g[i] = f[n]}
<1>5. n + 1 \in K
  <2>1. ASSUME NEW i \in Stops, i >= n + 1 PROVE f[i - 1] \o g[i] = f[n]
    <3>1. i \in 1 .. n + 1  BY DEF KeepsUp
    <3>2. i = n + 1 /\ i - 1 = n /\ n \in 0 .. n  BY <2>1, <3>1
    <3>3. f[n] \o <<>> = f[n]  BY <1>3, <3>2, ConcatEmptySeq
    <3>4. g[n + 1] = <<>>  BY <1>1 DEF Gathers
    <3>. QED  BY <3>2, <3>3, <3>4
  <2>2. n + 1 \in 1 .. n + 1  OBVIOUS
  <2>. QED  BY <2>1, <2>2
<1>6. ASSUME NEW k \in K, k > 1 PROVE k - 1 \in K
  <2>1. k - 1 \in 1 .. n + 1 /\ k - 1 \in 1 .. n /\ k \in Nat  BY <1>6
  <2>2. \A i \in Stops : i >= k => f[i - 1] \o g[i] = f[n]  OBVIOUS
  <2>. HIDE DEF K
  <2>3. ASSUME NEW i \in Stops, i >= k - 1 PROVE f[i - 1] \o g[i] = f[n]
    <3>1. CASE i >= k  BY <2>2, <3>1
    <3>2. CASE i = k - 1
      <4>1. i \in 1 .. n /\ i <= n /\ i - 1 \in 0 .. n /\ i + 1 = k  BY <3>2, <2>1
      <4>2. PICK q : q = goesOn[i]  OBVIOUS
      <4>3. q \in Stops /\ f[q - 1] = f[i - 1] \o adds[i]  BY <4>1, <4>2 DEF KeepsUp
      <4>4. q \in i + 1 .. n + 1  BY <4>1, <4>2 DEF Loops
      <4>5. q \in 1 .. n + 1 /\ q >= k  BY <4>1, <4>4, <2>1
      <4>6. g[i] = adds[i] \o g[q]  BY <1>1, <4>1, <4>2 DEF Gathers
      <4>7. PICK x \in Seq(S) : x = f[i - 1]  BY <1>3, <4>1
      <4>8. PICK y \in Seq(S) : y = adds[i]  BY <1>2, <4>1
      <4>9. PICK z \in Seq(S) : z = g[q]  BY <1>4, <4>5
      <4>10. (x \o y) \o z = x \o (y \o z)  BY ConcatAssociative
      <4>11. (x \o y) \o z = f[n]  BY <2>2, <4>3, <4>5, <4>7, <4>8, <4>9
      <4>. QED  BY <4>6, <4>7, <4>8, <4>9, <4>10, <4>11
    <3>3. i \in Nat  BY DEF KeepsUp
    <3>4. i >= k \/ i = k - 1  BY <3>3, <2>1, <2>3
    <3>. QED  BY <3>1, <3>2, <3>4
  <2>. QED  BY <2>1, <2>3 DEF K
<1>7. 1 \in K
  <2>1. K \in SUBSET (1 .. n + 1)  OBVIOUS
  <2>2. n + 1 \in Nat  OBVIOUS
  <2>. HIDE DEF K
  <2>. QED  BY <1>5, <1>6, <2>1, <2>2, Downwards
<1>8. f[0] \o g[1] = f[n]
  <2>1. 1 - 1 = 0 /\ 1 >= 1 /\ 1 \in Stops  BY DEF KeepsUp
  <2>. QED  BY <1>7, <2>1
<1>9. g[1] \in Seq(S)
  <2>1. 1 \in 1 .. n + 1  OBVIOUS
  <2>. QED  BY <2>1, <1>4
<1>10. <<>> \o g[1] = g[1] /\ f[0] = <<>>  BY <1>9, ConcatEmptySeq DEF KeepsUp
<1>. QED  BY <1>1, <1>8, <1>10

(* A run of pieces of one element each is the text they were taken from;   *)
(* a run of empty ones adds nothing.                                       *)
Run(S, t, pieces, n, f) ==
  t \in Seq(S) /\ n = Len(t) /\ f \in [0 .. n -> Seq(S)] /\ Flattens(f, pieces, n)
Extends(f, a, b, text) == f[b] = f[a - 1] \o text
Literal(t, pieces, a, b) == \A i \in a .. b : pieces[i] = <<t[i]>>
LEMMA LiteralRun ==
  ASSUME NEW S, NEW t, NEW pieces, NEW n \in Nat, NEW f, Run(S, t, pieces, n, f),
         NEW a \in 1 .. n + 1, NEW b \in a - 1 .. n, Literal(t, pieces, a, b)
  PROVE  Extends(f, a, b, SubSeq(t, a, b))
<1>4. t \in Seq(S) /\ n = Len(t) /\ f \in [0 .. n -> Seq(S)] /\ Flattens(f, pieces, n)
  BY DEF Run
<1>5. a \in Nat /\ b \in Int /\ a - 1 \in 0 .. n  OBVIOUS
<1>6. f[a - 1] \in Seq(S)  BY <1>4, <1>5
<1>0. a \in Nat /\ b \in Int /\ a - 1 \in 0 .. n /\ f[a - 1] \in Seq(S)  BY <1>5, <1>6
<1>. DEFINE K == {k \in a - 1 .. b : f[k] = f[a - 1] \o SubSeq(t, a, k)}
<1>1. a - 1 \in K
  <2>1. SubSeq(t, a, a - 1) = <<>>  BY <1>0, SubSeqEmpty
  <2>2. f[a - 1] \o <<>> = f[a - 1]  BY <1>0, ConcatEmptySeq
  <2>3. a - 1 \in a - 1 .. b  BY <1>0
  <2>. QED  BY <2>1, <2>2, <2>3
<1>2. ASSUME NEW k \in K, k < b PROVE k + 1 \in K
  <2>1. /\ k \in Int /\ k + 1 \in a .. b /\ k + 1 \in 1 .. n /\ (k + 1) - 1 = k
        /\ k + 1 \in a - 1 .. b /\ a \in 1 .. n /\ k + 1 \in a .. n
    BY <1>0, <1>2
  <2>2. f[k + 1] = f[k] \o <<t[k + 1]>>  BY <1>4, <2>1 DEF Flattens, Literal
  <2>3. f[k] = f[a - 1] \o SubSeq(t, a, k)  OBVIOUS
  <2>4. SubSeq(t, a, k + 1) = SubSeq(t, a, k) \o <<t[k + 1]>>  BY <1>4, <2>1, SubSeqRecursiveSecond
  <2>5. t[k + 1] \in S /\ \A i \in a .. k : t[i] \in S  BY <1>4, <2>1, <1>0
  <2>6. SubSeq(t, a, k) \in Seq(S)  BY <2>1, <2>5, <1>0, SubSeqProperties
  <2>7. <<t[k + 1]>> \in Seq(S)  BY <2>5
  <2>8. (f[a - 1] \o SubSeq(t, a, k)) \o <<t[k + 1]>> = f[a - 1] \o (SubSeq(t, a, k) \o <<t[k + 1]>>)
    <3>. DEFINE x == f[a - 1]
                y == SubSeq(t, a, k)
                z == <<t[k + 1]>>
    <3>1. x \in Seq(S) /\ y \in Seq(S) /\ z \in Seq(S)  BY <1>0, <2>6, <2>7
    <3>. HIDE DEF K, x, y, z
    <3>2. (x \o y) \o z = x \o (y \o z)  BY <3>1, ConcatAssociative, SMTT(60)
    <3>. QED  BY <3>2 DEF x, y, z
  <2>. QED  BY <2>1, <2>2, <2>3, <2>4, <2>8
<1>3. b \in K
  <2>1. K \in SUBSET (a - 1 .. b)  OBVIOUS
  <2>. HIDE DEF K
  <2>2. a - 1 <= b /\ a - 1 \in Int  BY <1>0
  <2>. QED  BY <1>0, <1>1, <1>2, <2>1, <2>2, Upwards
<1>. QED  BY <1>3 DEF Extends

Empties(pieces, a, b) == \A i \in a .. b : pieces[i] = <<>>
LEMMA EmptyRun ==
  ASSUME NEW S, NEW t, NEW pieces, NEW n \in Nat, NEW f, Run(S, t, pieces, n, f),
         NEW a \in 1 .. n + 1, NEW b \in a - 1 .. n, Empties(pieces, a, b)
  PROVE  f[b] = f[a - 1]
<1>4. f \in [0 .. n -> Seq(S)] /\ Flattens(f, pieces, n)  BY DEF Run
<1>5. a \in Nat /\ b \in Int /\ a - 1 \in 0 .. n  OBVIOUS
<1>6. f[a - 1] \in Seq(S)  BY <1>4, <1>5
<1>0. a \in Nat /\ b \in Int /\ a - 1 \in 0 .. n /\ f[a - 1] \in Seq(S)  BY <1>5, <1>6
<1>. DEFINE K == {k \in a - 1 .. b : f[k] = f[a - 1]}
<1>1. a - 1 \in K  BY <1>0
<1>2. ASSUME NEW k \in K, k < b PROVE k + 1 \in K
  <2>1. k \in Int /\ k + 1 \in a .. b /\ k + 1 \in 1 .. n /\ (k + 1) - 1 = k /\ k + 1 \in a - 1 .. b
    BY <1>0, <1>2
  <2>2. f[k + 1] = f[k] \o <<>>  BY <1>4, <2>1 DEF Flattens, Empties
  <2>3. f[k] = f[a - 1]  OBVIOUS
  <2>4. f[a - 1] \o <<>> = f[a - 1]  BY <1>0, ConcatEmptySeq
  <2>. QED  BY <2>1, <2>2, <2>3, <2>4
<1>3. b \in K
  <2>1. K \in SUBSET (a - 1 .. b)  OBVIOUS
  <2>. HIDE DEF K
  <2>2. a - 1 <= b /\ a - 1 \in Int  BY <1>0
  <2>. QED  BY <1>0, <1>1, <1>2, <2>1, <2>2, Upwards
<1>. QED  BY <1>3

LEMMA OneIsSeq ==
  ASSUME NEW S, NEW x \in S
  PROVE  <<x>> \in Seq(S)
OBVIOUS

LEMMA FunctionIsSeq ==
  ASSUME NEW S, NEW n \in Nat, NEW f \in [1 .. n -> S]
  PROVE  f \in Seq(S) /\ Len(f) = n
OBVIOUS

LEMMA OneOfIt ==
  ASSUME NEW S, NEW t \in Seq(S), NEW a \in 1 .. Len(t)
  PROVE  SubSeq(t, a, a) = <<t[a]>>
<1>1. a \in a .. Len(t) /\ a \in Int /\ a + 1 \in Int /\ a < a + 1  OBVIOUS
<1>2. SubSeq(t, a, a) = <<t[a]>> \o SubSeq(t, a + 1, a)  BY <1>1, SubSeqRecursiveFirst
<1>3. SubSeq(t, a + 1, a) = <<>>  BY <1>1, SubSeqEmpty
<1>4. <<t[a]>> \in Seq(S)  BY OneIsSeq
<1>5. <<t[a]>> \o <<>> = <<t[a]>>  BY <1>4, ConcatEmptySeq
<1>. QED  BY <1>2, <1>3, <1>5

LEMMA ToSetOfConcat ==
  ASSUME NEW S, NEW x \in Seq(S), NEW y \in Seq(S)
  PROVE  ToSet(x \o y) = ToSet(x) \cup ToSet(y)
<1>1. ToSet(x) = {x[i] : i \in 1 .. Len(x)} /\ ToSet(y) = {y[i] : i \in 1 .. Len(y)}
      /\ ToSet(x \o y) = {(x \o y)[i] : i \in 1 .. Len(x) + Len(y)}
  BY ConcatProperties, LenProperties DEF ToSet
<1>2. \A i \in 1 .. Len(x) : i \in 1 .. Len(x) + Len(y) /\ (x \o y)[i] = x[i]
  BY ConcatProperties, LenProperties
<1>3. \A i \in 1 .. Len(y) : Len(x) + i \in 1 .. Len(x) + Len(y) /\ (x \o y)[Len(x) + i] = y[i]
  BY ConcatProperties, LenProperties
<1>4. \A i \in 1 .. Len(x) + Len(y) : i \in 1 .. Len(x) \/ \E j \in 1 .. Len(y) : i = Len(x) + j
  <2>1. Len(x) \in Nat /\ Len(y) \in Nat  BY LenProperties
  <2>2. ASSUME NEW i \in 1 .. Len(x) + Len(y), i \notin 1 .. Len(x)
        PROVE  \E j \in 1 .. Len(y) : i = Len(x) + j
    <3>1. i - Len(x) \in 1 .. Len(y) /\ i = Len(x) + (i - Len(x))  BY <2>1, <2>2
    <3>. QED  BY <3>1
  <2>. QED  BY <2>2
<1>. QED  BY <1>1, <1>2, <1>3, <1>4

(* Where a token is found: the first place from there on that holds it.    *)
FirstAt(t, n, i, token, q) ==
  /\ q \in i .. n + 1
  /\ q <= n => t[q] = token
  /\ \A j \in i .. q - 1 : t[j] # token
LEMMA FindsFirst ==
  ASSUME NEW t \in Texts, NEW n \in Nat, n = Len(t), NEW i \in 1 .. n + 1, NEW token
  PROVE  FirstAt(t, n, i, token, Find(t, i, token))
<1>. DEFINE S == {j \in i .. n : t[j] = token} \cup {n + 1}
<1>1. S \in SUBSET Nat /\ S # {}  OBVIOUS
<1>2. Min(S) \in S /\ \A y \in S : Min(S) <= y  BY <1>1, MinIsLeast
<1>3. Find(t, i, token) = Min(S)  BY DEF Find
<1>4. PICK q : q = Find(t, i, token)  OBVIOUS
<1>5. q \in S /\ \A y \in S : q <= y  BY <1>2, <1>3, <1>4
<1>6. q \in i .. n + 1 /\ (q <= n => t[q] = token)  BY <1>5
<1>7. ASSUME NEW j \in i .. q - 1 PROVE t[j] # token
  <2>1. j \in i .. n /\ ~(q <= j)  BY <1>6
  <2>. QED  BY <2>1, <1>5
<1>. QED  BY <1>4, <1>6, <1>7 DEF FirstAt

(* The braces met from a place on.                                         *)
Braces(t, n, i, o, c) ==
  /\ o \in i .. n + 1 /\ c \in o .. n + 1
  /\ o <= n => t[o] = "{"
  /\ \A j \in i .. o - 1 : t[j] # "{"
  /\ c <= n => t[c] = "}" /\ o < c
  /\ \A j \in o .. c - 1 : t[j] # "}"
LEMMA BracesMet ==
  ASSUME NEW t \in Texts, NEW n \in Nat, n = Len(t), NEW i \in 1 .. n
  PROVE  Braces(t, n, i, Opens(t, i), Closes(t, i))
<1>1. PICK o : o = Opens(t, i)  OBVIOUS
<1>2. i \in 1 .. n + 1  OBVIOUS
<1>3. FirstAt(t, n, i, "{", o)  BY <1>1, <1>2, FindsFirst DEF Opens
<1>4. o \in i .. n + 1 /\ (o <= n => t[o] = "{") /\ \A j \in i .. o - 1 : t[j] # "{"
  BY <1>3 DEF FirstAt
<1>5. o \in 1 .. n + 1
  <2>1. o \in i .. n + 1  BY <1>4
  <2>. QED  BY <2>1
<1>6. PICK c : c = Closes(t, i)  OBVIOUS
<1>7. FirstAt(t, n, o, "}", c)  BY <1>1, <1>5, <1>6, FindsFirst DEF Closes
<1>8. c \in o .. n + 1 /\ (c <= n => t[c] = "}") /\ \A j \in o .. c - 1 : t[j] # "}"
  BY <1>7 DEF FirstAt
<1>9. c <= n => o # c
  <2>1. "{" # "}"  OBVIOUS
  <2>. QED  BY <2>1, <1>4, <1>8
<1>10. o \in Nat /\ c \in Int /\ o <= c
  <2>1. o \in 1 .. n + 1 /\ c \in o .. n + 1  BY <1>5, <1>8
  <2>. QED  BY <2>1
<1>11. c <= n => o < c  BY <1>9, <1>10
<1>. QED  BY <1>1, <1>4, <1>6, <1>8, <1>11 DEF Braces

LEMMA GoesForward ==
  ASSUME NEW t \in Texts, NEW n \in Nat, n = Len(t), NEW i \in 1 .. n
  PROVE  /\ Closes(t, i) > n => AfterName(t)[i] = n + 1
         /\ ~(Closes(t, i) > n) => AfterName(t)[i] = Closes(t, i) + 1
         /\ AfterName(t)[i] \in i + 1 .. n + 1
<1>1. PICK o : o = Opens(t, i)  OBVIOUS
<1>2. PICK c : c = Closes(t, i)  OBVIOUS
<1>3. Braces(t, n, i, o, c)  BY <1>1, <1>2, BracesMet
<1>4. i \in DOMAIN t  BY LenProperties
<1>5. AfterName(t)[i] = IF c > n THEN n + 1 ELSE c + 1  BY <1>2, <1>4 DEF AfterName
<1>7. o \in i .. n + 1 /\ c \in o .. n + 1  BY <1>3 DEF Braces
<1>6. c \in i .. n + 1  BY <1>7
<1>. QED  BY <1>2, <1>5, <1>6

(* What takes a placeholder's place is a text.                             *)
TaskText(task) == task.id \in STRING /\ task.title \in Texts
LEMMA SubstituteIsText ==
  ASSUME NEW name \in Texts, NEW value \in Texts, NEW task, TaskText(task),
         "{" \in STRING, "}" \in STRING
  PROVE  Substitute(name, value, task) \in Texts
<1>1. <<"{">> \in Texts /\ <<"}">> \in Texts
  <2>1. \A x \in STRING : <<x>> \in Seq(STRING)  BY OneIsSeq
  <2>. QED  BY <2>1 DEF Texts
<1>2. \A x \in Texts, y \in Texts : x \o y \in Texts  BY ConcatProperties DEF Texts
<1>3. <<"{">> \o name \o <<"}">> \in Texts  BY <1>1, <1>2
<1>4. <<task.id>> \in Texts /\ task.title \in Texts  BY OneIsSeq DEF TaskText, Texts
<1>. QED  BY <1>3, <1>4 DEF Substitute

(* What the loops of check_placeholders and of Fill add at a place.        *)
NamesOf(t) ==
  [i \in DOMAIN t |-> IF Closes(t, i) > Len(t) THEN <<>> ELSE <<NameAt(t, i)>>]
FillsOf(t, value, task) ==
  [i \in DOMAIN t |->
     IF Closes(t, i) > Len(t) THEN SubSeq(t, i, Len(t))
     ELSE SubSeq(t, i, Opens(t, i) - 1) \o Substitute(NameAt(t, i), value, task)]

Associate(x, y, z) == (x \o y) \o z = x \o (y \o z)
LEMMA TextsAssociate ==
  ASSUME NEW x \in Texts, NEW y \in Texts, NEW z \in Texts
  PROVE  Associate(x, y, z)
BY ConcatAssociative DEF Texts, Associate

LEMMA PartIsText ==
  ASSUME NEW t \in Texts, NEW a \in Nat, NEW b \in Int, a >= 1, b <= Len(t)
  PROVE  SubSeq(t, a, b) \in Texts
<1>1. \A k \in a .. b : t[k] \in STRING  BY DEF Texts
<1>. QED  BY <1>1, SubSeqProperties DEF Texts

LEMMA NamesLoop ==
  ASSUME NEW t \in Texts, NEW n \in Nat, n = Len(t)
  PROVE  /\ Loops(Texts, NamesOf(t), AfterName(t), n)
         /\ CheckPlaceholders(t) <=>
              ToSet(Gather(NamesOf(t), AfterName(t))) \subseteq PLACEHOLDERS
<1>1. DOMAIN t = 1 .. n  BY LenProperties DEF Texts
<1>2. ASSUME NEW i \in 1 .. n PROVE NamesOf(t)[i] \in Seq(Texts)
  <2>1. PICK o : o = Opens(t, i)  OBVIOUS
  <2>2. PICK c : c = Closes(t, i)  OBVIOUS
  <2>3. Braces(t, n, i, o, c)  BY <2>1, <2>2, BracesMet
  <2>4. NamesOf(t)[i] = IF c > n THEN <<>> ELSE <<SubSeq(t, o + 1, c - 1)>>
    BY <1>1, <2>1, <2>2 DEF NamesOf, NameAt
  <2>5. o \in i .. n + 1 /\ c \in o .. n + 1  BY <2>3 DEF Braces
  <2>6. o + 1 \in Nat /\ c - 1 \in Int /\ o + 1 >= 1 /\ c - 1 <= n  BY <2>5
  <2>7. SubSeq(t, o + 1, c - 1) \in Texts  BY <2>6, PartIsText
  <2>8. <<SubSeq(t, o + 1, c - 1)>> \in Seq(Texts)  BY <2>7, OneIsSeq
  <2>9. <<>> \in Seq(Texts)  BY EmptySeq
  <2>. QED  BY <2>4, <2>8, <2>9
<1>3. NamesOf(t) \in [1 .. n -> Seq(Texts)]
  <2>1. NamesOf(t) = [i \in 1 .. n |-> NamesOf(t)[i]]  BY <1>1 DEF NamesOf
  <2>. QED  BY <2>1, <1>2
<1>4. NamesOf(t) \in Seq(Seq(Texts)) /\ Len(NamesOf(t)) = n  BY <1>3, FunctionIsSeq
<1>5. \A i \in 1 .. n : AfterName(t)[i] \in i + 1 .. n + 1  BY GoesForward
<1>6. CheckPlaceholders(t) <=> ToSet(Gather(NamesOf(t), AfterName(t))) \subseteq PLACEHOLDERS
  BY DEF CheckPlaceholders, NamesOf
<1>. QED  BY <1>4, <1>5, <1>6 DEF Loops

LEMMA FillsLoop ==
  ASSUME NEW t \in Texts, NEW n \in Nat, n = Len(t),
         NEW value \in Texts, NEW task, TaskText(task)
  PROVE  /\ Loops(STRING, FillsOf(t, value, task), AfterName(t), n)
         /\ Fill(t, value, task) = Gather(FillsOf(t, value, task), AfterName(t))
<1>. DEFINE fills == FillsOf(t, value, task)
<1>1. DOMAIN t = 1 .. n  BY LenProperties DEF Texts
<1>2. ASSUME NEW i \in 1 .. n PROVE fills[i] \in Texts
  <2>1. PICK o : o = Opens(t, i)  OBVIOUS
  <2>2. PICK c : c = Closes(t, i)  OBVIOUS
  <2>3. Braces(t, n, i, o, c)  BY <2>1, <2>2, BracesMet
  <2>4. fills[i] = IF c > n THEN SubSeq(t, i, n)
                   ELSE SubSeq(t, i, o - 1) \o Substitute(SubSeq(t, o + 1, c - 1), value, task)
    BY <1>1, <2>1, <2>2 DEF FillsOf, NameAt
  <2>5. o \in i .. n + 1 /\ c \in o .. n + 1  BY <2>3 DEF Braces
  <2>6. o + 1 \in Nat /\ o - 1 \in Int /\ c - 1 \in Int /\ o + 1 >= 1 /\ c - 1 <= n /\ o - 1 <= n
    BY <2>5
  <2>7. /\ SubSeq(t, o + 1, c - 1) \in Texts /\ SubSeq(t, i, o - 1) \in Texts
        /\ SubSeq(t, i, n) \in Texts
    BY <2>6, PartIsText
  <2>8. ASSUME ~(c > n)
        PROVE  SubSeq(t, i, o - 1) \o Substitute(SubSeq(t, o + 1, c - 1), value, task) \in Texts
    <3>1. c <= n /\ c \in 1 .. n /\ o \in 1 .. n
      <4>1. c <= n /\ c \in Nat  BY <2>5, <2>8
      <4>. QED  BY <4>1, <2>5
    <3>7. o <= n /\ c <= n  BY <3>1
    <3>2. t[o] = "{" /\ t[c] = "}"  BY <2>3, <3>7 DEF Braces
    <3>3. t[o] \in STRING /\ t[c] \in STRING  BY <3>1 DEF Texts
    <3>4. "{" \in STRING /\ "}" \in STRING  BY <3>2, <3>3
    <3>5. Substitute(SubSeq(t, o + 1, c - 1), value, task) \in Texts
      BY <2>7, <3>4, SubstituteIsText
    <3>6. \A x \in Texts, y \in Texts : x \o y \in Texts  BY ConcatProperties DEF Texts
    <3>. QED  BY <2>7, <3>5, <3>6
  <2>. HIDE DEF fills
  <2>. QED  BY <2>4, <2>7, <2>8
<1>3. fills \in [1 .. n -> Texts]
  <2>1. fills = [i \in 1 .. n |-> fills[i]]  BY <1>1 DEF FillsOf
  <2>. HIDE DEF fills
  <2>. QED  BY <2>1, <1>2
<1>4. fills \in Seq(Seq(STRING)) /\ Len(fills) = n
  <2>. HIDE DEF fills
  <2>. QED  BY <1>3, FunctionIsSeq DEF Texts
<1>5. \A i \in 1 .. n : AfterName(t)[i] \in i + 1 .. n + 1  BY GoesForward
<1>6. Fill(t, value, task) = Gather(fills, AfterName(t))  BY DEF Fill, FillsOf
<1>. HIDE DEF fills
<1>7. Loops(STRING, fills, AfterName(t), n)  BY <1>4, <1>5 DEF Loops
<1>. QED  BY <1>6, <1>7 DEF fills

(* The pieces of a template, element by element.                           *)
PiecesOf(t, value, task) ==
  [i \in DOMAIN t |->
     CASE i \in Holes(t) -> Substitute(<<t[i + 1]>>, value, task)
       [] i - 1 \in Holes(t) \/ i - 2 \in Holes(t) -> <<>>
       [] OTHER -> <<t[i]>>]

LEMMA PlaceholderIsWord ==
  ASSUME NEW x, <<x>> \in PLACEHOLDERS
  PROVE  x # "{" /\ x # "}"
<1>1. x \in {"value", "prompt", "task_id", "task_title"}  BY DEF PLACEHOLDERS
<1>. QED  BY <1>1

LEMMA HolesAre ==
  ASSUME NEW t \in Texts, NEW n \in Nat, n = Len(t), NEW i \in Holes(t)
  PROVE  /\ i \in 1 .. n - 2 /\ i + 1 \in 1 .. n /\ i + 2 \in 1 .. n
         /\ t[i] = "{" /\ t[i + 2] = "}" /\ t[i + 1] # "{" /\ t[i + 1] # "}"
<1>1. i \in 1 .. n - 2 /\ t[i] = "{" /\ t[i + 2] = "}" /\ <<t[i + 1]>> \in PLACEHOLDERS
  BY DEF Holes
<1>2. t[i + 1] # "{" /\ t[i + 1] # "}"  BY <1>1, PlaceholderIsWord
<1>3. i + 1 \in 1 .. n /\ i + 2 \in 1 .. n
  <2>1. i \in 1 .. n - 2  BY <1>1
  <2>. QED  BY <2>1
<1>. QED  BY <1>1, <1>2, <1>3

LEMMA PiecesFlattened ==
  ASSUME NEW t \in Texts, NEW n \in Nat, n = Len(t),
         NEW value \in Texts, NEW task, TaskText(task)
  PROVE  \E f \in [0 .. n -> Seq(STRING)] :
            Flattens(f, PiecesOf(t, value, task), n) /\ Filled(t, value, task) = f[n]
<1>. DEFINE pieces == PiecesOf(t, value, task)
<1>1. DOMAIN t = 1 .. n /\ \A i \in 1 .. n : t[i] \in STRING  BY LenProperties DEF Texts
<1>2. ASSUME NEW i \in 1 .. n PROVE pieces[i] \in Seq(STRING)
  <2>1. /\ i \in Holes(t) => pieces[i] = Substitute(<<t[i + 1]>>, value, task)
        /\ i \notin Holes(t) => pieces[i] \in {<<>>, <<t[i]>>}
    <3>1. pieces[i] = CASE i \in Holes(t) -> Substitute(<<t[i + 1]>>, value, task)
                        [] i - 1 \in Holes(t) \/ i - 2 \in Holes(t) -> <<>>
                        [] OTHER -> <<t[i]>>
      BY <1>1 DEF PiecesOf
    <3>. HIDE DEF pieces
    <3>2. CASE i \in Holes(t)
      <4>1. ~(i - 1 \in Holes(t) \/ i - 2 \in Holes(t))
        <5>1. t[i] = "{" /\ i \in 1 .. n  BY <3>2, HolesAre
        <5>2. i - 1 \in Holes(t) => t[(i - 1) + 1] # "{"  BY HolesAre
        <5>3. i - 2 \in Holes(t) => t[(i - 2) + 2] = "}"  BY HolesAre
        <5>6. i \in Int  OBVIOUS
        <5>4. (i - 1) + 1 = i /\ (i - 2) + 2 = i  BY <5>6
        <5>5. "{" # "}"  OBVIOUS
        <5>. QED  BY <5>1, <5>2, <5>3, <5>4, <5>5
      <4>. QED  BY <3>1, <3>2, <4>1
    <3>3. CASE i \notin Holes(t)  BY <3>1, <3>3
    <3>. QED  BY <3>2, <3>3
  <2>2. <<>> \in Seq(STRING)  BY EmptySeq
  <2>3. <<t[i]>> \in Seq(STRING)  BY <1>1, OneIsSeq
  <2>4. ASSUME i \in Holes(t) PROVE Substitute(<<t[i + 1]>>, value, task) \in Texts
    <3>1. i + 1 \in 1 .. n /\ i + 2 \in 1 .. n /\ t[i] = "{" /\ t[i + 2] = "}"
      BY <2>4, HolesAre
    <3>2. "{" \in STRING /\ "}" \in STRING  BY <1>1, <3>1
    <3>3. <<t[i + 1]>> \in Texts  BY <1>1, <3>1, OneIsSeq DEF Texts
    <3>. QED  BY <3>2, <3>3, SubstituteIsText
  <2>. HIDE DEF pieces
  <2>. QED  BY <2>1, <2>2, <2>3, <2>4 DEF Texts
<1>3. pieces \in [1 .. n -> Seq(STRING)]
  <2>1. pieces = [i \in 1 .. n |-> pieces[i]]  BY <1>1 DEF PiecesOf
  <2>. HIDE DEF pieces
  <2>. QED  BY <2>1, <1>2
<1>4. Filled(t, value, task) = FlattenSeq(pieces)  BY DEF Filled, PiecesOf
<1>. HIDE DEF pieces
<1>5. pieces \in Seq(Seq(STRING)) /\ Len(pieces) = n  BY <1>3, FunctionIsSeq
<1>6. \E f \in [0 .. n -> Seq(STRING)] : Flattens(f, pieces, n) /\ FlattenSeq(pieces) = f[n]
  BY <1>5, Flattened
<1>. QED  BY <1>4, <1>6 DEF pieces

(* The name that a checked template closes is one token, and a hole.       *)
LEMMA ClosesAHole ==
  ASSUME NEW t \in Texts, NEW n \in Nat, n = Len(t), NEW i \in 1 .. n,
         NEW o, NEW c, Braces(t, n, i, o, c), c <= n,
         SubSeq(t, o + 1, c - 1) \in PLACEHOLDERS
  PROVE  /\ c = o + 2 /\ o \in Holes(t)
         /\ SubSeq(t, o + 1, c - 1) = <<t[o + 1]>>
<1>1. o \in i .. n + 1 /\ c \in o .. n + 1 /\ o < c  BY DEF Braces
<1>2. o \in 1 .. n /\ c \in 1 .. n /\ o + 1 \in Nat /\ c - 1 \in Nat /\ c \in Int
      /\ o + 1 >= 1 /\ c - 1 <= n /\ o \in Int
  BY <1>1
<1>3. \A k \in o + 1 .. c - 1 : t[k] \in STRING
  <2>1. \A k \in o + 1 .. c - 1 : k \in 1 .. n  BY <1>2
  <2>. QED  BY <2>1 DEF Texts
<1>4. Len(SubSeq(t, o + 1, c - 1)) = IF o + 1 <= c - 1 THEN (c - 1) - (o + 1) + 1 ELSE 0
  BY <1>2, <1>3, SubSeqProperties
<1>5. Len(SubSeq(t, o + 1, c - 1)) = 1
  <2>1. \A x : Len(<<x>>) = 1  OBVIOUS
  <2>. QED  BY <2>1 DEF PLACEHOLDERS
<1>6. c = o + 2  BY <1>2, <1>4, <1>5
<1>7. SubSeq(t, o + 1, o + 1) = <<t[o + 1]>>
  <2>1. o + 1 \in 1 .. n  BY <1>2, <1>6
  <2>. QED  BY <2>1, OneOfIt DEF Texts
<1>8. SubSeq(t, o + 1, c - 1) = <<t[o + 1]>>
  <2>1. c - 1 = o + 1  BY <1>6, <1>2
  <2>. QED  BY <2>1, <1>7
<1>9. t[o] = "{" /\ t[c] = "}"
  <2>1. o <= n  BY <1>2
  <2>. QED  BY <2>1 DEF Braces
<1>10. o \in 1 .. n - 2  BY <1>2, <1>6
<1>11. o \in Holes(t)  BY <1>6, <1>8, <1>9, <1>10 DEF Holes
<1>. QED  BY <1>6, <1>8, <1>11

(* A place that no hole reaches into.                                      *)
Free(t, i) == i - 1 \notin Holes(t) /\ i - 2 \notin Holes(t)

(* Where no hole begins, a free place is followed by literal pieces.       *)
NoHole(t, a, b) == \A h \in a .. b : h \notin Holes(t)
LEMMA LiteralPieces ==
  ASSUME NEW t \in Texts, NEW n \in Nat, n = Len(t),
         NEW value \in Texts, NEW task, NEW a \in 1 .. n, Free(t, a),
         NEW b \in a - 1 .. n, NoHole(t, a, b)
  PROVE  Literal(t, PiecesOf(t, value, task), a, b)
<1>. SUFFICES ASSUME NEW j \in a .. b PROVE PiecesOf(t, value, task)[j] = <<t[j]>>
  BY DEF Literal
<1>1. j \in 1 .. n /\ j \in Int /\ j >= a /\ j <= b /\ a \in Int /\ b \in Int  OBVIOUS
<1>2. \A h \in a .. b : h \notin Holes(t)  BY DEF NoHole
<1>3. j - 1 \notin Holes(t)
  <2>1. j = a \/ j - 1 \in a .. b  BY <1>1
  <2>. QED  BY <1>2, <2>1 DEF Free
<1>4. j - 2 \notin Holes(t)
  <2>1. CASE j = a  BY <2>1 DEF Free
  <2>2. CASE j = a + 1
    <3>1. j - 2 = a - 1  BY <1>1, <2>2
    <3>. QED  BY <3>1 DEF Free
  <2>3. CASE j - 2 \in a .. b  BY <1>2, <2>3
  <2>4. j = a \/ j = a + 1 \/ j - 2 \in a .. b  BY <1>1
  <2>. QED  BY <2>1, <2>2, <2>3, <2>4
<1>5. DOMAIN t = 1 .. n  BY LenProperties DEF Texts
<1>. QED  BY <1>1, <1>2, <1>3, <1>4, <1>5 DEF PiecesOf

(* The pieces of a hole: what takes its place, and twice nothing.          *)
HoleAt(t, pieces, o, with) ==
  pieces[o] = with /\ pieces[o + 1] = <<>> /\ pieces[o + 2] = <<>> /\ Free(t, o + 3)
LEMMA HolePieces ==
  ASSUME NEW t \in Texts, NEW n \in Nat, n = Len(t),
         NEW value, NEW task, NEW o \in Holes(t)
  PROVE  HoleAt(t, PiecesOf(t, value, task), o, Substitute(<<t[o + 1]>>, value, task))
<1>1. /\ o \in 1 .. n - 2 /\ o + 1 \in 1 .. n /\ o + 2 \in 1 .. n
      /\ t[o] = "{" /\ t[o + 2] = "}" /\ t[o + 1] # "{" /\ t[o + 1] # "}"
  BY HolesAre
<1>2. DOMAIN t = 1 .. n  BY LenProperties DEF Texts
<1>3. o \in Int /\ o \in 1 .. n
  <2>1. o \in 1 .. n - 2  BY <1>1
  <2>. QED  BY <2>1
<1>4. /\ (o - 1) + 1 = o /\ (o - 2) + 2 = o /\ (o + 1) - 1 = o /\ (o + 2) - 2 = o
      /\ (o + 2) - 1 = o + 1 /\ (o + 3) - 1 = o + 2 /\ (o + 3) - 2 = o + 1
      /\ (o + 1) - 2 = o - 1
  BY <1>3
<1>5. "{" # "}"  OBVIOUS
<1>6. o + 1 \notin Holes(t)  BY <1>1, HolesAre
<1>7. o + 2 \notin Holes(t)  BY <1>1, <1>5, HolesAre
<1>8. o - 1 \notin Holes(t)  BY <1>1, <1>4, HolesAre
<1>9. o - 2 \notin Holes(t)  BY <1>1, <1>4, <1>5, HolesAre
<1>10. Free(t, o + 3)  BY <1>4, <1>6, <1>7 DEF Free
<1>11. PiecesOf(t, value, task)[o] = Substitute(<<t[o + 1]>>, value, task)
  BY <1>2, <1>3, <1>8, <1>9 DEF PiecesOf
<1>12. PiecesOf(t, value, task)[o + 1] = <<>>
  <2>. DEFINE p == o + 1
  <2>1. p \in 1 .. n /\ p \notin Holes(t) /\ p - 1 \in Holes(t)  BY <1>1, <1>4, <1>6
  <2>. HIDE DEF p
  <2>2. PiecesOf(t, value, task)[p] = <<>>  BY <1>2, <2>1 DEF PiecesOf
  <2>. QED  BY <2>2 DEF p
<1>13. PiecesOf(t, value, task)[o + 2] = <<>>
  <2>. DEFINE p == o + 2
  <2>1. p \in 1 .. n /\ p \notin Holes(t) /\ p - 2 \in Holes(t)  BY <1>1, <1>4, <1>7
  <2>. HIDE DEF p
  <2>2. PiecesOf(t, value, task)[p] = <<>>  BY <1>2, <2>1 DEF PiecesOf
  <2>. QED  BY <2>2 DEF p
<1>. QED  BY <1>10, <1>11, <1>12, <1>13 DEF HoleAt

(* From a free place on no brace closes: the rest is literal.              *)
LEMMA NothingCloses ==
  ASSUME NEW t \in Texts, NEW n \in Nat, n = Len(t), NEW i \in 1 .. n,
         NEW o, NEW c, Braces(t, n, i, o, c), c > n
  PROVE  NoHole(t, i, n)
<1>. SUFFICES ASSUME NEW h \in i .. n, h \in Holes(t) PROVE FALSE  BY DEF NoHole
<1>1. o \in i .. n + 1 /\ c \in o .. n + 1 /\ (\A j \in i .. o - 1 : t[j] # "{")
      /\ (\A j \in o .. c - 1 : t[j] # "}")
  BY DEF Braces
<1>2. h + 2 \in 1 .. n /\ t[h] = "{" /\ t[h + 2] = "}"  BY HolesAre
<1>3. h \notin i .. o - 1  BY <1>1, <1>2
<1>6. o \in i .. n + 1 /\ c \in o .. n + 1  BY <1>1
<1>4. h \in Int /\ h >= i /\ o \in Int /\ c = n + 1  BY <1>6
<1>7. h >= o  BY <1>3, <1>4
<1>9. h + 2 \in 1 .. n  BY <1>2
<1>8. h + 2 <= n  BY <1>9
<1>5. h + 2 \in o .. c - 1  BY <1>4, <1>7, <1>8
<1>. QED  BY <1>1, <1>2, <1>5

(* What Fill adds at a free place is what its pieces add, up to the place  *)
(* it goes on at.                                                          *)
FillRun(t, value, task, n, f) ==
  /\ t \in Texts /\ n = Len(t) /\ value \in Texts /\ TaskText(task)
  /\ f \in [0 .. n -> Seq(STRING)] /\ Flattens(f, PiecesOf(t, value, task), n)
FillStep(t, value, task, n, f, i) ==
  /\ f[AfterName(t)[i] - 1] = f[i - 1] \o FillsOf(t, value, task)[i]
  /\ Closes(t, i) <= n => Free(t, AfterName(t)[i])
LEMMA FillAdds ==
  ASSUME NEW t, NEW value, NEW task, NEW n \in Nat, NEW f, FillRun(t, value, task, n, f),
         NEW i \in 1 .. n, Free(t, i),
         Closes(t, i) <= n => NameAt(t, i) \in PLACEHOLDERS
  PROVE  FillStep(t, value, task, n, f, i)
<1>. USE DEF FillStep
<1>. t \in Texts /\ n = Len(t) /\ value \in Texts /\ TaskText(task)
     /\ f \in [0 .. n -> Seq(STRING)] /\ Flattens(f, PiecesOf(t, value, task), n)
  BY DEF FillRun
<1>. DEFINE pieces == PiecesOf(t, value, task)
<1>1. PICK o : o = Opens(t, i)  OBVIOUS
<1>2. PICK c : c = Closes(t, i)  OBVIOUS
<1>3. Braces(t, n, i, o, c)  BY <1>1, <1>2, BracesMet
<1>4. o \in i .. n + 1 /\ c \in o .. n + 1  BY <1>3 DEF Braces
<1>5. DOMAIN t = 1 .. n  BY LenProperties DEF Texts
<1>6. FillsOf(t, value, task)[i] =
        IF c > n THEN SubSeq(t, i, n)
        ELSE SubSeq(t, i, o - 1) \o Substitute(SubSeq(t, o + 1, c - 1), value, task)
  BY <1>1, <1>2, <1>5 DEF FillsOf, NameAt
<1>7. /\ c > n => AfterName(t)[i] = n + 1
      /\ ~(c > n) => AfterName(t)[i] = c + 1
  BY <1>2, GoesForward
<1>8. i \in 1 .. n + 1 /\ c \in Int /\ o \in Int /\ n \in i - 1 .. n  BY <1>4
<1>11. Run(STRING, t, pieces, n, f) /\ Flattens(f, pieces, n)  BY DEF Run, Texts
<1>9. CASE c > n
  <2>1. NoHole(t, i, n)  BY <1>3, <1>9, NothingCloses
  <2>2. Literal(t, pieces, i, n)  BY <1>8, <2>1, LiteralPieces
  <2>. HIDE DEF pieces
  <2>5. Run(STRING, t, pieces, n, f)  BY <1>11
  <2>6. Extends(f, i, n, SubSeq(t, i, n))  BY <1>8, <2>2, <2>5, LiteralRun
  <2>3. f[n] = f[i - 1] \o SubSeq(t, i, n)  BY <2>6 DEF Extends
  <2>4. AfterName(t)[i] - 1 = n /\ ~(c <= n)  BY <1>7, <1>8, <1>9
  <2>. QED  BY <1>2, <1>6, <1>9, <2>3, <2>4
<1>10. CASE ~(c > n)
  <2>1. c <= n  BY <1>8, <1>10
  <2>2. SubSeq(t, o + 1, c - 1) \in PLACEHOLDERS  BY <1>1, <1>2, <2>1 DEF NameAt
  <2>3. c = o + 2 /\ o \in Holes(t) /\ SubSeq(t, o + 1, c - 1) = <<t[o + 1]>>
    BY <1>3, <2>1, <2>2, ClosesAHole
  <2>4. o \in 1 .. n /\ o - 1 \in i - 1 .. n /\ o \in 0 .. n /\ o - 1 \in 0 .. n
    BY <1>4, <1>8, <2>1, <2>3
  <2>5. NoHole(t, i, o - 1)
    <3>. SUFFICES ASSUME NEW h \in i .. o - 1 PROVE h \notin Holes(t)  BY DEF NoHole
    <3>1. t[h] # "{"  BY <1>3 DEF Braces
    <3>. QED  BY <3>1, HolesAre
  <2>6. Literal(t, pieces, i, o - 1)  BY <1>8, <2>4, <2>5, LiteralPieces
  <2>. DEFINE with == Substitute(<<t[o + 1]>>, value, task)
  <2>19. HoleAt(t, pieces, o, with)  BY <2>3, HolePieces
  <2>8. Run(STRING, t, pieces, n, f) /\ Flattens(f, pieces, n)  BY <1>11
  <2>. HIDE DEF pieces
  <2>7. pieces[o] = with /\ pieces[o + 1] = <<>> /\ pieces[o + 2] = <<>> /\ Free(t, o + 3)
    BY <2>19 DEF HoleAt
  <2>20. Extends(f, i, o - 1, SubSeq(t, i, o - 1))  BY <1>8, <2>4, <2>6, <2>8, LiteralRun
  <2>9. f[o - 1] = f[i - 1] \o SubSeq(t, i, o - 1)  BY <2>20 DEF Extends
  <2>10. f[o] = f[o - 1] \o pieces[o]  BY <2>4, <2>8 DEF Flattens
  <2>11. f[o + 2] = f[o]
    <3>1. o + 1 \in 1 .. n + 1 /\ o + 2 \in (o + 1) - 1 .. n /\ (o + 1) - 1 = o
      BY <2>1, <2>3, <2>4, <1>8
    <3>2. \A j \in o + 1 .. o + 2 : j = o + 1 \/ j = o + 2  BY <1>8
    <3>3. Empties(pieces, o + 1, o + 2)  BY <2>7, <3>2 DEF Empties
    <3>4. f[o + 2] = f[(o + 1) - 1]  BY <2>8, <3>1, <3>3, EmptyRun
    <3>. QED  BY <3>1, <3>4
  <2>12. PICK x \in Texts : x = f[i - 1]
    <3>1. i - 1 \in 0 .. n  OBVIOUS
    <3>. QED  BY <3>1 DEF Texts
  <2>13. PICK y \in Texts : y = SubSeq(t, i, o - 1)
    <3>1. i \in Nat /\ o - 1 \in Int /\ i >= 1 /\ o - 1 <= n  BY <2>4
    <3>2. SubSeq(t, i, o - 1) \in Texts  BY <3>1, PartIsText
    <3>. QED  BY <3>2
  <2>14. PICK z \in Texts : z = pieces[o]
    <3>1. t[o] = "{" /\ t[o + 2] = "}" /\ o + 1 \in 1 .. n /\ o + 2 \in 1 .. n
      BY <2>3, HolesAre
    <3>5. \A k \in 1 .. n : t[k] \in STRING  BY DEF Texts
    <3>2. t[o] \in STRING /\ t[o + 1] \in STRING /\ t[o + 2] \in STRING  BY <2>4, <3>1, <3>5
    <3>3. <<t[o + 1]>> \in Texts  BY <3>2, OneIsSeq DEF Texts
    <3>4. Substitute(<<t[o + 1]>>, value, task) \in Texts
      BY <3>1, <3>2, <3>3, SubstituteIsText
    <3>. QED  BY <2>7, <3>4
  <2>21. x \in Texts /\ y \in Texts /\ z \in Texts  BY <2>12, <2>13, <2>14
  <2>15. (x \o y) \o z = x \o (y \o z)
    <3>1. Associate(x, y, z)  BY <2>21, TextsAssociate
    <3>. QED  BY <3>1 DEF Associate
  <2>16. f[o + 2] = x \o (y \o z)  BY <2>9, <2>10, <2>11, <2>12, <2>13, <2>14, <2>15
  <2>17. FillsOf(t, value, task)[i] = y \o z  BY <1>6, <1>10, <2>3, <2>7, <2>13, <2>14
  <2>18. AfterName(t)[i] = o + 3 /\ AfterName(t)[i] - 1 = o + 2  BY <1>7, <1>8, <1>10, <2>3
  <2>. QED  BY <2>7, <2>12, <2>16, <2>17, <2>18
<1>. QED  BY <1>9, <1>10

(* A template whose placeholders are checked is filled as it should be.    *)
LEMMA FillIsFilled ==
  ASSUME NEW t \in Texts, CheckPlaceholders(t),
         NEW value \in Texts, NEW task, TaskText(task)
  PROVE  Fill(t, value, task) = Filled(t, value, task)
<1>1. PICK n \in Nat : n = Len(t)  BY LenProperties DEF Texts
<1>2. PICK names : names = NamesOf(t)  OBVIOUS
<1>3. PICK fills : fills = FillsOf(t, value, task)  OBVIOUS
<1>4. PICK next : next = AfterName(t)  OBVIOUS
<1>5. Loops(Texts, names, next, n) /\ ToSet(Gather(names, next)) \subseteq PLACEHOLDERS
  BY <1>1, <1>2, <1>4, NamesLoop
<1>6. Loops(STRING, fills, next, n) /\ Fill(t, value, task) = Gather(fills, next)
  BY <1>1, <1>3, <1>4, FillsLoop
<1>7. PICK g : Gathers(Texts, g, names, next, n) /\ Gather(names, next) = g[1]
  BY <1>5, GatheredFrom
<1>8. PICK f \in [0 .. n -> Seq(STRING)] :
        Flattens(f, PiecesOf(t, value, task), n) /\ Filled(t, value, task) = f[n]
  BY <1>1, PiecesFlattened
<1>. DEFINE Stops == {i \in 1 .. n + 1 : ToSet(g[i]) \subseteq PLACEHOLDERS /\ Free(t, i)}
<1>9. 1 \in Stops
  <2>1. 1 - 1 \notin Holes(t) /\ 1 - 2 \notin Holes(t)
    <3>1. \A h \in Holes(t) : h \in 1 .. n - 2  BY <1>1, HolesAre
    <3>. QED  BY <3>1
  <2>2. 1 \in 1 .. n + 1  OBVIOUS
  <2>. QED  BY <1>5, <1>7, <2>1, <2>2 DEF Free
<1>10. n + 1 \in Stops
  <2>1. \A h \in Holes(t) : h \in 1 .. n - 2  BY <1>1, HolesAre
  <2>2. (n + 1) - 1 \notin Holes(t) /\ (n + 1) - 2 \notin Holes(t)  BY <2>1
  <2>3. g[n + 1] = <<>>  BY <1>7 DEF Gathers
  <2>4. ToSet(<<>>) = {}  BY DEF ToSet
  <2>5. n + 1 \in 1 .. n + 1  OBVIOUS
  <2>. QED  BY <2>2, <2>3, <2>4, <2>5 DEF Free
<1>11. ASSUME NEW i \in Stops, i <= n
       PROVE  next[i] \in Stops /\ f[next[i] - 1] = f[i - 1] \o fills[i]
  <2>1. i \in 1 .. n /\ Free(t, i) /\ ToSet(g[i]) \subseteq PLACEHOLDERS
    <3>1. i \in 1 .. n + 1 /\ Free(t, i) /\ ToSet(g[i]) \subseteq PLACEHOLDERS  OBVIOUS
    <3>2. i \in 1 .. n  BY <1>11, <3>1
    <3>. QED  BY <3>1, <3>2
  <2>2. PICK c : c = Closes(t, i)  OBVIOUS
  <2>3. next[i] \in 1 .. n + 1
    <3>1. next[i] \in i + 1 .. n + 1  BY <1>5, <2>1 DEF Loops
    <3>. QED  BY <2>1, <3>1
  <2>4. c <= n => NameAt(t, i) \in PLACEHOLDERS /\ ToSet(g[next[i]]) \subseteq PLACEHOLDERS
    <3>. SUFFICES ASSUME c <= n
                  PROVE  NameAt(t, i) \in PLACEHOLDERS /\ ToSet(g[next[i]]) \subseteq PLACEHOLDERS
      OBVIOUS
    <3>1. g[i] = names[i] \o g[next[i]]  BY <1>7, <2>1 DEF Gathers
    <3>2. names[i] = <<NameAt(t, i)>>
      <4>1. i \in DOMAIN t  BY <1>1, <2>1, LenProperties DEF Texts
      <4>2. ~(c > n)
        <5>1. Braces(t, n, i, Opens(t, i), c)  BY <1>1, <2>1, <2>2, BracesMet
        <5>2. Opens(t, i) \in i .. n + 1 /\ c \in Opens(t, i) .. n + 1  BY <5>1 DEF Braces
        <5>3. c \in Int  BY <5>2
        <5>. QED  BY <5>3
      <4>. QED  BY <1>1, <1>2, <2>2, <4>1, <4>2 DEF NamesOf
    <3>3. PICK rest \in Seq(Texts) : rest = g[next[i]]  BY <1>7, <2>3 DEF Gathers
    <3>4. PICK name : name = NameAt(t, i)  OBVIOUS
    <3>5. PICK one \in Seq(Texts) : one = <<name>>
      <4>1. names[i] \in Seq(Texts)  BY <1>5, <2>1, LenProperties DEF Loops
      <4>. QED  BY <3>2, <3>4, <4>1
    <3>6. ToSet(one \o rest) = ToSet(one) \cup ToSet(rest)  BY ToSetOfConcat
    <3>7. name \in ToSet(one)  BY <3>5 DEF ToSet
    <3>. QED  BY <2>1, <3>1, <3>2, <3>3, <3>4, <3>5, <3>6, <3>7
  <2>5. /\ f[AfterName(t)[i] - 1] = f[i - 1] \o FillsOf(t, value, task)[i]
        /\ Closes(t, i) <= n => Free(t, AfterName(t)[i])
    <3>1. Closes(t, i) <= n => NameAt(t, i) \in PLACEHOLDERS  BY <2>2, <2>4
    <3>2. FillRun(t, value, task, n, f)  BY <1>1, <1>8 DEF FillRun
    <3>. HIDE DEF Stops
    <3>3. FillStep(t, value, task, n, f, i)  BY <2>1, <3>1, <3>2, FillAdds
    <3>. QED  BY <3>3 DEF FillStep
  <2>6. f[next[i] - 1] = f[i - 1] \o fills[i] /\ (c <= n => Free(t, next[i]))
    BY <1>3, <1>4, <2>2, <2>5
  <2>7. c > n => next[i] = n + 1  BY <1>1, <1>4, <2>1, <2>2, GoesForward
  <2>8. c <= n \/ c > n
    <3>1. Braces(t, n, i, Opens(t, i), c)  BY <1>1, <2>1, <2>2, BracesMet
    <3>2. Opens(t, i) \in i .. n + 1 /\ c \in Opens(t, i) .. n + 1  BY <3>1 DEF Braces
    <3>3. c \in Int  BY <3>2
    <3>. QED  BY <3>3
  <2>9. next[i] \in Stops
    <3>1. CASE c <= n  BY <2>3, <2>4, <2>6, <3>1
    <3>2. CASE c > n  BY <1>10, <2>7, <3>2
    <3>. QED  BY <2>8, <3>1, <3>2
  <2>. QED  BY <2>6, <2>9
<1>12. Stops \in SUBSET (1 .. n + 1)  OBVIOUS
<1>. HIDE DEF Stops
<1>13. f[0] = <<>>  BY <1>8 DEF Flattens
<1>14. KeepsUp(STRING, f, fills, next, Stops, n)  BY <1>8, <1>9, <1>11, <1>12, <1>13 DEF KeepsUp
<1>15. Gather(fills, next) = f[n]  BY <1>6, <1>14, GatherFlattens
<1>. QED  BY <1>6, <1>8, <1>15

(* The words of a text, piece by piece; what SplitWhitespace adds at a     *)
(* place, and where it goes on.                                            *)
WordsOf(t) ==
  [i \in DOMAIN t |->
     IF t[i] # Space /\ (i = 1 \/ t[i - 1] = Space) THEN <<WordAt(t, i)>> ELSE <<>>]
SplitsOf(t) ==
  [i \in DOMAIN t |->
     IF t[i] = Space THEN <<>> ELSE << SubSeq(t, i, Find(t, i, Space) - 1) >>]
AfterWord(t) == [i \in DOMAIN t |-> IF t[i] = Space THEN i + 1 ELSE Find(t, i, Space)]

LEMMA MaxIs ==
  ASSUME NEW T \in SUBSET Int, NEW k \in T, \A y \in T : y <= k
  PROVE  Max(T) = k
<1>1. \A x \in T : (\A y \in T : x >= y) <=> x = k  OBVIOUS
<1>. QED  BY <1>1 DEF Max

(* The longest run without white space ends where white space is found.    *)
EndsWord(t, n, i, e) ==
  /\ e \in i + 1 .. n + 1 /\ (e <= n => t[e] = Space)
  /\ \A j \in i .. e - 1 : t[j] # Space
  /\ WordAt(t, i) = SubSeq(t, i, e - 1) /\ WordAt(t, i) \in Texts
LEMMA WordEnds ==
  ASSUME NEW t \in Texts, NEW n \in Nat, n = Len(t), NEW i \in 1 .. n, t[i] # Space
  PROVE  EndsWord(t, n, i, Find(t, i, Space))
<1>0. PICK e : e = Find(t, i, Space)  OBVIOUS
<1>1. i \in 1 .. n + 1  OBVIOUS
<1>2. FirstAt(t, n, i, Space, e)  BY <1>0, <1>1, FindsFirst
<1>3. e \in i .. n + 1 /\ (e <= n => t[e] = Space) /\ \A j \in i .. e - 1 : t[j] # Space
  BY <1>2 DEF FirstAt
<1>4. e # i  BY <1>3
<1>5. e \in i + 1 .. n + 1
  <2>1. e \in i .. n + 1  BY <1>3
  <2>. QED  BY <1>4, <2>1
<1>. DEFINE T == {j \in i .. n : Space \notin ToSet(SubSeq(t, i, j))}
<1>6. \A k \in 1 .. n : t[k] \in STRING  BY DEF Texts
<1>7. ASSUME NEW j \in i .. n
      PROVE  Space \notin ToSet(SubSeq(t, i, j)) <=> \A k \in i .. j : t[k] # Space
  <2>1. \A k \in i .. j : k \in 1 .. n  OBVIOUS
  <2>2. \A k \in i .. j : t[k] \in STRING  BY <1>6, <2>1
  <2>3. i \in Int /\ j \in Int /\ i <= j  OBVIOUS
  <2>4. /\ SubSeq(t, i, j) \in Seq(STRING) /\ Len(SubSeq(t, i, j)) = j - i + 1
        /\ \A k \in 1 .. j - i + 1 : SubSeq(t, i, j)[k] = t[i + k - 1]
    BY <2>2, <2>3, SubSeqProperties
  <2>5. PICK s \in Seq(STRING) : s = SubSeq(t, i, j)  BY <2>4
  <2>6. ToSet(s) = {s[k] : k \in 1 .. j - i + 1}  BY <2>4, <2>5, LenProperties DEF ToSet
  <2>7. ASSUME NEW k \in i .. j, t[k] = Space PROVE Space \in ToSet(s)
    <3>1. k - i + 1 \in 1 .. j - i + 1 /\ i + (k - i + 1) - 1 = k  OBVIOUS
    <3>. QED  BY <2>4, <2>5, <2>6, <2>7, <3>1
  <2>8. ASSUME NEW k \in 1 .. j - i + 1, s[k] = Space PROVE \E h \in i .. j : t[h] = Space
    <3>1. i + k - 1 \in i .. j  OBVIOUS
    <3>2. t[i + k - 1] = Space  BY <2>4, <2>5, <2>8
    <3>. QED  BY <3>1, <3>2
  <2>. QED  BY <2>5, <2>6, <2>7, <2>8
<1>8. e - 1 \in T
  <2>1. e - 1 \in i .. n  BY <1>5
  <2>. QED  BY <1>3, <1>7, <2>1
<1>9. ASSUME NEW j \in T PROVE j <= e - 1
  <2>1. j \in i .. n /\ \A k \in i .. j : t[k] # Space  BY <1>7
  <2>. SUFFICES ASSUME ~(j <= e - 1) PROVE FALSE  OBVIOUS
  <2>2. j \in Int /\ e \in Int /\ j >= e /\ e >= i  BY <1>5, <2>1
  <2>3. e \in i .. j /\ e <= n  BY <2>1, <2>2
  <2>. QED  BY <1>3, <2>1, <2>3
<1>10. Max(T) = e - 1
  <2>1. T \in SUBSET Int  OBVIOUS
  <2>. HIDE DEF T
  <2>. QED  BY <1>8, <1>9, <2>1, MaxIs
<1>11. WordAt(t, i) = SubSeq(t, i, e - 1)  BY <1>10 DEF WordAt
<1>12. SubSeq(t, i, e - 1) \in Texts
  <2>1. i \in Nat /\ e - 1 \in Int /\ i >= 1 /\ e - 1 <= n  BY <1>5
  <2>. QED  BY <2>1, PartIsText
<1>. QED  BY <1>0, <1>3, <1>5, <1>11, <1>12 DEF EndsWord

LEMMA SplitsLoop ==
  ASSUME NEW t \in Texts, NEW n \in Nat, n = Len(t)
  PROVE  /\ Loops(Texts, SplitsOf(t), AfterWord(t), n)
         /\ SplitWhitespace(t) = Gather(SplitsOf(t), AfterWord(t))
<1>1. DOMAIN t = 1 .. n  BY LenProperties DEF Texts
<1>2. ASSUME NEW i \in 1 .. n
      PROVE  SplitsOf(t)[i] \in Seq(Texts) /\ AfterWord(t)[i] \in i + 1 .. n + 1
  <2>1. CASE t[i] = Space
    <3>1. SplitsOf(t)[i] = <<>> /\ AfterWord(t)[i] = i + 1  BY <1>1, <2>1 DEF SplitsOf, AfterWord
    <3>2. i + 1 \in i + 1 .. n + 1  OBVIOUS
    <3>. QED  BY <3>1, <3>2, EmptySeq
  <2>2. CASE t[i] # Space
    <3>1. PICK e : e = Find(t, i, Space)  OBVIOUS
    <3>2. SplitsOf(t)[i] = <<SubSeq(t, i, e - 1)>> /\ AfterWord(t)[i] = e
      BY <1>1, <2>2, <3>1 DEF SplitsOf, AfterWord
    <3>5. e \in i + 1 .. n + 1 /\ WordAt(t, i) = SubSeq(t, i, e - 1) /\ WordAt(t, i) \in Texts
      BY <2>2, <3>1, WordEnds DEF EndsWord
    <3>3. e \in i + 1 .. n + 1 /\ SubSeq(t, i, e - 1) \in Texts  BY <3>5
    <3>4. <<SubSeq(t, i, e - 1)>> \in Seq(Texts)  BY <3>3, OneIsSeq
    <3>. QED  BY <3>2, <3>3, <3>4
  <2>. QED  BY <2>1, <2>2
<1>3. SplitsOf(t) \in [1 .. n -> Seq(Texts)]
  <2>1. SplitsOf(t) = [i \in 1 .. n |-> SplitsOf(t)[i]]  BY <1>1 DEF SplitsOf
  <2>. QED  BY <2>1, <1>2
<1>4. SplitsOf(t) \in Seq(Seq(Texts)) /\ Len(SplitsOf(t)) = n  BY <1>3, FunctionIsSeq
<1>5. SplitWhitespace(t) = Gather(SplitsOf(t), AfterWord(t))
  BY DEF SplitWhitespace, SplitsOf, AfterWord
<1>. QED  BY <1>2, <1>4, <1>5 DEF Loops

LEMMA WordsFlattened ==
  ASSUME NEW t \in Texts, NEW n \in Nat, n = Len(t)
  PROVE  \E f \in [0 .. n -> Seq(Texts)] : Flattens(f, WordsOf(t), n) /\ Words(t) = f[n]
<1>1. DOMAIN t = 1 .. n  BY LenProperties DEF Texts
<1>2. ASSUME NEW i \in 1 .. n PROVE WordsOf(t)[i] \in Seq(Texts)
  <2>1. CASE t[i] = Space
    <3>1. WordsOf(t)[i] = <<>>  BY <1>1, <2>1 DEF WordsOf
    <3>. QED  BY <3>1, EmptySeq
  <2>2. CASE t[i] # Space
    <3>2. WordAt(t, i) \in Texts  BY <2>2, WordEnds DEF EndsWord
    <3>3. <<WordAt(t, i)>> \in Seq(Texts) /\ <<>> \in Seq(Texts)  BY <3>2, OneIsSeq, EmptySeq
    <3>4. WordsOf(t)[i] = <<WordAt(t, i)>> \/ WordsOf(t)[i] = <<>>  BY <1>1 DEF WordsOf
    <3>. QED  BY <3>3, <3>4
  <2>. QED  BY <2>1, <2>2
<1>3. WordsOf(t) \in [1 .. n -> Seq(Texts)]
  <2>1. WordsOf(t) = [i \in 1 .. n |-> WordsOf(t)[i]]  BY <1>1 DEF WordsOf
  <2>. QED  BY <2>1, <1>2
<1>4. WordsOf(t) \in Seq(Seq(Texts)) /\ Len(WordsOf(t)) = n  BY <1>3, FunctionIsSeq
<1>5. Words(t) = FlattenSeq(WordsOf(t))  BY DEF Words, WordsOf
<1>. QED  BY <1>4, <1>5, Flattened

(* split_whitespace gives the words of a text.                             *)
LEMMA SplitIsWords ==
  ASSUME NEW t \in Texts
  PROVE  SplitWhitespace(t) = Words(t)
<1>1. PICK n \in Nat : n = Len(t)  BY LenProperties DEF Texts
<1>2. PICK adds : adds = SplitsOf(t)  OBVIOUS
<1>3. PICK next : next = AfterWord(t)  OBVIOUS
<1>4. PICK pieces : pieces = WordsOf(t)  OBVIOUS
<1>5. Loops(Texts, adds, next, n) /\ SplitWhitespace(t) = Gather(adds, next)
  BY <1>1, <1>2, <1>3, SplitsLoop
<1>6. PICK f \in [0 .. n -> Seq(Texts)] : Flattens(f, pieces, n) /\ Words(t) = f[n]
  BY <1>1, <1>4, WordsFlattened
<1>7. DOMAIN t = 1 .. n  BY <1>1, LenProperties DEF Texts
<1>. DEFINE Stops == {i \in 1 .. n + 1 : i = n + 1 \/ i = 1 \/ t[i - 1] = Space \/ t[i] = Space}
<1>8. 1 \in Stops /\ Stops \in SUBSET (1 .. n + 1)
  <2>1. 1 \in 1 .. n + 1  OBVIOUS
  <2>. QED  BY <2>1
<1>9. ASSUME NEW i \in Stops, i <= n
      PROVE  next[i] \in Stops /\ f[next[i] - 1] = f[i - 1] \o adds[i]
  <2>1. i \in 1 .. n /\ (i = 1 \/ t[i - 1] = Space \/ t[i] = Space)
    <3>1. i \in 1 .. n + 1 /\ (i = n + 1 \/ i = 1 \/ t[i - 1] = Space \/ t[i] = Space)
      OBVIOUS
    <3>2. i \in 1 .. n /\ i # n + 1  BY <1>9, <3>1
    <3>. QED  BY <3>1, <3>2
  <2>2. f[i] = f[i - 1] \o pieces[i]  BY <1>6, <2>1 DEF Flattens
  <2>3. CASE t[i] = Space
    <3>1. adds[i] = <<>> /\ next[i] = i + 1 /\ pieces[i] = <<>>
      BY <1>2, <1>3, <1>4, <1>7, <2>1, <2>3 DEF SplitsOf, AfterWord, WordsOf
    <3>2. i + 1 \in 1 .. n + 1 /\ (i + 1) - 1 = i  BY <2>1
    <3>. QED  BY <2>2, <2>3, <3>1, <3>2
  <2>4. CASE t[i] # Space
    <3>1. PICK e : e = Find(t, i, Space)  OBVIOUS
    <3>2. /\ e \in i + 1 .. n + 1 /\ (e <= n => t[e] = Space)
          /\ \A j \in i .. e - 1 : t[j] # Space
          /\ WordAt(t, i) = SubSeq(t, i, e - 1)
      <4>1. EndsWord(t, n, i, e)
        <5>. HIDE DEF Stops
        <5>. QED  BY <1>1, <2>1, <2>4, <3>1, WordEnds
      <4>. QED  BY <4>1 DEF EndsWord
    <3>3. adds[i] = <<SubSeq(t, i, e - 1)>> /\ next[i] = e
      BY <1>2, <1>3, <1>7, <2>1, <2>4, <3>1 DEF SplitsOf, AfterWord
    <3>4. pieces[i] = <<WordAt(t, i)>>  BY <1>4, <1>7, <2>1, <2>4 DEF WordsOf
    <3>5. i + 1 \in 1 .. n + 1 /\ e - 1 \in (i + 1) - 1 .. n /\ (i + 1) - 1 = i
      <4>1. e \in i + 1 .. n + 1  BY <3>2
      <4>. QED  BY <2>1, <4>1
    <3>6. Empties(pieces, i + 1, e - 1)
      <4>. SUFFICES ASSUME NEW j \in i + 1 .. e - 1 PROVE pieces[j] = <<>>  BY DEF Empties
      <4>1. j - 1 \in i .. e - 1 /\ j \in 1 .. n /\ j # 1  BY <2>1, <3>5
      <4>2. t[j - 1] # Space  BY <3>2, <4>1
      <4>. QED  BY <1>4, <1>7, <4>1, <4>2 DEF WordsOf
    <3>7. PICK s : Run(Texts, s, pieces, n, f)
      <4>1. [k \in 1 .. n |-> <<>>] \in [1 .. n -> Texts]  BY EmptySeq DEF Texts
      <4>2. PICK s \in [1 .. n -> Texts] : TRUE  BY <4>1
      <4>3. s \in Seq(Texts) /\ Len(s) = n  BY FunctionIsSeq
      <4>. QED  BY <1>6, <4>3 DEF Run
    <3>12. PICK a \in 1 .. n + 1 : a = i + 1  BY <3>5
    <3>13. PICK b \in a - 1 .. n : b = e - 1  BY <3>5, <3>12
    <3>14. Empties(pieces, a, b)  BY <3>6, <3>12, <3>13
    <3>8. f[e - 1] = f[(i + 1) - 1]
      <4>1. f[b] = f[a - 1]
        <5>. HIDE DEF Stops
        <5>. QED  BY <3>7, <3>14, EmptyRun
      <4>. QED  BY <4>1, <3>12, <3>13
    <3>9. f[e - 1] = f[i - 1] \o adds[i]  BY <2>2, <3>2, <3>3, <3>4, <3>5, <3>8
    <3>10. e \in 1 .. n + 1 /\ (e = n + 1 \/ e <= n)
      <4>1. e \in i + 1 .. n + 1  BY <3>2
      <4>. QED  BY <2>1, <4>1
    <3>11. e \in Stops  BY <3>2, <3>10
    <3>. QED  BY <3>3, <3>9, <3>11
  <2>. QED  BY <2>3, <2>4
<1>. HIDE DEF Stops
<1>10. f[0] = <<>>  BY <1>6 DEF Flattens
<1>11. KeepsUp(Texts, f, adds, next, Stops, n)  BY <1>6, <1>8, <1>9, <1>10 DEF KeepsUp
<1>12. Gather(adds, next) = f[n]  BY <1>5, <1>11, GatherFlattens
<1>. QED  BY <1>5, <1>6, <1>12

(* The command line made of a sound manifest is the one it declares.       *)
LEMMA SettingsAdd ==
  ASSUME NEW s \in Setting, \A t \in ToSet(s.args) : CheckPlaceholders(t),
         NEW values, Values(values), NEW task, TaskText(task)
  PROVE  SettingArgs(s, values, task) = Adds(s, values, task)
<1>1. s.args \in Seq(Texts) /\ s.kind \in SettingKind  BY DEF Setting
<1>2. ASSUME NEW value \in Texts
      PROVE  [i \in DOMAIN s.args |-> Fill(s.args[i], value, task)] = FilledAll(s.args, value, task)
  <2>1. ASSUME NEW i \in DOMAIN s.args
        PROVE  Fill(s.args[i], value, task) = Filled(s.args[i], value, task)
    <3>1. s.args[i] \in Texts /\ s.args[i] \in ToSet(s.args)  BY <1>1 DEF ToSet
    <3>. QED  BY <3>1, FillIsFilled
  <2>. QED  BY <2>1 DEF FilledAll
<1>3. CASE s.key \notin DOMAIN values  BY <1>3 DEF SettingArgs, Adds
<1>4. CASE s.key \in DOMAIN values
  <2>. DEFINE v == values[s.key]
  <2>1. v.text \in Texts  BY <1>4 DEF Values
  <2>2. CASE s.kind = "args"
    <3>1. Declares(s, v) <=> MatchesKind(s.kind, v)  BY <2>2 DEF Declares, MatchesKind
    <3>2. SplitWhitespace(v.text) = Words(v.text)  BY <2>1, SplitIsWords
    <3>. QED  BY <1>4, <2>2, <3>1, <3>2 DEF SettingArgs, Adds
  <2>3. CASE s.kind = "flag"
    <3>1. Declares(s, v) <=> MatchesKind(s.kind, v) /\ v.text = <<"true">>
      BY <2>3 DEF Declares, MatchesKind
    <3>2. <<>> \in Texts  BY EmptySeq DEF Texts
    <3>3. [i \in DOMAIN s.args |-> Fill(s.args[i], <<>>, task)] = FilledAll(s.args, <<>>, task)
      BY <1>2, <3>2
    <3>. QED  BY <1>4, <2>3, <3>1, <3>3 DEF SettingArgs, Adds
  <2>4. CASE s.kind \in {"text", "number"}
    <3>1. Declares(s, v) <=> MatchesKind(s.kind, v)  BY <2>4 DEF Declares, MatchesKind
    <3>2. [i \in DOMAIN s.args |-> Fill(s.args[i], v.text, task)] = FilledAll(s.args, v.text, task)
      BY <1>2, <2>1
    <3>. QED  BY <1>4, <2>4, <3>1, <3>2 DEF SettingArgs, Adds
  <2>. QED  BY <1>1, <2>2, <2>3, <2>4 DEF SettingKind
<1>. QED  BY <1>3, <1>4

LEMMA CommandDeclared ==
  ASSUME NEW m \in Manifests, Valid(m), NEW values, Values(values), NEW task, TaskText(task)
  PROVE  LaunchCommand(m, values, task) = Declared(m, values, task)
<1>1. m.launch_args \in Seq(Texts) /\ m.settings \in Seq(Setting)  BY DEF Manifests
<1>2. /\ \A s \in ToSet(m.settings) : \A t \in ToSet(s.args) : CheckPlaceholders(t)
      /\ \A t \in ToSet(m.launch_args) : CheckPlaceholders(t)
  BY DEF Valid
<1>3. [i \in DOMAIN m.launch_args |-> Fill(m.launch_args[i], <<>>, task)]
        = FilledAll(m.launch_args, <<>>, task)
  <2>1. <<>> \in Texts  BY EmptySeq DEF Texts
  <2>2. ASSUME NEW i \in DOMAIN m.launch_args
        PROVE  Fill(m.launch_args[i], <<>>, task) = Filled(m.launch_args[i], <<>>, task)
    <3>1. m.launch_args[i] \in Texts /\ m.launch_args[i] \in ToSet(m.launch_args)
      BY <1>1 DEF ToSet
    <3>. QED  BY <1>2, <2>1, <3>1, FillIsFilled
  <2>. QED  BY <2>2 DEF FilledAll
<1>4. [i \in DOMAIN m.settings |-> SettingArgs(m.settings[i], values, task)]
        = [i \in DOMAIN m.settings |-> Adds(m.settings[i], values, task)]
  <2>1. ASSUME NEW i \in DOMAIN m.settings
        PROVE  SettingArgs(m.settings[i], values, task) = Adds(m.settings[i], values, task)
    <3>1. m.settings[i] \in Setting /\ m.settings[i] \in ToSet(m.settings)  BY <1>1 DEF ToSet
    <3>. QED  BY <1>2, <3>1, SettingsAdd
  <2>. QED  BY <2>1
<1>. QED  BY <1>3, <1>4 DEF LaunchCommand, LaunchArgs, Declared

(* A task is started with the command line its own adapter's manifest      *)
(* declares, and no other, whatever was edited, loaded and saved between   *)
(* the task's creation and its start (Adapter::launch_command).            *)
THEOREM LaunchesAreDeclared == RegistrySpec => []LaunchIsDeclared
<1>1. RegistryIInv => LaunchIsDeclared
  <2>. SUFFICES ASSUME RegistryIInv, launched # NoCommand PROVE LaunchIsDeclared
    BY DEF LaunchIsDeclared
  <2>. DEFINE t == launched.task
              m == Manifest[launched.entry.text]
              values == ValuesFor(launched.blob, t.adapter)
  <2>1. /\ WellFormed(launched.blob)
        /\ m.id = t.adapter /\ Parses(m)
        /\ (\E b \in ToSet(BuiltIn) : Manifest[b].id = t.adapter) =>
               launched.entry \in ToSet(BuiltIns)
        /\ launched.argv = LaunchCommand(m, values, t)
    BY DEF RegistryIInv, LaunchOK
  <2>2. t \in Task /\ launched.entry \in Entry /\ launched.blob \in Blob
    BY DEF RegistryIInv, RegistryTypeOK
  <2>3. m \in Manifests /\ Valid(m)
    <3>1. launched.entry.text \in Text  BY <2>2 DEF Entry
    <3>. QED  BY <2>1, <3>1, TextAssumption DEF Parses
  <2>4. Values(values)
    <3>1. CASE t.adapter \in DOMAIN launched.blob
      BY <2>1, <2>2, <3>1, BlobAssumption DEF ValuesFor, WellFormed
    <3>2. CASE t.adapter \notin DOMAIN launched.blob
      <4>1. values = <<>>  BY <3>2 DEF ValuesFor
      <4>2. Values(<<>>)  BY DEF Values
      <4>. QED  BY <4>1, <4>2
    <3>. QED  BY <3>1, <3>2
  <2>5. TaskText(t)  BY <2>2, TaskAssumption DEF TaskText
  <2>. HIDE DEF t, m, values
  <2>6. LaunchCommand(m, values, t) = Declared(m, values, t)  BY <2>3, <2>4, <2>5, CommandDeclared
  <2>. QED  BY <2>1, <2>6 DEF LaunchIsDeclared, t, m, values
<1>. QED  BY <1>1, RegistryInvariant, PTL

-----------------------------------------------------------------------------
(* The status tracker                                                      *)
-----------------------------------------------------------------------------

(* `consider`: what is seen is believed at once, confirmed, or put in      *)
(* doubt for one more poll; the clock and the marker are left alone.       *)
LEMMA ConsideredIs ==
  ASSUME NEW t \in Trackers, NEW seen \in Readings, NEW c, c = Considered(t, seen)
  PROVE  /\ c \in Trackers
         /\ c.stale_polls = t.stale_polls
         /\ \/ c.status = seen /\ c.pending = 0
               /\ (seen = "waiting" => t.status = "waiting" \/ t.pending >= WAITING_DEBOUNCE)
            \/ seen = "waiting" /\ t.status # "waiting" /\ c.status = t.status
               /\ c.pending = t.pending + 1
<1>1. seen \in Status /\ 0 \in Doubt  BY TrackerAssumption DEF Status, Doubt
<1>2. CASE seen = t.status
  <2>1. c = [t EXCEPT !.pending = 0]  BY <1>2 DEF Considered
  <2>2. c \in Trackers /\ c.pending = 0 /\ c.status = t.status /\ c.stale_polls = t.stale_polls
    BY <1>1, <2>1 DEF Trackers
  <2>. QED  BY <1>2, <2>2
<1>3. CASE seen # t.status /\ (seen # "waiting" \/ t.pending >= WAITING_DEBOUNCE)
  <2>1. c = [t EXCEPT !.status = seen, !.pending = 0]  BY <1>3 DEF Considered, Settled
  <2>2. c \in Trackers /\ c.pending = 0 /\ c.status = seen /\ c.stale_polls = t.stale_polls
    BY <1>1, <2>1 DEF Trackers
  <2>. QED  BY <1>3, <2>2
<1>4. CASE seen # t.status /\ seen = "waiting" /\ ~(t.pending >= WAITING_DEBOUNCE)
  <2>1. c = [t EXCEPT !.pending = t.pending + 1]  BY <1>4 DEF Considered
  <2>2. t.pending \in Doubt  BY DEF Trackers
  <2>3. t.pending + 1 \in Doubt  BY <1>4, <2>2, TrackerAssumption DEF Doubt
  <2>4. c \in Trackers /\ c.pending = t.pending + 1 /\ c.status = t.status
        /\ c.stale_polls = t.stale_polls
    BY <2>1, <2>3 DEF Trackers
  <2>. QED  BY <1>4, <2>4
<1>. QED  BY <1>2, <1>3, <1>4

(* `nothing_recognised`: the belief is kept while the clock allows it.     *)
LEMMA NothingRecognisedIs ==
  ASSUME NEW t \in Trackers, NEW c, c = NothingRecognised(t)
  PROVE  /\ c \in Trackers
         /\ c.pending = 0
         /\ \/ c.status = "idle"
            \/ /\ c.status = t.status /\ t.stale_polls + 1 <= STALENESS_CAP
               /\ c.stale_polls = t.stale_polls + 1
<1>1. PICK n : n = UpTo(t.stale_polls + 1, STALENESS_CAP + 1)  OBVIOUS
<1>2. PICK older : older = [t EXCEPT !.pending = 0, !.stale_polls = n]  OBVIOUS
<1>3. STALENESS_CAP \in Nat /\ t.stale_polls \in 0 .. STALENESS_CAP + 1
  BY TrackerAssumption DEF Trackers, Staleness
<1>4. /\ n \in Staleness /\ 0 \in Staleness /\ 0 \in Doubt /\ "idle" \in Status
      /\ n <= STALENESS_CAP => n = t.stale_polls + 1
  BY <1>1, <1>3, TrackerAssumption DEF UpTo, Staleness, Doubt, Status
<1>5. older \in Trackers /\ older.pending = 0 /\ older.status = t.status
      /\ older.stale_polls = n
  BY <1>2, <1>4 DEF Trackers
<1>6. c = IF n > STALENESS_CAP /\ t.status # "idle"
          THEN [older EXCEPT !.stale_polls = 0, !.status = "idle"]
          ELSE older
  BY <1>1, <1>2, <1>5 DEF NothingRecognised
<1>7. CASE n > STALENESS_CAP /\ t.status # "idle"
  <2>1. c = [older EXCEPT !.stale_polls = 0, !.status = "idle"]  BY <1>6, <1>7
  <2>2. c \in Trackers /\ c.pending = older.pending /\ c.status = "idle"
    BY <1>4, <1>5, <2>1 DEF Trackers
  <2>. QED  BY <1>5, <2>2
<1>8. CASE ~(n > STALENESS_CAP) /\ t.status # "idle"
  <2>1. n <= STALENESS_CAP  BY <1>3, <1>4, <1>8 DEF Staleness
  <2>. QED  BY <1>4, <1>5, <1>6, <1>8, <2>1
<1>9. CASE t.status = "idle"  BY <1>5, <1>6, <1>9
<1>. QED  BY <1>7, <1>8, <1>9

-----------------------------------------------------------------------------
(* Types and counts                                                        *)

(* A fresh tracker of a fresh session counts nothing.                      *)
LEMMA InitOK == Init => IInv
<1>. SUFFICES ASSUME Init PROVE IInv  OBVIOUS
<1>. USE TrackerAssumption
<1>1. now \in Marks  BY DEF Init, SomeMark
<1>m. missed \in BOOLEAN  BY Zenon DEF Init
<1>2. TypeOK  BY <1>1, <1>m DEF Init, TypeOK, Trackers, Status, Screens, Blank, Staleness, Doubt, Activity
<1>. QED  BY <1>2 DEF Init, IInv, CountsOK, EndOK

(* The one step that counts: the doubt grows only with what was shown, the *)
(* clock with what was not read.                                           *)
LEMMA CaptureOK == IInv /\ Capture => IInv'
<1>. SUFFICES ASSUME IInv, Capture PROVE IInv'  OBVIOUS
<1>t. PICK t : t = [tracker EXCEPT !.last_activity = answer]  OBVIOUS
<1>0. STALENESS_CAP \in Nat /\ WAITING_DEBOUNCE \in Nat /\ WAITING_DEBOUNCE > 0
  BY TrackerAssumption
<1>1. PICK output \in {screen} \cup (IF TmuxFails THEN {Blank} ELSE {}) :
        /\ tracker' = Polled(t, output)
        /\ shown'  = IF output = "waiting" THEN UpTo(shown + 1, WAITING_DEBOUNCE + 1) ELSE 0
        /\ unread' = IF output = Blank THEN UpTo(unread + 1, STALENESS_CAP + 1) ELSE 0
  BY <1>t DEF Capture
<1>2. /\ tracker \in Trackers /\ answer \in Activity
      /\ shown \in 0 .. WAITING_DEBOUNCE + 1 /\ unread \in 0 .. STALENESS_CAP + 1
      /\ screen \in Screens
  BY DEF IInv, TypeOK, Staleness
<1>3. /\ t \in Trackers /\ t.status = tracker.status /\ t.pending = tracker.pending
      /\ t.stale_polls = tracker.stale_polls
  BY <1>2, <1>t DEF Trackers
<1>4. output \in Screens  BY <1>1, <1>2 DEF Screens
<1>5. /\ tracker.pending <= shown
      /\ tracker.pending > 0 => tracker.status # "waiting"
      /\ tracker.status # "idle" => unread = tracker.stale_polls /\ unread <= STALENESS_CAP
  BY DEF IInv, CountsOK, Capture
<1>6. shown' \in 0 .. WAITING_DEBOUNCE + 1 /\ unread' \in 0 .. STALENESS_CAP + 1
  <2>1. UpTo(shown + 1, WAITING_DEBOUNCE + 1) \in 0 .. WAITING_DEBOUNCE + 1
    BY <1>0, <1>2 DEF UpTo
  <2>2. UpTo(unread + 1, STALENESS_CAP + 1) \in 0 .. STALENESS_CAP + 1
    BY <1>0, <1>2 DEF UpTo
  <2>. QED  BY <1>0, <1>1, <2>1, <2>2
<1>7. /\ tracker' \in Trackers /\ tracker'.pending <= shown'
      /\ tracker'.pending > 0 => tracker'.status # "waiting"
      /\ tracker'.status # "idle" => unread' = tracker'.stale_polls /\ unread' <= STALENESS_CAP
  <2>1. CASE output = Blank
    <3>1. tracker' = NothingRecognised(t)  BY <1>1, <2>1 DEF Polled
    <3>2. /\ tracker' \in Trackers /\ tracker'.pending = 0
          /\ \/ tracker'.status = "idle"
             \/ /\ tracker'.status = tracker.status /\ tracker.stale_polls + 1 <= STALENESS_CAP
                /\ tracker'.stale_polls = tracker.stale_polls + 1
      BY <1>3, <3>1, NothingRecognisedIs
    <3>3. CASE tracker'.status = "idle"  BY <1>6, <3>2, <3>3
    <3>4. CASE tracker'.status # "idle"
      <4>1. unread = tracker.stale_polls  BY <1>5, <3>2, <3>4
      <4>2. unread < STALENESS_CAP + 1  BY <1>0, <1>2, <3>2, <3>4, <4>1
      <4>3. unread' = unread + 1  BY <1>0, <1>1, <1>2, <2>1, <4>2 DEF UpTo
      <4>. QED  BY <1>0, <1>2, <1>6, <3>2, <3>4, <4>1, <4>3
    <3>. QED  BY <3>3, <3>4
  <2>2. CASE output # Blank
    <3>u. PICK u : u = [t EXCEPT !.stale_polls = 0]  OBVIOUS
    <3>1. tracker' = Considered(u, output)  BY <1>1, <2>2, <3>u DEF Polled
    <3>2. output \in Readings  BY <1>4, <2>2 DEF Screens
    <3>3. /\ u \in Trackers /\ u.status = tracker.status /\ u.pending = tracker.pending
          /\ u.stale_polls = 0
      <4>1. 0 \in Staleness  BY <1>0 DEF Staleness
      <4>. QED  BY <1>3, <3>u, <4>1 DEF Trackers
    <3>4. /\ tracker' \in Trackers /\ tracker'.stale_polls = 0
          /\ \/ tracker'.status = output /\ tracker'.pending = 0
             \/ output = "waiting" /\ tracker.status # "waiting"
                /\ tracker'.status = tracker.status /\ tracker'.pending = tracker.pending + 1
      BY <3>1, <3>2, <3>3, ConsideredIs
    <3>5. unread' = 0  BY <1>1, <2>2
    <3>6. CASE tracker'.pending = 0  BY <1>0, <1>6, <3>4, <3>5, <3>6
    <3>7. CASE tracker'.pending # 0
      <4>1. output = "waiting" /\ tracker'.pending = tracker.pending + 1
            /\ tracker'.status # "waiting"
        BY <3>4, <3>7
      <4>2. shown' = UpTo(shown + 1, WAITING_DEBOUNCE + 1)  BY <1>1, <4>1
      <4>3. tracker'.pending \in 0 .. WAITING_DEBOUNCE /\ tracker.pending \in 0 .. WAITING_DEBOUNCE
        BY <1>2, <3>4 DEF Trackers, Doubt
      <4>4. tracker'.pending <= shown'
        BY <1>0, <1>2, <1>5, <4>1, <4>2, <4>3 DEF UpTo
      <4>. QED  BY <1>0, <3>4, <3>5, <4>1, <4>4
    <3>. QED  BY <3>6, <3>7
  <2>. QED  BY <2>1, <2>2
<1>8. /\ UNCHANGED <<screen, process, now, written, restarts>> /\ phase' = "asleep"
      /\ answer' = NoMark
  BY DEF Capture, world
<1>9. missed' \in BOOLEAN  BY Zenon DEF Capture
<1>10. TypeOK'  BY <1>6, <1>7, <1>8, <1>9 DEF IInv, TypeOK, Staleness, Activity
<1>. QED  BY <1>7, <1>8, <1>10 DEF IInv, CountsOK, EndOK

(* Every step keeps the counts and the types.                              *)
LEMMA IInvStep == IInv /\ [Next]_vars => IInv'
<1>. SUFFICES ASSUME IInv, [Next]_vars PROVE IInv'  OBVIOUS
<1>0. STALENESS_CAP \in Nat /\ WAITING_DEBOUNCE \in Nat /\ MaxRestarts \in Nat
  BY TrackerAssumption
<1>. USE DEF IInv, TypeOK, CountsOK, EndOK
<1>1. ASSUME NEW s \in Screens, Write(s) PROVE IInv'  BY <1>1 DEF Write, history
<1>2. CASE Tick
  <2>1. now' \in Marks  BY <1>2 DEF Tick, SomeMark
  <2>. QED  BY <1>2, <2>1 DEF Tick, history
<1>3. ASSUME NEW how \in {"exited", "failed"}, Exit(how) PROVE IInv'  BY <1>3 DEF Exit, history
<1>4. CASE LookAtPane
  <2>1. UNCHANGED <<world, answer, restarts, history>>  BY <1>4 DEF LookAtPane
  <2>2. CASE process = "running"  BY <1>4, <2>1, <2>2 DEF LookAtPane, world, history
  <2>3. CASE process # "running"
    <3>1. PICK status \in {"stopped", "error"} :
            tracker' = [tracker EXCEPT !.status = status, !.pending = 0]
      BY <1>4, <2>3 DEF LookAtPane, Settled
    <3>2. tracker' \in Trackers /\ tracker'.pending = 0
      <4>1. status \in Status /\ 0 \in Doubt  BY <1>0 DEF Status, Doubt
      <4>. QED  BY <3>1, <4>1 DEF Trackers
    <3>3. phase' = "over"  BY <1>4, <2>3 DEF LookAtPane
    <3>. QED  BY <1>0, <2>1, <2>3, <3>2, <3>3 DEF world, history
  <2>. QED  BY <2>2, <2>3
<1>5. CASE AskActivity
  <2>1. answer' \in Activity  BY <1>5 DEF AskActivity, Activity
  <2>2. phase' \in {"asleep", "capture"}  BY <1>5 DEF AskActivity
  <2>. QED  BY <1>5, <2>1, <2>2 DEF AskActivity, world, history
<1>6. CASE Capture  BY <1>6, CaptureOK
<1>7. CASE Restart
  <2>1. tracker.status \in Status  BY DEF Trackers
  <2>2. /\ tracker' \in Trackers /\ tracker'.pending = 0 /\ tracker'.stale_polls = 0
    <3>1. 0 \in Staleness /\ 0 \in Doubt /\ NoMark \in Activity
      BY <1>0 DEF Staleness, Doubt, Activity
    <3>. QED  BY <1>7, <2>1, <3>1 DEF Restart, New, Trackers
  <2>3. missed' \in BOOLEAN  BY <1>7, Zenon DEF Restart
  <2>. QED  BY <1>0, <1>7, <2>2, <2>3 DEF Restart, world, Staleness, Activity
<1>8. CASE UNCHANGED vars  BY <1>8 DEF vars, world, history
<1>. QED  BY <1>1, <1>2, <1>3, <1>4, <1>5, <1>6, <1>7, <1>8 DEF Next, Poll

(* The counts hold in every reachable state.                               *)
LEMMA Counted == Spec => []IInv
BY InitOK, IInvStep, PTL DEF Spec

(* Every reachable state is of the right type, whatever the cap, the       *)
(* debounce, the markers of the adapter and the failures of tmux.          *)
THEOREM TypeCorrect == Spec => []TypeOK
BY Counted, PTL DEF IInv

(* A belief other than idle has been recognised within the staleness cap.  *)
THEOREM BeliefStaysRecent == Spec => []BeliefIsRecent
<1>1. IInv => BeliefIsRecent  BY DEF IInv, EndOK, CountsOK, BeliefIsRecent
<1>. QED  BY <1>1, Counted, PTL

-----------------------------------------------------------------------------
(* Beliefs                                                                 *)

(* What a capture does to the belief, with what it showed.                 *)
LEMMA CaptureBelieves ==
  ASSUME IInv, Capture
  PROVE  \/ /\ tracker'.status \in (Readings \ {"waiting"}) \cup {"idle", tracker.status}
            /\ tracker'.pending = 0
         \/ /\ tracker'.status = tracker.status /\ tracker.status # "waiting"
            /\ tracker'.pending > 0
         \/ /\ tracker'.status = "waiting" /\ tracker'.pending = 0
            /\ tracker.pending >= WAITING_DEBOUNCE
            /\ shown' = UpTo(shown + 1, WAITING_DEBOUNCE + 1)
<1>t. PICK t : t = [tracker EXCEPT !.last_activity = answer]  OBVIOUS
<1>1. PICK output \in {screen} \cup (IF TmuxFails THEN {Blank} ELSE {}) :
        /\ tracker' = Polled(t, output)
        /\ shown'  = IF output = "waiting" THEN UpTo(shown + 1, WAITING_DEBOUNCE + 1) ELSE 0
  BY <1>t DEF Capture
<1>2. tracker \in Trackers /\ answer \in Activity /\ screen \in Screens
  BY DEF IInv, TypeOK
<1>3. /\ t \in Trackers /\ t.status = tracker.status /\ t.pending = tracker.pending
  BY <1>2, <1>t DEF Trackers
<1>4. CASE output = Blank
  <2>1. tracker' = NothingRecognised(t)  BY <1>1, <1>4 DEF Polled
  <2>. QED  BY <1>3, <2>1, NothingRecognisedIs
<1>5. CASE output # Blank
  <2>u. PICK u : u = [t EXCEPT !.stale_polls = 0]  OBVIOUS
  <2>1. tracker' = Considered(u, output)  BY <1>1, <1>5, <2>u DEF Polled
  <2>2. output \in Readings  BY <1>1, <1>2, <1>5 DEF Screens
  <2>3. u \in Trackers /\ u.status = tracker.status /\ u.pending = tracker.pending
    <3>1. 0 \in Staleness  BY TrackerAssumption DEF Staleness
    <3>. QED  BY <1>3, <2>u, <3>1 DEF Trackers
  <2>4. \/ tracker'.status = output /\ tracker'.pending = 0
           /\ (output = "waiting" => tracker.status = "waiting"
                                     \/ tracker.pending >= WAITING_DEBOUNCE)
        \/ output = "waiting" /\ tracker.status # "waiting"
           /\ tracker'.status = tracker.status /\ tracker'.pending = tracker.pending + 1
    BY <2>1, <2>2, <2>3, ConsideredIs
  <2>5. CASE tracker'.status = output /\ tracker'.pending = 0
    BY <1>1, <2>2, <2>4, <2>5
  <2>6. CASE output = "waiting" /\ tracker.status # "waiting"
             /\ tracker'.status = tracker.status /\ tracker'.pending = tracker.pending + 1
    <3>1. tracker.pending \in 0 .. WAITING_DEBOUNCE  BY <1>2 DEF Trackers, Doubt
    <3>. QED  BY <2>6, <3>1, TrackerAssumption
  <2>. QED  BY <2>4, <2>5, <2>6
<1>. QED  BY <1>4, <1>5

(* No other step enters `waiting`.                                         *)
LEMMA OnlyCaptureBelieves ==
  ASSUME IInv, [Next]_vars, ~Capture
  PROVE  \/ UNCHANGED <<tracker, phase>>
         \/ phase # "over" /\ phase' # "over"
            /\ tracker'.status = tracker.status
            /\ (tracker' = tracker \/ tracker'.pending = 0)
         \/ phase # "over" /\ phase' = "over"
            /\ tracker'.status \in {"stopped", "error"} /\ tracker'.pending = 0
<1>0. tracker \in Trackers  BY DEF IInv, TypeOK
<1>1. ASSUME NEW s \in Screens, Write(s) PROVE UNCHANGED <<tracker, phase>>  BY <1>1 DEF Write, history
<1>2. CASE Tick  BY <1>2 DEF Tick
<1>3. ASSUME NEW how \in {"exited", "failed"}, Exit(how) PROVE UNCHANGED <<tracker, phase>>
  BY <1>3 DEF Exit
<1>4. CASE LookAtPane
  <2>1. CASE process = "running"  BY <1>4, <2>1 DEF LookAtPane
  <2>2. CASE process # "running"
    <3>1. PICK status \in {"stopped", "error"} :
            tracker' = [tracker EXCEPT !.status = status, !.pending = 0]
      BY <1>4, <2>2 DEF LookAtPane, Settled
    <3>2. tracker'.status = status /\ tracker'.pending = 0  BY <1>0, <3>1 DEF Trackers
    <3>. QED  BY <1>4, <2>2, <3>2 DEF LookAtPane
  <2>. QED  BY <2>1, <2>2
<1>5. CASE AskActivity  BY <1>5 DEF AskActivity
<1>7. CASE Restart  BY <1>7 DEF Restart, New
<1>8. CASE UNCHANGED vars  BY <1>8 DEF vars
<1>. QED  BY <1>1, <1>2, <1>3, <1>4, <1>5, <1>7, <1>8 DEF Next, Poll

(* A human is called only for a question that WAITING_DEBOUNCE + 1         *)
(* captures in a row have shown.                                           *)
THEOREM WaitingConfirmed == Spec => WaitingIsConfirmed
<1>1. ASSUME IInv, [Next]_vars, tracker'.status = "waiting", tracker.status # "waiting"
      PROVE  shown' > WAITING_DEBOUNCE
  <2>1. CASE Capture
    <3>1. /\ tracker.pending >= WAITING_DEBOUNCE
          /\ shown' = UpTo(shown + 1, WAITING_DEBOUNCE + 1)
      BY <1>1, <2>1, CaptureBelieves
    <3>2. /\ shown \in 0 .. WAITING_DEBOUNCE + 1 /\ tracker.pending <= shown
          /\ tracker.pending \in 0 .. WAITING_DEBOUNCE
      BY <1>1 DEF IInv, TypeOK, CountsOK, Trackers, Doubt
    <3>. QED  BY <3>1, <3>2, TrackerAssumption DEF UpTo
  <2>2. CASE ~Capture  BY <1>1, <2>2, OnlyCaptureBelieves
  <2>. QED  BY <2>1, <2>2
<1>2. IInv /\ [Next]_vars => [tracker'.status = "waiting" /\ tracker.status # "waiting"
                                => shown' > WAITING_DEBOUNCE]_vars
  BY <1>1
<1>. QED  BY <1>2, Counted, PTL DEF Spec, WaitingIsConfirmed

-----------------------------------------------------------------------------
(* Refinement                                                              *)

(* A new tracker is a reader that believes nothing.                        *)
LEMMA ReaderInit == Init => Reader!Init
BY DEF Init, Reader!Init

(* Every step of the poller, the agent and the clock is a step of the      *)
(* reader, or one it does not see.                                         *)
LEMMA ReaderStep ==
  IInv /\ [Next]_vars => [Reader!Next]_<<tracker.status, tracker.pending > 0, phase = "over">>
<1>. SUFFICES ASSUME IInv, [Next]_vars
              PROVE  [Reader!Next]_<<tracker.status, tracker.pending > 0, phase = "over">>
  OBVIOUS
<1>0. tracker.pending \in 0 .. WAITING_DEBOUNCE  BY DEF IInv, TypeOK, Trackers, Doubt
<1>1. CASE Capture
  <2>1. phase # "over" /\ phase' # "over"  BY <1>1 DEF Capture
  <2>2. CASE /\ tracker'.status \in (Readings \ {"waiting"}) \cup {"idle", tracker.status}
             /\ tracker'.pending = 0
    BY <2>1, <2>2 DEF Reader!Next, Reader!Settle
  <2>3. CASE /\ tracker'.status = tracker.status /\ tracker.status # "waiting"
             /\ tracker'.pending > 0
    BY <2>1, <2>3 DEF Reader!Next, Reader!Suspect
  <2>4. CASE /\ tracker'.status = "waiting" /\ tracker'.pending = 0
             /\ tracker.pending >= WAITING_DEBOUNCE
    BY <1>0, <2>1, <2>4, TrackerAssumption DEF Reader!Next, Reader!Confirm
  <2>. QED  BY <1>1, <2>2, <2>3, <2>4, CaptureBelieves
<1>2. CASE ~Capture
  <2>1. CASE UNCHANGED <<tracker, phase>>  BY <2>1
  <2>2. CASE /\ phase # "over" /\ phase' # "over" /\ tracker'.status = tracker.status
             /\ (tracker' = tracker \/ tracker'.pending = 0)
    BY <2>2 DEF Reader!Next, Reader!Settle
  <2>3. CASE /\ phase # "over" /\ phase' = "over"
             /\ tracker'.status \in {"stopped", "error"} /\ tracker'.pending = 0
    BY <2>3 DEF Reader!Next, Reader!End
  <2>. QED  BY <1>2, <2>1, <2>2, <2>3, OnlyCaptureBelieves
<1>. QED  BY <1>1, <1>2

(* The tracker implements the status reader the session manager relies on. *)
THEOREM TrackerReads == Spec => ReadsStatuses
BY ReaderInit, ReaderStep, Counted, PTL DEF Spec, ReadsStatuses, Reader!Spec
=============================================================================
