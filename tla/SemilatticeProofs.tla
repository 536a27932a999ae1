--------------------------- MODULE SemilatticeProofs ---------------------------
(***************************************************************************)
(* Proofs about the cluster's metadata, for any number of servers and keys,*)
(* whatever their clocks show: no step takes metadata back, servers which  *)
(* have exchanged their messages agree, and a sync brings what it promises.*)
(***************************************************************************)
EXTENDS Semilattice, Integers, TLAPS

(* What is left of a queue when its i-th message is taken: those behind it *)
(* move up by one.                                                         *)
LEMMA DropAtIs ==
    ASSUME NEW S, NEW q \in Seq(S), NEW i \in 1 .. Len(q)
    PROVE  /\ DropAt(q, i) \in Seq(S)
           /\ Len(DropAt(q, i)) = Len(q) - 1
           /\ \A j \in 1 .. Len(q) - 1 : DropAt(q, i)[j] = IF j < i THEN q[j] ELSE q[j + 1]
<1>1. Len(q) \in Nat /\ Len(q) - 1 \in Nat /\ \A j \in 1 .. Len(q) : q[j] \in S
  OBVIOUS
<1>2. \A j \in 1 .. Len(q) - 1 : (IF j < i THEN q[j] ELSE q[j + 1]) \in S
  BY <1>1
<1> QED
  BY <1>1, <1>2 DEF DropAt

--------------------------------------------------------------------------------
(* The joins: entries are in one line, Absent first and Deleted last, and  *)
(* a join takes the greater of the two.                                    *)

SlValues == [kind : {"value"}, ts : Nat, tag : Nat]
SlEntries == {Absent, Deleted} \cup SlValues
Metadata == [SlKeys -> SlEntries]

Below(a, b) ==
    \/ a = Absent \/ b = Deleted
    \/ /\ a.kind = "value" /\ b.kind = "value"
       /\ a.ts < b.ts \/ (a.ts = b.ts /\ a.tag <= b.tag)

(* An entry is absent, deleted or a value.                                 *)
LEMMA EntriesAre ==
    ASSUME NEW e \in SlEntries
    PROVE  /\ e = Absent \/ e = Deleted \/ (e \in SlValues /\ e # Absent /\ e # Deleted)
           /\ e.kind = "value" <=> e \in SlValues
           /\ Absent # Deleted
  BY DEF SlEntries, SlValues, Absent, Deleted

(* Values of one time and tag are one value.                               *)
LEMMA ValuesDiffer ==
    ASSUME NEW a \in SlValues, NEW b \in SlValues, a.ts = b.ts, a.tag = b.tag
    PROVE  a = b
  BY DEF SlValues

(* Below is an order,                                                      *)
LEMMA BelowIsReflexive == \A a \in SlEntries : Below(a, a)
  BY EntriesAre DEF Below, SlValues

(* it has all entries in one line,                                         *)
LEMMA BelowIsTotal == \A a, b \in SlEntries : Below(a, b) \/ Below(b, a)
<1> SUFFICES ASSUME NEW a \in SlEntries, NEW b \in SlEntries PROVE Below(a, b) \/ Below(b, a)
  BY Zenon
<1>1. CASE a \in SlValues /\ b \in SlValues
  <2>1. PICK t, u, m, n \in Nat : t = a.ts /\ u = b.ts /\ m = a.tag /\ n = b.tag
    BY Zenon, <1>1 DEF SlValues
  <2>2. a.kind = "value" /\ b.kind = "value"
    BY Zenon, <1>1 DEF SlValues
  <2>3. (t < u \/ (t = u /\ m <= n)) \/ (u < t \/ (u = t /\ n <= m))
    BY ONLY t \in Nat, u \in Nat, m \in Nat, n \in Nat
  <2> QED
    BY Zenon, <2>1, <2>2, <2>3 DEF Below
<1> QED
  BY Zenon, <1>1, EntriesAre DEF Below

(* no two at one place,                                                    *)
LEMMA BelowIsAntisymmetric ==
    ASSUME NEW a \in SlEntries, NEW b \in SlEntries, Below(a, b), Below(b, a)
    PROVE  a = b
<1>1. CASE a \in SlValues /\ b \in SlValues
  <2>1. PICK t, u, m, n \in Nat : t = a.ts /\ u = b.ts /\ m = a.tag /\ n = b.tag
    BY Zenon, <1>1 DEF SlValues
  <2>2. a # Absent /\ b # Absent /\ a # Deleted /\ b # Deleted
    BY Zenon, <1>1, EntriesAre DEF SlValues, Absent, Deleted
  <2>3. (t < u \/ (t = u /\ m <= n)) /\ (u < t \/ (u = t /\ n <= m))
    BY Zenon, <2>1, <2>2 DEF Below
  <2>4. t = u /\ m = n
    BY ONLY <2>3, t \in Nat, u \in Nat, m \in Nat, n \in Nat
  <2> QED
    BY Zenon, <2>1, <2>4, <1>1, ValuesDiffer
<1>2. CASE a = Absent \/ a = Deleted \/ b = Absent \/ b = Deleted
  BY <1>2, EntriesAre DEF Below, Absent, Deleted, SlValues
<1> QED
  BY Zenon, <1>1, <1>2, EntriesAre

(* and it goes one way.                                                    *)
LEMMA BelowIsTransitive ==
    ASSUME NEW a \in SlEntries, NEW b \in SlEntries, NEW c \in SlEntries, Below(a, b), Below(b, c)
    PROVE  Below(a, c)
<1>1. CASE a \in SlValues /\ b \in SlValues /\ c \in SlValues
  <2>1. PICK t, u, w, m, n, o \in Nat :
            /\ t = a.ts /\ u = b.ts /\ w = c.ts /\ m = a.tag /\ n = b.tag /\ o = c.tag
    BY Zenon, <1>1 DEF SlValues
  <2>2. \A e \in {a, b, c} : e.kind = "value" /\ e # Absent /\ e # Deleted
    BY <1>1 DEF SlValues, Absent, Deleted
  <2>3. (t < u \/ (t = u /\ m <= n)) /\ (u < w \/ (u = w /\ n <= o))
    BY Zenon, <2>1, <2>2 DEF Below
  <2>4. t < w \/ (t = w /\ m <= o)
    BY ONLY <2>3, t \in Nat, u \in Nat, w \in Nat, m \in Nat, n \in Nat, o \in Nat
  <2> QED
    BY Zenon, <2>1, <2>2, <2>4 DEF Below
<1>2. CASE \E e \in {a, b, c} : e = Absent \/ e = Deleted
  BY Zenon, <1>2, EntriesAre DEF Below, Absent, Deleted, SlValues
<1> QED
  BY Zenon, <1>1, <1>2, EntriesAre

\* A join takes the greater entry of each key
LEMMA JoinIsGreater ==
    ASSUME NEW a \in Metadata, NEW b \in Metadata
    PROVE  /\ MapJoin(a, b) \in Metadata
           /\ \A k \in SlKeys : MapJoin(a, b)[k] = IF Below(a[k], b[k]) THEN b[k] ELSE a[k]
<1>1. ASSUME NEW k \in SlKeys
      PROVE  MapJoin(a, b)[k] = IF Below(a[k], b[k]) THEN b[k] ELSE a[k]
  <2>1. PICK x, y : x = a[k] /\ y = b[k] /\ x \in SlEntries /\ y \in SlEntries
    BY Zenon DEF Metadata
  <2>2. MapJoin(a, b)[k] = IF y = Absent THEN x ELSE IF x = Absent THEN y ELSE DeletableJoin(x, y)
    BY Zenon, <2>1 DEF MapJoin
  <2>3. CASE x \in SlValues /\ y \in SlValues
    <3>1. PICK t, u, m, n \in Nat : t = x.ts /\ u = y.ts /\ m = x.tag /\ n = y.tag
      BY Zenon, <2>3 DEF SlValues
    <3>2. x # Absent /\ y # Absent /\ x # Deleted /\ y # Deleted /\ x.kind = "value" /\ y.kind = "value"
      BY <2>3 DEF SlValues, Absent, Deleted
    <3>3. MapJoin(a, b)[k] = IF t < u \/ (t = u /\ m < n) THEN y ELSE x
      BY Zenon, <2>2, <3>1, <3>2 DEF DeletableJoin, VersionedJoin
    <3>4. Below(x, y) <=> (t < u \/ (t = u /\ m <= n))
      BY Zenon, <3>1, <3>2 DEF Below
    <3>5. (t = u /\ m = n) => x = y
      BY Zenon, <3>1, <2>3, ValuesDiffer
    <3>6. (t < u \/ (t = u /\ m < n)) <=> ((t < u \/ (t = u /\ m <= n)) /\ ~ (t = u /\ m = n))
      BY ONLY t \in Nat, u \in Nat, m \in Nat, n \in Nat
    <3> QED
      BY Zenon, <2>1, <3>3, <3>4, <3>5, <3>6
  <2>4. CASE x = Absent \/ x = Deleted \/ y = Absent \/ y = Deleted
    <3>1. MapJoin(a, b)[k] = IF Below(x, y) THEN y ELSE x
      BY Zenon, <2>1, <2>2, <2>4, EntriesAre DEF DeletableJoin, Below, Absent, Deleted, SlValues
    <3> QED
      BY Zenon, <3>1, <2>1
  <2> QED
    BY Zenon, <2>1, <2>3, <2>4, EntriesAre
<1>2. MapJoin(a, b) = [k \in SlKeys |-> MapJoin(a, b)[k]]
  BY Zenon DEF MapJoin
<1>3. \A k \in SlKeys : MapJoin(a, b)[k] \in SlEntries
  BY Zenon, <1>1 DEF Metadata
<1>4. MapJoin(a, b) \in Metadata
  BY ONLY Zenon, <1>2, <1>3 DEF Metadata
<1> QED
  BY Zenon, <1>1, <1>4


(* semilattice_join() is the least entry above both.                       *)
LEMMA JoinIsAbove ==
    ASSUME NEW a \in Metadata, NEW b \in Metadata, NEW k \in SlKeys
    PROVE  /\ Below(a[k], MapJoin(a, b)[k]) /\ Below(b[k], MapJoin(a, b)[k])
           /\ MapJoin(a, b)[k] = a[k] \/ MapJoin(a, b)[k] = b[k]
<1>1. a[k] \in SlEntries /\ b[k] \in SlEntries
  BY Zenon DEF Metadata
<1>2. MapJoin(a, b)[k] = IF Below(a[k], b[k]) THEN b[k] ELSE a[k]
  BY Zenon, JoinIsGreater
<1> QED
  BY Zenon, <1>1, <1>2, BelowIsReflexive, BelowIsTotal

(* Metadata has been joined when it is below, key by key.                  *)
LEMMA IsInMeans ==
    ASSUME NEW a \in Metadata, NEW b \in Metadata
    PROVE  IsIn(a, b) <=> \A k \in SlKeys : Below(a[k], b[k])
<1>1. /\ MapJoin(b, a) \in Metadata
      /\ \A k \in SlKeys : MapJoin(b, a)[k] = IF Below(b[k], a[k]) THEN a[k] ELSE b[k]
  BY Zenon, JoinIsGreater
<1>2. \A k \in SlKeys : a[k] \in SlEntries /\ b[k] \in SlEntries
  BY Zenon DEF Metadata
<1>3. ASSUME NEW k \in SlKeys PROVE MapJoin(b, a)[k] = b[k] <=> Below(a[k], b[k])
  <2>1. CASE Below(b[k], a[k])
    BY Zenon, <2>1, <1>1, <1>2, BelowIsAntisymmetric, BelowIsReflexive
  <2>2. CASE ~ Below(b[k], a[k])
    BY Zenon, <2>2, <1>1, <1>2, BelowIsTotal
  <2> QED
    BY Zenon, <2>1, <2>2
<1>4. MapJoin(b, a) = b <=> \A k \in SlKeys : MapJoin(b, a)[k] = b[k]
  BY <1>1 DEF Metadata
<1> QED
  BY Zenon, <1>3, <1>4 DEF IsIn

(* A server without metadata is below all others.                          *)
LEMMA NoMetadataIsLeast ==
    /\ NoMetadata \in Metadata
    /\ \A k \in SlKeys : NoMetadata[k] = Absent
    /\ \A e \in SlEntries : Below(Absent, e) /\ (Below(e, Absent) => e = Absent)
  BY Zenon, BelowIsAntisymmetric DEF NoMetadata, Metadata, SlEntries, Below

--------------------------------------------------------------------------------
(* What is on its way from one server to another, data, and what is there, *)
(* meta: a change e of key k is carried by them if it is there, or will be *)
(* when the first n messages are handled.                                  *)

SlMessages == [md : Metadata, v : Nat]

Carried(e, k, meta, data, n) ==
    Below(e, meta[k]) \/ \E j \in 1 .. n : Below(e, data[j].md[k])

(* Whoever has seen version v, or comes to it, has md by then.             *)
Brings(md, v, meta, data, seen) ==
    /\ seen > v => \A k \in SlKeys : Below(md[k], meta[k])
    /\ \A i \in 1 .. Len(data) :
         data[i].v >= v => \A k \in SlKeys : Carried(md[k], k, meta, data, i)

(* What was carried stays carried as metadata grows.                       *)
LEMMA CarriedGrows ==
    ASSUME NEW e \in SlEntries, NEW k \in SlKeys, NEW meta \in Metadata, NEW more \in Metadata,
           Below(meta[k], more[k]), NEW data, NEW m \in Nat, NEW n \in Nat, m <= n,
           Carried(e, k, meta, data, m)
    PROVE  Carried(e, k, more, data, n)
<1>1. meta[k] \in SlEntries /\ more[k] \in SlEntries
  BY Zenon DEF Metadata
<1>2. CASE Below(e, meta[k])
  BY Zenon, <1>1, <1>2, BelowIsTransitive DEF Carried
<1>3. CASE \E j \in 1 .. m : Below(e, data[j].md[k])
  BY <1>3 DEF Carried
<1> QED
  BY Zenon, <1>2, <1>3 DEF Carried

(* Who carries an entry carries those below it.                            *)
LEMMA CarriedOfLess ==
    ASSUME NEW e \in SlEntries, NEW f \in SlEntries, Below(f, e), NEW k \in SlKeys,
           NEW meta \in Metadata, NEW data \in Seq(SlMessages), NEW n \in 0 .. Len(data),
           Carried(e, k, meta, data, n)
    PROVE  Carried(f, k, meta, data, n)
<1>1. meta[k] \in SlEntries
  BY Zenon DEF Metadata
<1>2. CASE Below(e, meta[k])
  BY Zenon, <1>1, <1>2, BelowIsTransitive DEF Carried
<1>3. ASSUME NEW j \in 1 .. n, Below(e, data[j].md[k]) PROVE Carried(f, k, meta, data, n)
  <2>1. data[j] \in SlMessages
    OBVIOUS
  <2>2. data[j].md[k] \in SlEntries
    BY Zenon, <2>1 DEF SlMessages, Metadata
  <2> QED
    BY Zenon, <2>2, <1>3, BelowIsTransitive DEF Carried
<1> QED
  BY Zenon, <1>2, <1>3 DEF Carried

(* Another message takes nothing away from what was carried.               *)
LEMMA CarriedAppended ==
    ASSUME NEW e \in SlEntries, NEW k \in SlKeys, NEW meta \in Metadata,
           NEW data \in Seq(SlMessages), NEW m \in SlMessages
    PROVE  /\ \A n \in 0 .. Len(data) :
                Carried(e, k, meta, data, n) => Carried(e, k, meta, Append(data, m), n)
           /\ (Carried(e, k, meta, data, Len(data)) \/ Below(e, m.md[k])) =>
                Carried(e, k, meta, Append(data, m), Len(data) + 1)
<1>1. /\ Len(data) \in Nat /\ Len(Append(data, m)) = Len(data) + 1
      /\ Append(data, m)[Len(data) + 1] = m
      /\ \A j \in 1 .. Len(data) : Append(data, m)[j] = data[j]
  OBVIOUS
<1>2. \A n \in 0 .. Len(data) : \A j \in 1 .. n : j \in 1 .. Len(data) /\ j \in 1 .. Len(data) + 1
  BY <1>1
<1>3. \A n \in 0 .. Len(data) : Carried(e, k, meta, data, n) => Carried(e, k, meta, Append(data, m), n)
  BY Zenon, <1>1, <1>2 DEF Carried
<1>4. Len(data) \in 0 .. Len(data) /\ Len(data) + 1 \in 1 .. Len(data) + 1
  BY <1>1
<1>5. Carried(e, k, meta, data, Len(data)) => Carried(e, k, meta, Append(data, m), Len(data) + 1)
  BY Zenon, <1>1, <1>2, <1>4 DEF Carried
<1>6. Below(e, m.md[k]) => Carried(e, k, meta, Append(data, m), Len(data) + 1)
  BY Zenon, <1>1, <1>4 DEF Carried
<1> QED
  BY Zenon, <1>3, <1>5, <1>6


\* Handling the i-th message leaves everything carried that was
LEMMA CarriedHandled ==
    ASSUME NEW e \in SlEntries, NEW k \in SlKeys, NEW meta \in Metadata, NEW data \in Seq(SlMessages),
           NEW i \in 1 .. Len(data), NEW n \in i .. Len(data), Carried(e, k, meta, data, n)
    PROVE  Carried(e, k, MapJoin(meta, data[i].md), DropAt(data, i), n - 1)
<1>1. data[i] \in SlMessages /\ Len(data) \in Nat
  OBVIOUS
<1>2. data[i].md \in Metadata
  BY Zenon, <1>1 DEF SlMessages
<1>3. PICK x, y, z : x = meta[k] /\ y = data[i].md[k] /\ z = MapJoin(meta, data[i].md)[k]
  BY Zenon
<1>4. x \in SlEntries /\ y \in SlEntries /\ z \in SlEntries /\ Below(x, z) /\ Below(y, z)
  BY <1>2, <1>3, JoinIsAbove, JoinIsGreater DEF Metadata
<1>5. CASE Below(e, meta[k]) \/ Below(e, data[i].md[k])
  BY Zenon, <1>3, <1>4, <1>5, BelowIsTransitive DEF Carried
<1>6. ASSUME NEW j \in 1 .. n, j # i, Below(e, data[j].md[k])
      PROVE  Carried(e, k, MapJoin(meta, data[i].md), DropAt(data, i), n - 1)
  <2>1. \A h \in 1 .. Len(data) - 1 : DropAt(data, i)[h] = IF h < i THEN data[h] ELSE data[h + 1]
    BY Zenon, DropAtIs
  <2>2. CASE j < i
    <3>1. j \in 1 .. Len(data) - 1 /\ j \in 1 .. n - 1
      BY <2>2, <1>1
    <3> QED
      BY Zenon, <2>1, <2>2, <3>1, <1>6 DEF Carried
  <2>3. CASE j > i
    <3>1. j - 1 \in 1 .. Len(data) - 1 /\ j - 1 \in 1 .. n - 1 /\ ~ (j - 1 < i) /\ (j - 1) + 1 = j
      BY <2>3, <1>1
    <3>2. DropAt(data, i)[j - 1] = data[j]
      BY Zenon, <2>1, <3>1
    <3> QED
      BY Zenon, <3>1, <3>2, <1>6 DEF Carried
  <2> QED
    BY <2>2, <2>3, <1>6
<1> QED
  BY Zenon, <1>5, <1>6 DEF Carried

(* What messages bring they bring to more metadata.                        *)
LEMMA BringsGrows ==
    ASSUME NEW md \in Metadata, NEW v \in Nat, NEW meta \in Metadata, NEW more \in Metadata,
           \A k \in SlKeys : Below(meta[k], more[k]),
           NEW data \in Seq(SlMessages), NEW seen \in Nat, Brings(md, v, meta, data, seen)
    PROVE  Brings(md, v, more, data, seen) /\ Brings(md, v, more, <<>>, seen)
<1>1. \A k \in SlKeys : md[k] \in SlEntries /\ meta[k] \in SlEntries /\ more[k] \in SlEntries
  BY Zenon DEF Metadata
<1>2. seen > v => \A k \in SlKeys : Below(md[k], more[k])
  BY Zenon, <1>1, BelowIsTransitive DEF Brings
<1>3. ASSUME NEW i \in 1 .. Len(data), data[i].v >= v, NEW k \in SlKeys
      PROVE  Carried(md[k], k, more, data, i)
  <2>1. Carried(md[k], k, meta, data, i) /\ i \in Nat
    BY <1>3 DEF Brings
  <2> QED
    BY <2>1, <1>1, CarriedGrows
<1> QED
  BY <1>2, <1>3 DEF Brings

(* Another message takes nothing away from what messages bring.            *)
LEMMA BringsAppended ==
    ASSUME NEW md \in Metadata, NEW v \in Nat, NEW meta \in Metadata,
           NEW data \in Seq(SlMessages), NEW m \in SlMessages, NEW seen \in Nat,
           Brings(md, v, meta, data, seen),
           \A k \in SlKeys : Carried(md[k], k, meta, data, Len(data)) \/ Below(md[k], m.md[k])
    PROVE  Brings(md, v, meta, Append(data, m), seen)
<1>1. /\ Len(data) \in Nat /\ Len(Append(data, m)) = Len(data) + 1
      /\ \A j \in 1 .. Len(data) : Append(data, m)[j] = data[j]
  OBVIOUS
<1>2. \A k \in SlKeys : md[k] \in SlEntries
  BY Zenon DEF Metadata
<1>3. ASSUME NEW i \in 1 .. Len(Append(data, m)), Append(data, m)[i].v >= v, NEW k \in SlKeys
      PROVE  Carried(md[k], k, meta, Append(data, m), i)
  <2>1. CASE i = Len(data) + 1
    BY Zenon, <2>1, <1>2, CarriedAppended
  <2>2. CASE i # Len(data) + 1
    <3>1. i \in 1 .. Len(data) /\ i \in 0 .. Len(data)
      BY <2>2, <1>1
    <3>2. Carried(md[k], k, meta, data, i)
      BY Zenon, <3>1, <1>1, <1>3 DEF Brings
    <3> QED
      BY Zenon, <3>1, <3>2, <1>2, CarriedAppended
  <2> QED
    BY Zenon, <2>1, <2>2
<1> QED
  BY Zenon, <1>3 DEF Brings

(* A handled message has brought what it had to.                           *)
LEMMA BringsHandled ==
    ASSUME NEW md \in Metadata, NEW v \in Nat, NEW meta \in Metadata,
           NEW data \in Seq(SlMessages), 1 \in 1 .. Len(data), NEW seen \in Nat,
           Brings(md, v, meta, data, seen)
    PROVE  Brings(md, v, MapJoin(meta, data[1].md), DropAt(data, 1), Max2(seen, data[1].v + 1))
<1>1. data[1] \in SlMessages /\ Len(data) \in Nat
  OBVIOUS
<1>2. data[1].md \in Metadata /\ data[1].v \in Nat
  BY Zenon, <1>1 DEF SlMessages
<1>3. \A k \in SlKeys : md[k] \in SlEntries
  BY Zenon DEF Metadata
<1>4. /\ Len(DropAt(data, 1)) = Len(data) - 1
      /\ \A h \in 1 .. Len(data) - 1 : DropAt(data, 1)[h] = IF h < 1 THEN data[h] ELSE data[h + 1]
  BY Zenon, DropAtIs
<1>5. ASSUME Max2(seen, data[1].v + 1) > v, NEW k \in SlKeys
      PROVE  Below(md[k], MapJoin(meta, data[1].md)[k])
  <2>1. seen > v \/ data[1].v >= v
    BY <1>2, <1>5 DEF Max2
  <2>2. Carried(md[k], k, meta, data, 1)
    BY Zenon, <2>1 DEF Brings, Carried
  <2>3. Carried(md[k], k, MapJoin(meta, data[1].md), DropAt(data, 1), 0)
    BY <2>2, <1>1, <1>3, CarriedHandled
  <2> QED
    BY <2>3 DEF Carried
<1>6. ASSUME NEW i \in 1 .. Len(DropAt(data, 1)), DropAt(data, 1)[i].v >= v, NEW k \in SlKeys
      PROVE  Carried(md[k], k, MapJoin(meta, data[1].md), DropAt(data, 1), i)
  <2>1. i \in 1 .. Len(data) - 1 /\ i + 1 \in 1 .. Len(data) /\ ~ (i < 1) /\ (i + 1) - 1 = i
    BY <1>1, <1>4
  <2>2. Carried(md[k], k, meta, data, i + 1)
    BY Zenon, <2>1, <1>4, <1>6 DEF Brings
  <2> QED
    BY Zenon, <2>1, <2>2, <1>3, CarriedHandled
<1> QED
  BY Zenon, <1>5, <1>6 DEF Brings


--------------------------------------------------------------------------------
(* Of a server whose own changes are own, at version v, and a peer with    *)
(* meta: what the peer has seen and what is on its way to it is not newer  *)
(* than v, and, if the server knows of the connection, no change is lost   *)
(* between the two.                                                        *)

VersionsOK(v, data, seen) ==
    seen <= v + 1 /\ \A i \in 1 .. Len(data) : data[i].v <= v

Reaches(own, v, meta, data, seen) ==
    /\ \A k \in SlKeys : Carried(own[k], k, meta, data, Len(data))
    /\ seen = v + 1 \/ \E i \in 1 .. Len(data) : data[i].v = v

(* What reaches a server reaches one that knows more.                      *)
LEMMA ReachesGrows ==
    ASSUME NEW own \in Metadata, NEW v \in Nat, NEW meta \in Metadata,
           NEW data \in Seq(SlMessages), NEW seen \in Nat, Reaches(own, v, meta, data, seen),
           NEW more \in Metadata, \A k \in SlKeys : Below(meta[k], more[k])
    PROVE  Reaches(own, v, more, data, seen)
<1>1. Len(data) \in Nat /\ \A k \in SlKeys : own[k] \in SlEntries
  BY DEF Metadata
<1>2. \A k \in SlKeys : Carried(own[k], k, more, data, Len(data))
  BY <1>1, CarriedGrows DEF Reaches
<1> QED
  BY Zenon, <1>2 DEF Reaches

\* A change of its own, which the server does not tell the peer
LEMMA PairChanges ==
    ASSUME NEW v \in Nat, NEW meta, NEW data \in Seq(SlMessages), NEW seen \in Nat, NEW own,
           VersionsOK(v, data, seen)
    PROVE  VersionsOK(v + 1, data, seen) /\ Brings(own, v + 1, meta, data, seen)
<1>1. seen <= v + 1 /\ \A i \in 1 .. Len(data) : data[i].v \in Nat /\ data[i].v <= v
  <2>1. \A i \in 1 .. Len(data) : data[i] \in SlMessages
    OBVIOUS
  <2> QED
    BY Zenon, <2>1 DEF VersionsOK, SlMessages
<1>2. ~ (seen > v + 1) /\ \A i \in 1 .. Len(data) : ~ (data[i].v >= v + 1) /\ data[i].v <= v + 1
  BY <1>1
<1>3. seen <= (v + 1) + 1
  BY <1>1
<1> QED
  BY Zenon, <1>2, <1>3 DEF Brings, VersionsOK

\* ... and one that it does
LEMMA PairIsTold ==
    ASSUME NEW own \in Metadata, NEW v \in Nat, NEW meta \in Metadata,
           NEW data \in Seq(SlMessages), NEW seen \in Nat,
           VersionsOK(v, data, seen), Reaches(own, v, meta, data, seen),
           NEW md \in Metadata, NEW m \in SlMessages, m.md = md, m.v = v + 1
    PROVE  /\ VersionsOK(v + 1, Append(data, m), seen)
           /\ Brings(MapJoin(own, md), v + 1, meta, Append(data, m), seen)
           /\ Reaches(MapJoin(own, md), v + 1, meta, Append(data, m), seen)
<1>1. MapJoin(own, md) \in Metadata /\ v + 1 \in Nat
  BY JoinIsGreater
<1>2. VersionsOK(v + 1, data, seen) /\ Brings(MapJoin(own, md), v + 1, meta, data, seen)
  BY Zenon, PairChanges
<1>3. /\ Len(data) \in Nat /\ Len(Append(data, m)) = Len(data) + 1
      /\ Append(data, m)[Len(data) + 1] = m
      /\ \A j \in 1 .. Len(data) : Append(data, m)[j] = data[j]
  OBVIOUS
<1>4. ASSUME NEW k \in SlKeys
      PROVE  Carried(MapJoin(own, md)[k], k, meta, data, Len(data)) \/ Below(MapJoin(own, md)[k], m.md[k])
  <2>1. own[k] \in SlEntries /\ md[k] \in SlEntries
    BY Zenon DEF Metadata
  <2>2. CASE MapJoin(own, md)[k] = own[k]
    BY Zenon, <2>2 DEF Reaches
  <2>3. CASE MapJoin(own, md)[k] = md[k]
    BY Zenon, <2>1, <2>3, BelowIsReflexive
  <2> QED
    BY <2>2, <2>3, JoinIsAbove
<1>5. Brings(MapJoin(own, md), v + 1, meta, Append(data, m), seen)
  BY Zenon, <1>1, <1>2, <1>4, BringsAppended
<1>6. \A k \in SlKeys : Carried(MapJoin(own, md)[k], k, meta, Append(data, m), Len(data) + 1)
  BY Zenon, <1>1, <1>4, CarriedAppended DEF Metadata
<1>7. \A i \in 1 .. Len(data) + 1 : Append(data, m)[i].v <= v + 1
  BY <1>1, <1>2, <1>3 DEF VersionsOK
<1>8. Len(data) + 1 \in 1 .. Len(data) + 1
  BY <1>3
<1> QED
  BY Zenon, <1>2, <1>3, <1>5, <1>6, <1>7, <1>8 DEF VersionsOK, Reaches

\* All of the metadata, sent over a new connection
LEMMA PairConnects ==
    ASSUME NEW own \in Metadata, NEW v \in Nat, NEW meta \in Metadata,
           NEW data \in Seq(SlMessages), NEW seen \in Nat, VersionsOK(v, data, seen),
           NEW m \in SlMessages, m.v = v, \A k \in SlKeys : Below(own[k], m.md[k])
    PROVE  /\ VersionsOK(v, Append(data, m), seen)
           /\ Reaches(own, v, meta, Append(data, m), seen)
<1>1. /\ Len(data) \in Nat /\ Len(Append(data, m)) = Len(data) + 1
      /\ Append(data, m)[Len(data) + 1] = m
      /\ \A j \in 1 .. Len(data) : Append(data, m)[j] = data[j]
  OBVIOUS
<1>2. \A k \in SlKeys : Carried(own[k], k, meta, Append(data, m), Len(data) + 1)
  BY Zenon, CarriedAppended DEF Metadata
<1>3. \A i \in 1 .. Len(data) + 1 : Append(data, m)[i].v <= v
  BY <1>1 DEF VersionsOK
<1>4. Len(data) + 1 \in 1 .. Len(data) + 1
  BY <1>1
<1> QED
  BY Zenon, <1>1, <1>2, <1>3, <1>4 DEF VersionsOK, Reaches

(* A message that is handled, in whatever order, loses nothing.            *)
LEMMA PairHandles ==
    ASSUME NEW own \in Metadata, NEW v \in Nat, NEW meta \in Metadata,
           NEW data \in Seq(SlMessages), NEW seen \in Nat, VersionsOK(v, data, seen),
           NEW i \in 1 .. Len(data)
    PROVE  /\ VersionsOK(v, DropAt(data, i), Max2(seen, data[i].v + 1))
           /\ Reaches(own, v, meta, data, seen) =>
                Reaches(own, v, MapJoin(meta, data[i].md), DropAt(data, i), Max2(seen, data[i].v + 1))
<1>1. Len(data) \in Nat /\ \A j \in 1 .. Len(data) : data[j] \in SlMessages
  OBVIOUS
<1>2. seen <= v + 1 /\ \A j \in 1 .. Len(data) : data[j].v \in Nat /\ data[j].v <= v
  BY Zenon, <1>1 DEF VersionsOK, SlMessages
<1>3. /\ Len(DropAt(data, i)) = Len(data) - 1
      /\ \A h \in 1 .. Len(data) - 1 : DropAt(data, i)[h] = IF h < i THEN data[h] ELSE data[h + 1]
  BY Zenon, DropAtIs
<1>4. Max2(seen, data[i].v + 1) <= v + 1
  BY <1>2 DEF Max2
<1>5. \A h \in 1 .. Len(data) - 1 : DropAt(data, i)[h].v <= v
  <2> TAKE h \in 1 .. Len(data) - 1
  <2>1. h \in 1 .. Len(data) /\ h + 1 \in 1 .. Len(data)
    BY <1>1
  <2> QED
    BY Zenon, <2>1, <1>2, <1>3
<1>6. ASSUME Reaches(own, v, meta, data, seen)
      PROVE  /\ \A k \in SlKeys : Carried(own[k], k, MapJoin(meta, data[i].md), DropAt(data, i), Len(data) - 1)
             /\ \/ Max2(seen, data[i].v + 1) = v + 1
                \/ \E h \in 1 .. Len(data) - 1 : DropAt(data, i)[h].v = v
  <2>1. \A k \in SlKeys : Carried(own[k], k, MapJoin(meta, data[i].md), DropAt(data, i), Len(data) - 1)
    BY <1>1, <1>6, CarriedHandled DEF Reaches, Metadata
  <2>2. CASE seen = v + 1 \/ data[i].v = v
    BY <2>1, <2>2, <1>2 DEF Max2
  <2>3. ASSUME NEW j \in 1 .. Len(data), j # i, data[j].v = v
        PROVE  \E h \in 1 .. Len(data) - 1 : DropAt(data, i)[h].v = v
    <3>1. CASE j < i
      <4>1. j \in 1 .. Len(data) - 1
        BY <3>1, <1>1
      <4> QED
        BY Zenon, <4>1, <3>1, <2>3, <1>3
    <3>2. CASE j > i
      <4>1. j - 1 \in 1 .. Len(data) - 1 /\ ~ (j - 1 < i) /\ (j - 1) + 1 = j
        BY <3>2, <1>1
      <4>2. DropAt(data, i)[j - 1] = data[j]
        BY Zenon, <4>1, <1>3
      <4> QED
        BY Zenon, <4>1, <4>2, <2>3
    <3> QED
      BY <3>1, <3>2, <2>3
  <2> QED
    BY Zenon, <2>1, <2>2, <2>3, <1>6 DEF Reaches
<1> QED
  BY Zenon, <1>3, <1>4, <1>5, <1>6 DEF VersionsOK, Reaches


--------------------------------------------------------------------------------
(* The inductive invariant                                                 *)

SlSyncs == [st : {"query", "wait", "done", "failed"}, at : SlServers, of : SlServers,
            must : Metadata, v : Nat]

SlTypeOK ==
    /\ slMeta \in [SlServers -> Metadata] /\ slOwn \in [SlServers -> Metadata]
    /\ slVersion \in [SlServers -> Nat]
    /\ slKnown \in [SlServers -> SUBSET SlServers]
    /\ slData \in [SlServers -> [SlServers -> Seq(SlMessages)]]
    /\ slSeen \in [SlServers -> [SlServers -> Nat]]
    /\ slSync \in {NoSync} \cup SlSyncs
    /\ slCount \in [tags : SUBSET Nat, deletes : Nat, losses : Nat]

\* A server has its own changes, and all metadata is somebody's
OwnInv == \A s \in SlServers : \A k \in SlKeys : Below(slOwn[s][k], slMeta[s][k])

Origin(e, k, own) == \E t \in SlServers : Below(e, own[t][k])

OriginInv ==
    \A s \in SlServers : \A k \in SlKeys :
        /\ Origin(slMeta[s][k], k, slOwn)
        /\ \A q \in SlServers : \A i \in 1 .. Len(slData[s][q]) : Origin(slData[s][q][i].md[k], k, slOwn)

\* What one server knows of another, and has told it
PairInv(s, q) ==
    /\ VersionsOK(slVersion[s], slData[s][q], slSeen[q][s])
    /\ slOrdered => Brings(slOwn[s], slVersion[s], slMeta[q], slData[s][q], slSeen[q][s])
    /\ q \in slKnown[s] =>
         {s, q} \in slUp /\ Reaches(slOwn[s], slVersion[s], slMeta[q], slData[s][q], slSeen[q][s])

\* What the sync that is under way waits for
SyncInv ==
    /\ slSync.st \in {"query", "wait"} =>
         \A k \in SlKeys : Below(slSync.must[k], slOwn[slSync.of][k])
    /\ slSync.st = "wait" =>
         /\ slSync.v <= slVersion[slSync.of]
         /\ slOrdered => Brings(slSync.must, slSync.v, slMeta[slSync.at],
                                slData[slSync.of][slSync.at], slSeen[slSync.at][slSync.of])
    /\ (slOrdered /\ slSync.st = "done") =>
         \A k \in SlKeys : Below(slSync.must[k], slMeta[slSync.at][k])

SlIInv == SlTypeOK /\ OwnInv /\ OriginInv /\ (\A s, q \in SlServers : PairInv(s, q)) /\ SyncInv

(* The inductive invariant holds at the start.                             *)
LEMMA InitSlIInv == SlInit => SlIInv
<1> SUFFICES ASSUME SlInit PROVE SlIInv
  BY Zenon
<1>1. /\ slMeta = [s \in SlServers |-> NoMetadata] /\ slOwn = slMeta
      /\ slVersion = [s \in SlServers |-> 0] /\ slKnown = [s \in SlServers |-> {}]
      /\ slData = [s \in SlServers |-> [q \in SlServers |-> <<>>]]
      /\ slSeen = [s \in SlServers |-> [q \in SlServers |-> 0]]
      /\ slSync = NoSync /\ slCount = [tags |-> {}, deletes |-> 0, losses |-> 0]
  BY Zenon DEF SlInit
<1>2. <<>> \in Seq(SlMessages)
  OBVIOUS
<1>3. SlTypeOK
  BY Zenon, <1>1, <1>2, NoMetadataIsLeast DEF SlTypeOK
<1>4. OwnInv
  BY Zenon, <1>1, NoMetadataIsLeast DEF OwnInv, SlEntries
<1>5. OriginInv
  BY <1>1, NoMetadataIsLeast DEF OriginInv, Origin, SlEntries
<1>6. ASSUME NEW s \in SlServers, NEW q \in SlServers PROVE PairInv(s, q)
  BY <1>1 DEF PairInv, VersionsOK, Brings
<1>7. SyncInv
  BY Zenon, <1>1 DEF SyncInv, NoSync
<1> QED
  BY Zenon, <1>3, <1>4, <1>5, <1>6, <1>7 DEF SlIInv

(* The types of a sync that is under way.                                  *)
LEMMA SyncTypes ==
    ASSUME SlTypeOK, slSync.st \in {"query", "wait", "done", "failed"}
    PROVE  slSync \in SlSyncs
  BY DEF SlTypeOK, NoSync

(* What root_view_t::join() changes.                                       *)
LEMMA RootViewJoinEffect ==
    ASSUME SlTypeOK, NEW s \in SlServers, NEW md \in Metadata, RootViewJoin(s, md)
    PROVE  /\ slMeta' \in [SlServers -> Metadata] /\ slMeta'[s] = MapJoin(slMeta[s], md)
           /\ slOwn' \in [SlServers -> Metadata] /\ slOwn'[s] = MapJoin(slOwn[s], md)
           /\ slVersion' \in [SlServers -> Nat] /\ slVersion'[s] = slVersion[s] + 1
           /\ slData' \in [SlServers -> [SlServers -> Seq(SlMessages)]]
           /\ \A q \in SlServers : q # s => /\ slMeta'[q] = slMeta[q] /\ slOwn'[q] = slOwn[q]
                                            /\ slVersion'[q] = slVersion[q] /\ slData'[q] = slData[q]
           /\ \A q \in SlServers : slData'[s][q] =
                IF q \in slKnown[s] /\ {s, q} \in slUp
                THEN Append(slData[s][q], [md |-> md, v |-> slVersion[s] + 1]) ELSE slData[s][q]
           /\ \A q \in SlServers : \A k \in SlKeys : /\ Below(slMeta[q][k], slMeta'[q][k])
                                                     /\ Below(slOwn[q][k], slOwn'[q][k])
<1>1. /\ slVersion' = [slVersion EXCEPT ![s] = slVersion[s] + 1]
      /\ slMeta' = [slMeta EXCEPT ![s] = MapJoin(slMeta[s], md)]
      /\ slOwn' = [slOwn EXCEPT ![s] = MapJoin(slOwn[s], md)]
      /\ slData' = [slData EXCEPT ![s] = [q \in SlServers |->
                      IF q \in slKnown[s] /\ {s, q} \in slUp
                      THEN Append(slData[s][q], [md |-> md, v |-> slVersion'[s]]) ELSE slData[s][q]]]
  BY Zenon DEF RootViewJoin
<1>2. PICK a, b, n : a = slMeta[s] /\ b = slOwn[s] /\ n = slVersion[s]
  BY Zenon
<1>3. a \in Metadata /\ b \in Metadata /\ n \in Nat
  BY Zenon, <1>2 DEF SlTypeOK
<1>4. /\ MapJoin(a, md) \in Metadata /\ MapJoin(b, md) \in Metadata
      /\ \A k \in SlKeys : Below(a[k], MapJoin(a, md)[k]) /\ Below(b[k], MapJoin(b, md)[k])
  BY Zenon, <1>3, JoinIsAbove, JoinIsGreater
<1>5. /\ slMeta' \in [SlServers -> Metadata] /\ slMeta'[s] = MapJoin(slMeta[s], md)
      /\ \A q \in SlServers : q # s => slMeta'[q] = slMeta[q]
  BY Zenon, <1>1, <1>2, <1>4 DEF SlTypeOK
<1>6. /\ slOwn' \in [SlServers -> Metadata] /\ slOwn'[s] = MapJoin(slOwn[s], md)
      /\ \A q \in SlServers : q # s => slOwn'[q] = slOwn[q]
  BY Zenon, <1>1, <1>2, <1>4 DEF SlTypeOK
<1>7. /\ slVersion' \in [SlServers -> Nat] /\ slVersion'[s] = slVersion[s] + 1
      /\ \A q \in SlServers : q # s => slVersion'[q] = slVersion[q]
  BY <1>1, <1>2, <1>3 DEF SlTypeOK
<1>8. PICK m : m = [md |-> md, v |-> n + 1]
  BY Zenon
<1>9. m \in SlMessages
  BY <1>3, <1>8 DEF SlMessages
<1>10. PICK row : row = [q \in SlServers |-> IF q \in slKnown[s] /\ {s, q} \in slUp
                                            THEN Append(slData[s][q], m) ELSE slData[s][q]]
  BY Zenon
<1>11. slData' = [slData EXCEPT ![s] = row]
  BY Zenon, <1>1, <1>2, <1>7, <1>8, <1>10
<1>12. \A q \in SlServers : slData[s][q] \in Seq(SlMessages)
  BY Zenon DEF SlTypeOK
<1>13. \A q \in SlServers : Append(slData[s][q], m) \in Seq(SlMessages)
  BY <1>9, <1>12
<1>14. row \in [SlServers -> Seq(SlMessages)]
  BY Zenon, <1>10, <1>12, <1>13
<1>15. /\ slData' \in [SlServers -> [SlServers -> Seq(SlMessages)]] /\ slData'[s] = row
       /\ \A q \in SlServers : q # s => slData'[q] = slData[q]
  BY Zenon, <1>11, <1>14 DEF SlTypeOK
<1>16. \A q \in SlServers : slData'[s][q] =
         IF q \in slKnown[s] /\ {s, q} \in slUp
         THEN Append(slData[s][q], [md |-> md, v |-> slVersion[s] + 1]) ELSE slData[s][q]
  BY Zenon, <1>2, <1>8, <1>10, <1>15
<1>17. \A q \in SlServers : \A k \in SlKeys : /\ Below(slMeta[q][k], slMeta'[q][k])
                                             /\ Below(slOwn[q][k], slOwn'[q][k])
  <2> SUFFICES ASSUME NEW q \in SlServers, NEW k \in SlKeys
               PROVE  Below(slMeta[q][k], slMeta'[q][k]) /\ Below(slOwn[q][k], slOwn'[q][k])
    BY Zenon
  <2>1. slMeta[q][k] \in SlEntries /\ slOwn[q][k] \in SlEntries
    BY Zenon DEF SlTypeOK, Metadata
  <2>2. CASE q = s
    BY Zenon, <2>2, <1>2, <1>4, <1>5, <1>6
  <2>3. CASE q # s
    BY Zenon, <2>1, <2>3, <1>5, <1>6, BelowIsReflexive
  <2> QED
    BY Zenon, <2>2, <2>3
<1> QED
  BY Zenon, <1>5, <1>6, <1>7, <1>15, <1>16, <1>17


(* An entry's origin stays one as servers do more.                         *)
LEMMA OriginGrows ==
    ASSUME NEW e \in SlEntries, NEW k \in SlKeys, NEW own \in [SlServers -> Metadata],
           NEW more \in [SlServers -> Metadata], \A t \in SlServers : Below(own[t][k], more[t][k]),
           Origin(e, k, own)
    PROVE  Origin(e, k, more)
<1>1. PICK t \in SlServers : Below(e, own[t][k])
  BY Zenon DEF Origin
<1>2. own[t][k] \in SlEntries /\ more[t][k] \in SlEntries
  BY Zenon DEF Metadata
<1> QED
  BY Zenon, <1>1, <1>2, BelowIsTransitive DEF Origin

(* The types of the messages between two servers.                          *)
LEMMA DataTypes ==
    ASSUME SlTypeOK, NEW s \in SlServers, NEW q \in SlServers
    PROVE  /\ slData[s][q] \in Seq(SlMessages) /\ Len(slData[s][q]) \in Nat
           /\ \A i \in 1 .. Len(slData[s][q]) :
                /\ slData[s][q][i] \in SlMessages /\ slData[s][q][i].md \in Metadata
                /\ \A k \in SlKeys : slData[s][q][i].md[k] \in SlEntries
           /\ slMeta[s] \in Metadata /\ slOwn[s] \in Metadata
           /\ \A k \in SlKeys : slMeta[s][k] \in SlEntries /\ slOwn[s][k] \in SlEntries
           /\ slVersion[s] \in Nat /\ slSeen[s][q] \in Nat /\ slSeen[q][s] \in Nat
<1>1. slData[s][q] \in Seq(SlMessages)
  BY Zenon DEF SlTypeOK
<1>2. Len(slData[s][q]) \in Nat /\ \A i \in 1 .. Len(slData[s][q]) : slData[s][q][i] \in SlMessages
  BY <1>1
<1>3. \A m \in SlMessages : m.md \in Metadata /\ \A k \in SlKeys : m.md[k] \in SlEntries
  BY Zenon DEF SlMessages, Metadata
<1>4. /\ slMeta[s] \in Metadata /\ slOwn[s] \in Metadata
      /\ \A k \in SlKeys : slMeta[s][k] \in SlEntries /\ slOwn[s][k] \in SlEntries
      /\ slVersion[s] \in Nat /\ slSeen[s][q] \in Nat /\ slSeen[q][s] \in Nat
  BY Zenon DEF SlTypeOK, Metadata
<1> QED
  BY Zenon, <1>1, <1>2, <1>3, <1>4

\* A pair of which the peer has learned something, and nothing else changed
LEMMA PairStays ==
    ASSUME SlIInv, NEW s \in SlServers, NEW q \in SlServers,
           slOwn'[s] = slOwn[s], slVersion'[s] = slVersion[s], slSeen'[q][s] = slSeen[q][s],
           slData'[s][q] = slData[s][q], slOrdered' = slOrdered,
           q \in slKnown'[s] => q \in slKnown[s] /\ {s, q} \in slUp',
           slMeta'[q] \in Metadata, \A k \in SlKeys : Below(slMeta[q][k], slMeta'[q][k])
    PROVE  PairInv(s, q)'
<1>1. PICK o, n, d, e, x, y :
          /\ o = slOwn[s] /\ n = slVersion[s] /\ d = slData[s][q] /\ e = slSeen[q][s]
          /\ x = slMeta[q] /\ y = slMeta'[q]
  BY Zenon
<1>2. /\ o \in Metadata /\ n \in Nat /\ d \in Seq(SlMessages) /\ e \in Nat
      /\ x \in Metadata /\ y \in Metadata /\ \A k \in SlKeys : Below(x[k], y[k])
  BY Zenon, <1>1, DataTypes DEF SlIInv
<1>3. /\ VersionsOK(n, d, e) /\ (slOrdered => Brings(o, n, x, d, e))
      /\ q \in slKnown[s] => Reaches(o, n, x, d, e)
  BY SMTT(30), <1>1 DEF SlIInv, PairInv
<1>4. slOrdered => Brings(o, n, y, d, e)
  BY Zenon, <1>2, <1>3, BringsGrows
<1>5. q \in slKnown[s] => Reaches(o, n, y, d, e)
  BY Zenon, <1>2, <1>3, ReachesGrows
<1> QED
  BY Zenon, <1>1, <1>3, <1>4, <1>5 DEF PairInv

(* A join at a server reaches the others it is connected to,               *)
LEMMA RootViewJoinKeepsPairs ==
    ASSUME SlIInv, NEW s \in SlServers, NEW md \in Metadata, RootViewJoin(s, md),
           NEW p \in SlServers, NEW q \in SlServers
    PROVE  PairInv(p, q)'
<1>1. /\ slMeta' \in [SlServers -> Metadata]
      /\ slOwn'[s] = MapJoin(slOwn[s], md) /\ slVersion'[s] = slVersion[s] + 1
      /\ \A r \in SlServers : r # s => /\ slOwn'[r] = slOwn[r] /\ slVersion'[r] = slVersion[r]
                                       /\ slData'[r] = slData[r]
      /\ \A r \in SlServers : slData'[s][r] =
           IF r \in slKnown[s] /\ {s, r} \in slUp
           THEN Append(slData[s][r], [md |-> md, v |-> slVersion[s] + 1]) ELSE slData[s][r]
      /\ \A r \in SlServers : \A k \in SlKeys : Below(slMeta[r][k], slMeta'[r][k])
  BY Zenon, RootViewJoinEffect DEF SlIInv
<1>2. UNCHANGED <<slUp, slKnown, slSeen, slSync, slOrdered>>
  BY Zenon DEF RootViewJoin
<1>3. CASE p # s
  <2>1. slOwn'[p] = slOwn[p] /\ slVersion'[p] = slVersion[p] /\ slData'[p][q] = slData[p][q]
    BY Zenon, <1>1, <1>3
  <2>2. q \in slKnown'[p] => q \in slKnown[p] /\ {p, q} \in slUp'
    BY Zenon, <1>2 DEF SlIInv, PairInv
  <2> QED
    BY Zenon, <2>1, <2>2, <1>1, <1>2, PairStays
<1>4. CASE p = s
  <2>1. PICK o, n, d, e, x, y, m :
            /\ o = slOwn[s] /\ n = slVersion[s] /\ d = slData[s][q] /\ e = slSeen[q][s]
            /\ x = slMeta[q] /\ y = slMeta'[q] /\ m = [md |-> md, v |-> slVersion[s] + 1]
    BY Zenon
  <2>2. /\ o \in Metadata /\ n \in Nat /\ d \in Seq(SlMessages) /\ e \in Nat
        /\ x \in Metadata /\ y \in Metadata /\ \A k \in SlKeys : Below(x[k], y[k])
    BY Zenon, <2>1, <1>1, DataTypes DEF SlIInv
  <2>3. m \in SlMessages /\ m.md = md /\ m.v = n + 1
    BY <2>1, <2>2 DEF SlMessages
  <2>4. /\ VersionsOK(n, d, e)
        /\ q \in slKnown[s] => {s, q} \in slUp /\ Reaches(o, n, x, d, e)
    BY Zenon, <2>1 DEF SlIInv, PairInv
  <2>5. slOwn'[s] = MapJoin(o, md) /\ slVersion'[s] = n + 1 /\ slSeen'[q][s] = e /\ slMeta'[q] = y
    BY Zenon, <2>1, <1>1, <1>2
  <2>6. CASE q \in slKnown[s]
    <3>1. slData'[s][q] = Append(d, m)
      BY Zenon, <2>1, <2>4, <2>6, <1>1
    <3>2. Reaches(o, n, y, d, e)
      BY Zenon, <2>2, <2>4, <2>6, ReachesGrows
    <3>3. /\ VersionsOK(n + 1, Append(d, m), e) /\ Brings(MapJoin(o, md), n + 1, y, Append(d, m), e)
          /\ Reaches(MapJoin(o, md), n + 1, y, Append(d, m), e)
      BY Zenon, <2>2, <2>3, <2>4, <3>2, PairIsTold
    <3> QED
      BY Zenon, <1>2, <1>4, <2>4, <2>5, <2>6, <3>1, <3>3 DEF PairInv
  <2>7. CASE q \notin slKnown[s]
    <3>1. slData'[s][q] = d
      BY Zenon, <2>1, <2>7, <1>1
    <3>2. VersionsOK(n + 1, d, e) /\ Brings(MapJoin(o, md), n + 1, y, d, e)
      BY Zenon, <2>2, <2>4, PairChanges
    <3> QED
      BY Zenon, <1>2, <1>4, <2>5, <2>7, <3>1, <3>2 DEF PairInv
  <2> QED
    BY Zenon, <2>6, <2>7
<1> QED
  BY Zenon, <1>3, <1>4


(* is its own origin,                                                      *)
LEMMA RootViewJoinKeepsOrigins ==
    ASSUME SlIInv, NEW s \in SlServers, NEW md \in Metadata, RootViewJoin(s, md)
    PROVE  OwnInv' /\ OriginInv'
<1>1. /\ slMeta' \in [SlServers -> Metadata] /\ slMeta'[s] = MapJoin(slMeta[s], md)
      /\ slOwn' \in [SlServers -> Metadata] /\ slOwn'[s] = MapJoin(slOwn[s], md)
      /\ \A q \in SlServers : q # s => /\ slMeta'[q] = slMeta[q] /\ slOwn'[q] = slOwn[q]
                                       /\ slData'[q] = slData[q]
      /\ \A q \in SlServers : slData'[s][q] =
           IF q \in slKnown[s] /\ {s, q} \in slUp
           THEN Append(slData[s][q], [md |-> md, v |-> slVersion[s] + 1]) ELSE slData[s][q]
      /\ \A q \in SlServers : \A k \in SlKeys : Below(slOwn[q][k], slOwn'[q][k])
  BY Zenon, RootViewJoinEffect DEF SlIInv
<1>2. ASSUME NEW k \in SlKeys
      PROVE  /\ Below(md[k], slOwn'[s][k]) /\ Below(slOwn'[s][k], slMeta'[s][k])
             /\ slMeta'[s][k] = slMeta[s][k] \/ slMeta'[s][k] = md[k]
  <2>1. PICK a, b : a = slMeta[s] /\ b = slOwn[s] /\ a \in Metadata /\ b \in Metadata
    BY Zenon, DataTypes DEF SlIInv
  <2>2. PICK x, y, z : x = MapJoin(a, md)[k] /\ y = MapJoin(b, md)[k] /\ z = md[k]
    BY Zenon
  <2>3. /\ x \in SlEntries /\ y \in SlEntries /\ z \in SlEntries /\ a[k] \in SlEntries /\ b[k] \in SlEntries
        /\ Below(a[k], x) /\ Below(z, x) /\ (x = a[k] \/ x = z)
        /\ Below(z, y) /\ (y = b[k] \/ y = z)
    BY <2>1, <2>2, JoinIsAbove, JoinIsGreater DEF Metadata
  <2>4. Below(b[k], a[k])
    BY Zenon, <2>1 DEF SlIInv, OwnInv
  <2>5. Below(y, x)
    BY Zenon, <2>3, <2>4, BelowIsTransitive
  <2> QED
    BY Zenon, <2>1, <2>2, <2>3, <2>5, <1>1
<1>3. OwnInv'
  BY Zenon, <1>1, <1>2 DEF SlIInv, OwnInv
<1>4. \A e \in SlEntries : \A k \in SlKeys : Origin(e, k, slOwn) => Origin(e, k, slOwn')
  <2> SUFFICES ASSUME NEW e \in SlEntries, NEW k \in SlKeys, Origin(e, k, slOwn) PROVE Origin(e, k, slOwn')
    BY Zenon
  <2>1. PICK own, more : own = slOwn /\ more = slOwn'
    BY Zenon
  <2>2. own \in [SlServers -> Metadata] /\ more \in [SlServers -> Metadata] /\ Origin(e, k, own)
    BY Zenon, <2>1, <1>1 DEF SlIInv, SlTypeOK
  <2> QED
    BY Zenon, <2>1, <2>2, <1>1, OriginGrows
<1>5. \A k \in SlKeys : Origin(md[k], k, slOwn')
  BY Zenon, <1>2 DEF Origin
<1>6. ASSUME NEW p \in SlServers, NEW k \in SlKeys PROVE Origin(slMeta'[p][k], k, slOwn')
  <2>1. Origin(slMeta[p][k], k, slOwn) /\ slMeta[p][k] \in SlEntries
    BY Zenon, DataTypes DEF SlIInv, OriginInv
  <2> QED
    BY Zenon, <2>1, <1>1, <1>2, <1>4, <1>5
<1>7. ASSUME NEW p \in SlServers, NEW q \in SlServers, NEW k \in SlKeys,
             NEW i \in 1 .. Len(slData'[p][q])
      PROVE  Origin(slData'[p][q][i].md[k], k, slOwn')
  <2>1. PICK d, m : d = slData[p][q] /\ m = [md |-> md, v |-> slVersion[s] + 1]
    BY Zenon
  <2>2. /\ d \in Seq(SlMessages) /\ Len(d) \in Nat
        /\ \A j \in 1 .. Len(d) : Origin(d[j].md[k], k, slOwn) /\ d[j].md[k] \in SlEntries
    BY Zenon, <2>1, DataTypes DEF SlIInv, OriginInv
  <2>3. CASE slData'[p][q] = d
    BY Zenon, <2>2, <2>3, <1>4, <1>7
  <2>4. CASE slData'[p][q] = Append(d, m)
    <3>1. /\ Len(Append(d, m)) = Len(d) + 1 /\ Append(d, m)[Len(d) + 1] = m /\ m.md = md
          /\ \A j \in 1 .. Len(d) : Append(d, m)[j] = d[j]
      BY <2>1, <2>2
    <3>2. i \in 1 .. Len(d) \/ i = Len(d) + 1
      BY <2>2, <2>4, <3>1, <1>7
    <3> QED
      BY Zenon, <2>2, <2>4, <3>1, <3>2, <1>4, <1>5
  <2> QED
    BY Zenon, <2>1, <2>3, <2>4, <1>1
<1>8. OriginInv'
  BY Zenon, <1>6, <1>7 DEF OriginInv
<1> QED
  BY Zenon, <1>3, <1>8

(* and leaves a sync as it is.                                             *)
LEMMA RootViewJoinKeepsSync ==
    ASSUME SlIInv, NEW s \in SlServers, NEW md \in Metadata, RootViewJoin(s, md)
    PROVE  SyncInv'
<1>1. /\ slMeta' \in [SlServers -> Metadata] /\ slOwn' \in [SlServers -> Metadata]
      /\ slVersion'[s] = slVersion[s] + 1
      /\ \A r \in SlServers : r # s => slVersion'[r] = slVersion[r] /\ slData'[r] = slData[r]
      /\ \A r \in SlServers : slData'[s][r] =
           IF r \in slKnown[s] /\ {s, r} \in slUp
           THEN Append(slData[s][r], [md |-> md, v |-> slVersion[s] + 1]) ELSE slData[s][r]
      /\ \A r \in SlServers : \A k \in SlKeys : /\ Below(slMeta[r][k], slMeta'[r][k])
                                                /\ Below(slOwn[r][k], slOwn'[r][k])
  BY Zenon, RootViewJoinEffect DEF SlIInv
<1>2. UNCHANGED <<slUp, slKnown, slSeen, slSync, slOrdered>>
  BY Zenon DEF RootViewJoin
<1> SUFFICES ASSUME slSync.st \in {"query", "wait", "done"} PROVE SyncInv'
  BY Zenon, <1>2 DEF SyncInv
<1>3. slSync \in SlSyncs
  BY Zenon, SyncTypes DEF SlIInv
<1>4. PICK at, of, must, v : at = slSync.at /\ of = slSync.of /\ must = slSync.must /\ v = slSync.v
  BY Zenon
<1>5. /\ at \in SlServers /\ of \in SlServers /\ must \in Metadata /\ v \in Nat
      /\ \A k \in SlKeys : must[k] \in SlEntries
  BY Zenon, <1>3, <1>4 DEF SlSyncs, Metadata
<1>6. PICK o, n, d, e, x, y, m :
          /\ o = slOwn[of] /\ n = slVersion[of] /\ d = slData[of][at] /\ e = slSeen[at][of]
          /\ x = slMeta[at] /\ y = slMeta'[at] /\ m = [md |-> md, v |-> slVersion[s] + 1]
  BY Zenon
<1>7. /\ o \in Metadata /\ n \in Nat /\ d \in Seq(SlMessages) /\ e \in Nat /\ Len(d) \in Nat
      /\ x \in Metadata /\ y \in Metadata /\ \A k \in SlKeys : Below(x[k], y[k])
      /\ \A k \in SlKeys : o[k] \in SlEntries /\ x[k] \in SlEntries /\ y[k] \in SlEntries
      /\ slOwn'[of] \in Metadata /\ slVersion[s] \in Nat
  BY <1>1, <1>5, <1>6, DataTypes DEF SlIInv, Metadata
<1>8. m \in SlMessages
  BY <1>6, <1>7 DEF SlMessages
<1>9. slSync.st \in {"query", "wait"} => \A k \in SlKeys : Below(must[k], slOwn'[of][k])
  <2> SUFFICES ASSUME slSync.st \in {"query", "wait"}, NEW k \in SlKeys PROVE Below(must[k], slOwn'[of][k])
    BY Zenon
  <2>1. Below(must[k], o[k]) /\ Below(o[k], slOwn'[of][k]) /\ slOwn'[of][k] \in SlEntries
    BY Zenon, <1>1, <1>4, <1>5, <1>6, <1>7 DEF SlIInv, SyncInv, Metadata
  <2> QED
    BY Zenon, <2>1, <1>5, <1>7, BelowIsTransitive
<1>10. slSync.st = "wait" => v <= slVersion'[of]
  <2>1. slSync.st = "wait" => v <= n
    BY Zenon, <1>4, <1>6 DEF SlIInv, SyncInv
  <2>2. slVersion'[of] = n \/ slVersion'[of] = n + 1
    BY Zenon, <1>1, <1>5, <1>6
  <2> QED
    BY <2>1, <2>2, <1>5, <1>7
<1>11. ASSUME slOrdered, slSync.st = "done", NEW k \in SlKeys PROVE Below(must[k], y[k])
  <2>1. Below(must[k], x[k])
    BY Zenon, <1>4, <1>6, <1>11 DEF SlIInv, SyncInv
  <2> QED
    BY Zenon, <2>1, <1>5, <1>7, BelowIsTransitive
<1>12. ASSUME slOrdered, slSync.st = "wait" PROVE Brings(must, v, y, slData'[of][at], e)
  <2>1. Brings(must, v, x, d, e)
    BY Zenon, <1>4, <1>6, <1>12 DEF SlIInv, SyncInv
  <2>2. Brings(must, v, y, d, e)
    BY Zenon, <2>1, <1>5, <1>7, BringsGrows
  <2>3. CASE of = s /\ at \in slKnown[s] /\ {s, at} \in slUp
    <3>1. slData'[of][at] = Append(d, m)
      BY Zenon, <2>3, <1>1, <1>5, <1>6
    <3>2. Reaches(o, n, x, d, e)
      BY Zenon, <2>3, <1>5, <1>6 DEF SlIInv, PairInv
    <3>3. ASSUME NEW k \in SlKeys PROVE Carried(must[k], k, y, d, Len(d))
      <4>1. Carried(o[k], k, x, d, Len(d)) /\ Below(must[k], o[k])
        BY Zenon, <3>2, <1>4, <1>6, <1>12 DEF Reaches, SlIInv, SyncInv
      <4>2. Len(d) \in 0 .. Len(d)
        BY <1>7
      <4>3. Carried(must[k], k, x, d, Len(d))
        BY Zenon, <4>1, <4>2, <1>5, <1>7, CarriedOfLess
      <4> QED
        BY <4>3, <1>5, <1>7, CarriedGrows
    <3> QED
      BY Zenon, <2>2, <3>1, <3>3, <1>5, <1>7, <1>8, BringsAppended
  <2>4. CASE ~ (of = s /\ at \in slKnown[s] /\ {s, at} \in slUp)
    <3>1. slData'[of][at] = d
      BY Zenon, <2>4, <1>1, <1>5, <1>6
    <3> QED
      BY Zenon, <2>2, <3>1
  <2> QED
    BY Zenon, <2>3, <2>4
<1> QED
  BY Zenon, <1>2, <1>4, <1>6, <1>9, <1>10, <1>11, <1>12 DEF SyncInv

(* RootViewJoin keeps the inductive invariant.                             *)
LEMMA RootViewJoinKeeps ==
    ASSUME SlIInv, NEW s \in SlServers, NEW md \in Metadata, RootViewJoin(s, md),
           slCount' \in [tags : SUBSET Nat, deletes : Nat, losses : Nat]
    PROVE  SlIInv'
<1>1. SlTypeOK'
  BY Zenon, RootViewJoinEffect DEF SlIInv, SlTypeOK, RootViewJoin
<1> QED
  BY Zenon, <1>1, RootViewJoinKeepsPairs, RootViewJoinKeepsOrigins, RootViewJoinKeepsSync DEF SlIInv


(* Metadata of one key.                                                    *)
LEMMA OneKey ==
    ASSUME NEW k \in SlKeys, NEW e \in SlEntries
    PROVE  [NoMetadata EXCEPT ![k] = e] \in Metadata /\ [NoMetadata EXCEPT ![k] = e][k] = e
  BY Zenon, NoMetadataIsLeast DEF Metadata

\* versioned_t::on_change() gives a value that is greater than what was there
LEMMA OnChangeIsNewer ==
    ASSUME SlTypeOK, NEW s \in SlServers, NEW k \in SlKeys, slMeta[s][k] # Deleted, NEW tag \in Nat
    PROVE  /\ [kind |-> "value", ts |-> OnChange(s, k), tag |-> tag] \in SlValues
           /\ slMeta[s][k] = Absent \/ slMeta[s][k].ts < OnChange(s, k)
<1>1. PICK e : e = slMeta[s][k] /\ e \in SlEntries
  BY Zenon, DataTypes
<1>2. SlClock[s] \in Nat
  BY Zenon, SlAssumption
<1>3. CASE e = Absent
  BY Zenon, <1>1, <1>2, <1>3 DEF OnChange, SlValues
<1>4. CASE e # Absent
  <2>1. PICK t \in Nat : t = e.ts
    BY Zenon, <1>1, <1>4, EntriesAre DEF SlValues
  <2>2. OnChange(s, k) = Max2(t + 1, SlClock[s])
    BY Zenon, <2>1, <1>1, <1>4 DEF OnChange
  <2>3. Max2(t + 1, SlClock[s]) \in Nat /\ t < Max2(t + 1, SlClock[s])
    BY <1>2 DEF Max2
  <2> QED
    BY Zenon, <2>1, <2>2, <2>3, <1>1 DEF SlValues
<1> QED
  BY Zenon, <1>3, <1>4

(* A change made at a server keeps the inductive invariant.                *)
LEMMA ChangesKeep ==
    ASSUME SlIInv, NEW s \in SlServers, NEW k \in SlKeys,
           DeleteKey(s, k) \/ \E tag \in 1 .. SlMaxSets : SetValue(s, k, tag)
    PROVE  SlIInv'
<1>1. CASE DeleteKey(s, k)
  <2>1. Deleted \in SlEntries
    BY Zenon DEF SlEntries
  <2>2. PICK md : md = [NoMetadata EXCEPT ![k] = Deleted]
    BY Zenon
  <2>3. md \in Metadata /\ RootViewJoin(s, md)
    BY Zenon, <2>1, <2>2, <1>1, OneKey DEF DeleteKey
  <2>4. slCount' \in [tags : SUBSET Nat, deletes : Nat, losses : Nat]
    <3>1. PICK c : c = slCount
      BY Zenon
    <3>2. c \in [tags : SUBSET Nat, deletes : Nat, losses : Nat] /\ slCount' = [c EXCEPT !.deletes = c.deletes + 1]
      BY Zenon, <3>1, <1>1 DEF DeleteKey, SlIInv, SlTypeOK
    <3> QED
      BY <3>2
  <2> QED
    BY Zenon, <2>3, <2>4, RootViewJoinKeeps
<1>2. ASSUME NEW tag \in 1 .. SlMaxSets, SetValue(s, k, tag) PROVE SlIInv'
  <2>1. tag \in Nat
    BY SlAssumption
  <2>2. PICK e, md : e = [kind |-> "value", ts |-> OnChange(s, k), tag |-> tag] /\ md = [NoMetadata EXCEPT ![k] = e]
    BY Zenon
  <2>3. e \in SlEntries
    BY Zenon, <2>1, <2>2, <1>2, OnChangeIsNewer DEF SetValue, SlEntries, SlIInv
  <2>4. md \in Metadata /\ RootViewJoin(s, md)
    BY Zenon, <2>2, <2>3, <1>2, OneKey DEF SetValue
  <2>5. slCount' \in [tags : SUBSET Nat, deletes : Nat, losses : Nat]
    <3>1. PICK c, tags : c = slCount /\ tags = c.tags \cup {tag}
      BY Zenon
    <3>2. c \in [tags : SUBSET Nat, deletes : Nat, losses : Nat] /\ tags \in SUBSET Nat
      BY Zenon, <2>1, <3>1 DEF SlIInv, SlTypeOK
    <3>3. slCount' = [c EXCEPT !.tags = tags]
      BY Zenon, <3>1, <1>2 DEF SetValue
    <3> QED
      BY Zenon, <3>2, <3>3
  <2> QED
    BY Zenon, <2>4, <2>5, RootViewJoinKeeps
<1> QED
  BY Zenon, <1>1, <1>2

(* What on_metadata_change() changes.                                      *)
LEMMA OnMetadataEffect ==
    ASSUME SlTypeOK, NEW s \in SlServers, NEW q \in SlServers,
           NEW i \in DOMAIN slData[s][q], OnMetadata(s, q, i)
    PROVE  /\ i \in 1 .. Len(slData[s][q])
           /\ slMeta' \in [SlServers -> Metadata] /\ slMeta'[q] = MapJoin(slMeta[q], slData[s][q][i].md)
           /\ slSeen' \in [SlServers -> [SlServers -> Nat]]
           /\ slSeen'[q][s] = Max2(slSeen[q][s], slData[s][q][i].v + 1)
           /\ slData' \in [SlServers -> [SlServers -> Seq(SlMessages)]]
           /\ slData'[s][q] = DropAt(slData[s][q], i)
           /\ \A r \in SlServers : r # q => slMeta'[r] = slMeta[r]
           /\ \A a, b \in SlServers : (a # s \/ b # q) =>
                slData'[a][b] = slData[a][b] /\ slSeen'[b][a] = slSeen[b][a]
           /\ \A r \in SlServers : \A k \in SlKeys : Below(slMeta[r][k], slMeta'[r][k])
<1>1. PICK d, e, x, v, md : /\ d = slData[s][q] /\ e = slSeen[q][s] /\ x = slMeta[q]
                            /\ v = d[i].v /\ md = d[i].md
  BY Zenon
<1>2. d \in Seq(SlMessages) /\ e \in Nat /\ x \in Metadata /\ i \in 1 .. Len(d)
  BY <1>1, DataTypes
<1>3. d[i] \in SlMessages
  BY <1>2
<1>4. v \in Nat /\ md \in Metadata
  BY Zenon, <1>1, <1>3 DEF SlMessages
<1>5. /\ MapJoin(x, md) \in Metadata /\ DropAt(d, i) \in Seq(SlMessages) /\ Max2(e, v + 1) \in Nat
      /\ \A k \in SlKeys : Below(x[k], MapJoin(x, md)[k])
  BY <1>2, <1>4, JoinIsAbove, JoinIsGreater, DropAtIs DEF Max2
<1>6. /\ slMeta' = [slMeta EXCEPT ![q] = MapJoin(x, md)]
      /\ slSeen' = [slSeen EXCEPT ![q] = [slSeen[q] EXCEPT ![s] = Max2(e, v + 1)]]
      /\ slData' = [slData EXCEPT ![s] = [slData[s] EXCEPT ![q] = DropAt(d, i)]]
  BY Zenon, <1>1 DEF OnMetadata
<1>7. /\ slMeta' \in [SlServers -> Metadata] /\ slMeta'[q] = MapJoin(x, md)
      /\ \A r \in SlServers : r # q => slMeta'[r] = slMeta[r]
  BY Zenon, <1>5, <1>6 DEF SlTypeOK
<1>8. /\ slSeen' \in [SlServers -> [SlServers -> Nat]] /\ slSeen'[q][s] = Max2(e, v + 1)
      /\ \A a, b \in SlServers : (a # s \/ b # q) => slSeen'[b][a] = slSeen[b][a]
  BY Zenon, <1>5, <1>6 DEF SlTypeOK
<1>9. PICK S : S = Seq(SlMessages)
  BY Zenon
<1>10. slData \in [SlServers -> [SlServers -> S]] /\ DropAt(d, i) \in S
  BY Zenon, <1>5, <1>9 DEF SlTypeOK
<1>11. /\ slData' \in [SlServers -> [SlServers -> S]] /\ slData'[s][q] = DropAt(d, i)
       /\ \A a, b \in SlServers : (a # s \/ b # q) => slData'[a][b] = slData[a][b]
  BY ONLY Zenon, <1>6, <1>10, s \in SlServers, q \in SlServers
<1>12. \A r \in SlServers : \A k \in SlKeys : Below(slMeta[r][k], slMeta'[r][k])
  BY Zenon, <1>1, <1>5, <1>7, DataTypes, BelowIsReflexive
<1> QED
  BY SMTT(30), <1>1, <1>2, <1>7, <1>8, <1>9, <1>11, <1>12

(* Metadata that arrives leaves a sync with what it waits for.             *)
LEMMA OnMetadataKeepsSync ==
    ASSUME SlIInv, NEW s \in SlServers, NEW q \in SlServers,
           NEW i \in DOMAIN slData[s][q], OnMetadata(s, q, i)
    PROVE  SyncInv'
<1>1. /\ i \in 1 .. Len(slData[s][q])
      /\ slMeta' \in [SlServers -> Metadata] /\ slMeta'[q] = MapJoin(slMeta[q], slData[s][q][i].md)
      /\ slSeen'[q][s] = Max2(slSeen[q][s], slData[s][q][i].v + 1)
      /\ slData'[s][q] = DropAt(slData[s][q], i)
      /\ \A a, b \in SlServers : (a # s \/ b # q) =>
           slData'[a][b] = slData[a][b] /\ slSeen'[b][a] = slSeen[b][a]
      /\ \A r \in SlServers : \A k \in SlKeys : Below(slMeta[r][k], slMeta'[r][k])
  BY OnMetadataEffect DEF SlIInv
<1>2. (slOrdered => i = 1) /\ UNCHANGED <<slVersion, slOwn, slUp, slKnown, slSync, slOrdered, slCount>>
  BY Zenon DEF OnMetadata
<1> SUFFICES ASSUME slSync.st \in {"query", "wait", "done"} PROVE SyncInv'
  BY Zenon, <1>2 DEF SyncInv
<1>3. slSync \in SlSyncs
  BY Zenon, SyncTypes DEF SlIInv
<1>4. PICK at, of, must, v : at = slSync.at /\ of = slSync.of /\ must = slSync.must /\ v = slSync.v
  BY Zenon
<1>5. /\ at \in SlServers /\ of \in SlServers /\ must \in Metadata /\ v \in Nat
      /\ \A k \in SlKeys : must[k] \in SlEntries
  BY Zenon, <1>3, <1>4 DEF SlSyncs, Metadata
<1>6. PICK d, e, x, y : /\ d = slData[of][at] /\ e = slSeen[at][of]
                        /\ x = slMeta[at] /\ y = slMeta'[at]
  BY Zenon
<1>7. /\ d \in Seq(SlMessages) /\ e \in Nat
      /\ x \in Metadata /\ y \in Metadata /\ \A k \in SlKeys : Below(x[k], y[k])
      /\ \A k \in SlKeys : x[k] \in SlEntries /\ y[k] \in SlEntries
  BY SMTT(30), <1>1, <1>5, <1>6, DataTypes DEF SlIInv, Metadata
<1>8. ASSUME slOrdered, slSync.st = "done", NEW k \in SlKeys PROVE Below(must[k], y[k])
  <2>1. Below(must[k], x[k])
    BY Zenon, <1>4, <1>6, <1>8 DEF SlIInv, SyncInv
  <2> QED
    BY Zenon, <2>1, <1>5, <1>7, BelowIsTransitive
<1>9. ASSUME slOrdered, slSync.st = "wait" PROVE Brings(must, v, y, slData'[of][at], slSeen'[at][of])
  <2>1. Brings(must, v, x, d, e)
    BY Zenon, <1>4, <1>6, <1>9 DEF SlIInv, SyncInv
  <2>2. CASE of = s /\ at = q
    <3>1. 1 \in 1 .. Len(d) /\ y = MapJoin(x, d[1].md) /\ slData'[of][at] = DropAt(d, 1)
          /\ slSeen'[at][of] = Max2(e, d[1].v + 1)
      BY Zenon, <2>2, <1>1, <1>2, <1>6, <1>9
    <3> QED
      BY Zenon, <2>1, <3>1, <1>5, <1>7, BringsHandled
  <2>3. CASE of # s \/ at # q
    <3>1. slData'[of][at] = d /\ slSeen'[at][of] = e
      BY Zenon, <2>3, <1>1, <1>5, <1>6
    <3> QED
      BY Zenon, <2>1, <3>1, <1>5, <1>7, BringsGrows
  <2> QED
    BY Zenon, <2>2, <2>3
<1> QED
  BY Zenon, <1>2, <1>4, <1>6, <1>8, <1>9 DEF SlIInv, SyncInv


(* OnMetadata keeps the inductive invariant.                               *)
LEMMA OnMetadataKeeps ==
    ASSUME SlIInv, NEW s \in SlServers, NEW q \in SlServers,
           NEW i \in DOMAIN slData[s][q], OnMetadata(s, q, i)
    PROVE  SlIInv'
<1>1. /\ i \in 1 .. Len(slData[s][q])
      /\ slMeta' \in [SlServers -> Metadata] /\ slMeta'[q] = MapJoin(slMeta[q], slData[s][q][i].md)
      /\ slSeen' \in [SlServers -> [SlServers -> Nat]]
      /\ slSeen'[q][s] = Max2(slSeen[q][s], slData[s][q][i].v + 1)
      /\ slData' \in [SlServers -> [SlServers -> Seq(SlMessages)]]
      /\ slData'[s][q] = DropAt(slData[s][q], i)
      /\ \A r \in SlServers : r # q => slMeta'[r] = slMeta[r]
      /\ \A a, b \in SlServers : (a # s \/ b # q) =>
           slData'[a][b] = slData[a][b] /\ slSeen'[b][a] = slSeen[b][a]
      /\ \A r \in SlServers : \A k \in SlKeys : Below(slMeta[r][k], slMeta'[r][k])
  BY Zenon, OnMetadataEffect DEF SlIInv
<1>2. (slOrdered => i = 1) /\ UNCHANGED <<slVersion, slOwn, slUp, slKnown, slSync, slOrdered, slCount>>
  BY Zenon DEF OnMetadata
<1>3. SlTypeOK'
  BY Zenon, <1>1, <1>2 DEF SlIInv, SlTypeOK
<1>4. OwnInv'
  <2> SUFFICES ASSUME NEW r \in SlServers, NEW k \in SlKeys PROVE Below(slOwn[r][k], slMeta'[r][k])
    BY Zenon, <1>2 DEF OwnInv
  <2>1. /\ Below(slOwn[r][k], slMeta[r][k]) /\ Below(slMeta[r][k], slMeta'[r][k])
        /\ slOwn[r][k] \in SlEntries /\ slMeta[r][k] \in SlEntries /\ slMeta'[r][k] \in SlEntries
    BY <1>1, DataTypes DEF SlIInv, OwnInv, Metadata
  <2> QED
    BY Zenon, <2>1, BelowIsTransitive
<1>5. PICK d, e, x : d = slData[s][q] /\ e = slSeen[q][s] /\ x = slMeta[q]
  BY Zenon
<1>6. d \in Seq(SlMessages) /\ e \in Nat /\ x \in Metadata /\ i \in 1 .. Len(d) /\ Len(d) \in Nat
  BY Zenon, <1>1, <1>5, DataTypes DEF SlIInv
<1>7. OriginInv'
  <2>1. ASSUME NEW r \in SlServers, NEW k \in SlKeys PROVE Origin(slMeta'[r][k], k, slOwn)
    <3>1. CASE r # q
      BY Zenon, <3>1, <1>1 DEF SlIInv, OriginInv
    <3>2. CASE r = q
      <4>1. d[i].md \in Metadata
        BY Zenon, <1>1, <1>5, DataTypes DEF SlIInv
      <4>2. MapJoin(x, d[i].md)[k] = x[k] \/ MapJoin(x, d[i].md)[k] = d[i].md[k]
        BY Zenon, <4>1, <1>6, JoinIsAbove
      <4>3. slMeta'[q] = MapJoin(x, d[i].md)
        BY Zenon, <1>1, <1>5
      <4> QED
        BY SMTT(30), <3>2, <4>2, <4>3, <1>1, <1>5 DEF SlIInv, OriginInv
    <3> QED
      BY Zenon, <3>1, <3>2
  <2>2. ASSUME NEW a \in SlServers, NEW b \in SlServers, NEW k \in SlKeys,
               NEW j \in 1 .. Len(slData'[a][b])
        PROVE  Origin(slData'[a][b][j].md[k], k, slOwn)
    <3>1. CASE a # s \/ b # q
      <4>1. slData'[a][b] = slData[a][b]
        BY Zenon, <3>1, <1>1
      <4> QED
        BY Zenon, <4>1, <2>2 DEF SlIInv, OriginInv
    <3>2. CASE a = s /\ b = q
      <4>1. slData'[a][b] = DropAt(d, i)
        BY Zenon, <3>2, <1>1, <1>5
      <4>2. /\ Len(DropAt(d, i)) = Len(d) - 1
            /\ \A h \in 1 .. Len(d) - 1 : DropAt(d, i)[h] = IF h < i THEN d[h] ELSE d[h + 1]
        BY Zenon, <1>6, DropAtIs
      <4>3. j \in 1 .. Len(d) - 1 /\ j \in 1 .. Len(d) /\ j + 1 \in 1 .. Len(d)
        BY <4>1, <4>2, <2>2, <1>6
      <4>4. \A h \in 1 .. Len(d) : Origin(d[h].md[k], k, slOwn)
        BY Zenon, <1>5 DEF SlIInv, OriginInv
      <4> QED
        BY Zenon, <4>1, <4>2, <4>3, <4>4
    <3> QED
      BY Zenon, <3>1, <3>2
  <2> QED
    BY Zenon, <2>1, <2>2, <1>2 DEF OriginInv
<1>8. ASSUME NEW a \in SlServers, NEW b \in SlServers PROVE PairInv(a, b)'
  <2>1. b \in slKnown'[a] => b \in slKnown[a] /\ {a, b} \in slUp'
    BY Zenon, <1>2 DEF SlIInv, PairInv
  <2>2. CASE a # s \/ b # q
    <3>1. slData'[a][b] = slData[a][b] /\ slSeen'[b][a] = slSeen[b][a]
      BY Zenon, <2>2, <1>1
    <3> QED
      BY Zenon, <2>1, <3>1, <1>1, <1>2, PairStays
  <2>3. CASE a = s /\ b = q
    <3>1. PICK o, n : o = slOwn[s] /\ n = slVersion[s]
      BY Zenon
    <3>2. o \in Metadata /\ n \in Nat
      BY Zenon, <3>1, DataTypes DEF SlIInv
    <3>3. /\ VersionsOK(n, d, e) /\ (slOrdered => Brings(o, n, x, d, e))
          /\ q \in slKnown[s] => Reaches(o, n, x, d, e)
      BY Zenon, <3>1, <1>5 DEF SlIInv, PairInv
    <3>4. VersionsOK(n, DropAt(d, i), Max2(e, d[i].v + 1))
      BY Zenon, <3>2, <3>3, <1>6, PairHandles
    <3>5. q \in slKnown[s] => Reaches(o, n, MapJoin(x, d[i].md), DropAt(d, i), Max2(e, d[i].v + 1))
      BY Zenon, <3>2, <3>3, <1>6, PairHandles
    <3>6. slOrdered => Brings(o, n, MapJoin(x, d[i].md), DropAt(d, i), Max2(e, d[i].v + 1))
      BY Zenon, <3>2, <3>3, <1>2, <1>6, BringsHandled
    <3>7. /\ slMeta'[q] = MapJoin(x, d[i].md) /\ slData'[s][q] = DropAt(d, i)
          /\ slSeen'[q][s] = Max2(e, d[i].v + 1)
      BY Zenon, <1>1, <1>5
    <3> QED
      BY Zenon, <2>1, <2>3, <3>1, <3>4, <3>5, <3>6, <3>7, <1>2 DEF PairInv
  <2> QED
    BY Zenon, <2>2, <2>3
<1> QED
  BY Zenon, <1>3, <1>4, <1>7, <1>8, OnMetadataKeepsSync DEF SlIInv

(* ConnectionChange keeps the inductive invariant.                         *)
LEMMA ConnectionChangeKeeps ==
    ASSUME SlIInv, NEW s \in SlServers, NEW q \in SlServers, ManagerConnectionChange(s, q)
    PROVE  SlIInv'
<1>1. /\ {s, q} \in slUp /\ slKnown' = [slKnown EXCEPT ![s] = slKnown[s] \cup {q}]
      /\ slData' = [slData EXCEPT ![s] = [slData[s] EXCEPT ![q] =
                       Append(slData[s][q], [md |-> slMeta[s], v |-> slVersion[s]])]]
      /\ UNCHANGED <<slMeta, slVersion, slOwn, slUp, slSeen, slSync, slOrdered, slCount>>
  BY Zenon DEF ManagerConnectionChange, Send
<1>2. PICK d, m, S : d = slData[s][q] /\ m = [md |-> slMeta[s], v |-> slVersion[s]] /\ S = Seq(SlMessages)
  BY Zenon
<1>3. /\ d \in Seq(SlMessages) /\ Len(d) \in Nat /\ m \in SlMessages
      /\ m.md = slMeta[s] /\ m.v = slVersion[s]
  BY Zenon, <1>2, DataTypes DEF SlIInv, SlMessages
<1>4. Append(d, m) \in S /\ slData \in [SlServers -> [SlServers -> S]]
  BY <1>2, <1>3 DEF SlIInv, SlTypeOK
<1>5. /\ slData' \in [SlServers -> [SlServers -> S]] /\ slData'[s][q] = Append(d, m)
      /\ \A a, b \in SlServers : (a # s \/ b # q) => slData'[a][b] = slData[a][b]
  <2>1. slData' = [slData EXCEPT ![s] = [slData[s] EXCEPT ![q] = Append(d, m)]]
    BY Zenon, <1>1, <1>2
  <2> QED
    BY ONLY Zenon, <2>1, <1>4, s \in SlServers, q \in SlServers
<1>6. SlTypeOK'
  <2>1. slKnown' \in [SlServers -> SUBSET SlServers]
    BY Zenon, <1>1 DEF SlIInv, SlTypeOK
  <2> QED
    BY Zenon, <2>1, <1>1, <1>2, <1>5 DEF SlIInv, SlTypeOK
<1>7. OwnInv'
  BY Zenon, <1>1 DEF SlIInv, OwnInv
<1>8. /\ Len(Append(d, m)) = Len(d) + 1 /\ Append(d, m)[Len(d) + 1] = m
      /\ \A j \in 1 .. Len(d) : Append(d, m)[j] = d[j]
  BY <1>3
<1>9. OriginInv'
  <2>1. ASSUME NEW a \in SlServers, NEW b \in SlServers, NEW k \in SlKeys,
               NEW j \in 1 .. Len(slData'[a][b])
        PROVE  Origin(slData'[a][b][j].md[k], k, slOwn)
    <3>1. CASE a # s \/ b # q
      <4>1. slData'[a][b] = slData[a][b]
        BY Zenon, <3>1, <1>5
      <4> QED
        BY Zenon, <4>1, <2>1 DEF SlIInv, OriginInv
    <3>2. CASE a = s /\ b = q
      <4>1. slData'[a][b] = Append(d, m) /\ (j \in 1 .. Len(d) \/ j = Len(d) + 1)
        BY <3>2, <2>1, <1>3, <1>5, <1>8
      <4>2. \A h \in 1 .. Len(d) : Origin(d[h].md[k], k, slOwn)
        BY Zenon, <1>2 DEF SlIInv, OriginInv
      <4>3. Origin(m.md[k], k, slOwn)
        BY Zenon, <1>3 DEF SlIInv, OriginInv
      <4> QED
        BY Zenon, <4>1, <4>2, <4>3, <1>8
    <3> QED
      BY Zenon, <3>1, <3>2
  <2> QED
    BY Zenon, <2>1, <1>1 DEF SlIInv, OriginInv
<1>10. \A k \in SlKeys : Below(slOwn[s][k], m.md[k])
  BY Zenon, <1>3 DEF SlIInv, OwnInv
<1>11. ASSUME NEW a \in SlServers, NEW b \in SlServers PROVE PairInv(a, b)'
  <2>1. CASE a # s \/ b # q
    <3>1. slData'[a][b] = slData[a][b] /\ (b \in slKnown'[a] => b \in slKnown[a] /\ {a, b} \in slUp')
      BY Zenon, <2>1, <1>1, <1>5 DEF SlIInv, SlTypeOK, PairInv
    <3>2. slMeta'[b] \in Metadata /\ \A k \in SlKeys : Below(slMeta[b][k], slMeta'[b][k])
      BY Zenon, <1>1, DataTypes, BelowIsReflexive DEF SlIInv
    <3> QED
      BY Zenon, <3>1, <3>2, <1>1, PairStays
  <2>2. CASE a = s /\ b = q
    <3>1. PICK o, n, e, x : o = slOwn[s] /\ n = slVersion[s] /\ e = slSeen[q][s] /\ x = slMeta[q]
      BY Zenon
    <3>2. o \in Metadata /\ n \in Nat /\ e \in Nat /\ x \in Metadata
      BY Zenon, <3>1, DataTypes DEF SlIInv
    <3>3. VersionsOK(n, d, e) /\ (slOrdered => Brings(o, n, x, d, e))
      BY Zenon, <3>1, <1>2 DEF SlIInv, PairInv
    <3>4. VersionsOK(n, Append(d, m), e) /\ Reaches(o, n, x, Append(d, m), e)
      BY Zenon, <3>1, <3>2, <3>3, <1>3, <1>10, PairConnects
    <3>5. slOrdered => Brings(o, n, x, Append(d, m), e)
      BY Zenon, <3>1, <3>2, <3>3, <1>3, <1>10, BringsAppended
    <3> QED
      BY Zenon, <2>2, <3>1, <3>4, <3>5, <1>1, <1>5 DEF PairInv
  <2> QED
    BY Zenon, <2>1, <2>2
<1>12. SyncInv'
  <2> SUFFICES ASSUME slOrdered, slSync.st = "wait", slSync.of = s, slSync.at = q
               PROVE  Brings(slSync.must, slSync.v, slMeta[q], slData'[s][q], slSeen[q][s])
    <3>1. \/ slSync.st \notin {"query", "wait", "done"}
          \/ slSync.at \in SlServers /\ slSync.of \in SlServers
      BY Zenon, SyncTypes DEF SlIInv, SlSyncs
    <3> QED
      BY <3>1, <1>1, <1>5 DEF SlIInv, SyncInv
  <2>1. slSync \in SlSyncs
    BY Zenon, SyncTypes DEF SlIInv
  <2>2. PICK must, v, e, x : must = slSync.must /\ v = slSync.v /\ e = slSeen[q][s] /\ x = slMeta[q]
    BY Zenon
  <2>3. must \in Metadata /\ v \in Nat /\ e \in Nat /\ x \in Metadata
    BY Zenon, <2>1, <2>2, DataTypes DEF SlSyncs, SlIInv
  <2>4. Brings(must, v, x, d, e)
    BY Zenon, <2>2, <1>2 DEF SlIInv, SyncInv
  <2>5. \A k \in SlKeys : Below(must[k], m.md[k])
    <3> TAKE k \in SlKeys
    <3>1. /\ Below(must[k], slOwn[s][k]) /\ must[k] \in SlEntries
          /\ slOwn[s][k] \in SlEntries /\ m.md[k] \in SlEntries
      BY Zenon, <2>2, <2>3, <1>3, DataTypes DEF SlIInv, SyncInv, Metadata
    <3> QED
      BY Zenon, <3>1, <1>10, BelowIsTransitive
  <2>6. Brings(must, v, x, Append(d, m), e)
    BY Zenon, <2>3, <2>4, <2>5, <1>3, BringsAppended
  <2> QED
    BY Zenon, <2>2, <2>6, <1>5
<1> QED
  BY Zenon, <1>6, <1>7, <1>9, <1>11, <1>12 DEF SlIInv


(* Who brings metadata brings what is below it.                            *)
LEMMA BringsOfLess ==
    ASSUME NEW md \in Metadata, NEW less \in Metadata, \A k \in SlKeys : Below(less[k], md[k]),
           NEW v \in Nat, NEW meta \in Metadata, NEW data \in Seq(SlMessages), NEW seen \in Nat,
           Brings(md, v, meta, data, seen)
    PROVE  Brings(less, v, meta, data, seen)
<1>1. \A k \in SlKeys : md[k] \in SlEntries /\ less[k] \in SlEntries /\ meta[k] \in SlEntries
  BY Zenon DEF Metadata
<1>2. seen > v => \A k \in SlKeys : Below(less[k], meta[k])
  BY Zenon, <1>1, BelowIsTransitive DEF Brings
<1>3. ASSUME NEW i \in 1 .. Len(data), data[i].v >= v, NEW k \in SlKeys
      PROVE  Carried(less[k], k, meta, data, i)
  <2>1. Carried(md[k], k, meta, data, i) /\ i \in 0 .. Len(data)
    BY <1>3 DEF Brings
  <2> QED
    BY Zenon, <2>1, <1>1, CarriedOfLess
<1> QED
  BY Zenon, <1>2, <1>3 DEF Brings

\* A step of a sync changes nothing else
LEMMA SyncStepKeeps ==
    ASSUME SlIInv, UNCHANGED <<slMeta, slVersion, slOwn, slUp, slKnown, slData, slSeen, slOrdered, slCount>>,
           slSync' \in {NoSync} \cup SlSyncs, SyncInv'
    PROVE  SlIInv'
<1>1. SlTypeOK' /\ OwnInv' /\ OriginInv'
  BY Zenon DEF SlIInv, SlTypeOK, OwnInv, OriginInv
<1>2. \A s, q \in SlServers : PairInv(s, q)'
  BY Zenon DEF SlIInv, PairInv
<1> QED
  BY Zenon, <1>1, <1>2 DEF SlIInv

(* SyncStart keeps the inductive invariant.                                *)
LEMMA SyncStartKeeps ==
    ASSUME SlIInv, NEW s \in SlServers, NEW q \in SlServers, SyncFrom(s, q) \/ SyncTo(s, q)
    PROVE  SlIInv'
<1>1. UNCHANGED <<slMeta, slVersion, slOwn, slUp, slKnown, slData, slSeen, slOrdered, slCount>>
  BY Zenon DEF SyncFrom, SyncTo
<1>2. /\ slOwn[s] \in Metadata /\ slOwn[q] \in Metadata /\ slVersion[s] \in Nat
      /\ \A k \in SlKeys : Below(slOwn[s][k], slOwn[s][k]) /\ Below(slOwn[q][k], slOwn[q][k])
  BY Zenon, DataTypes, BelowIsReflexive DEF SlIInv
<1>3. CASE SyncFrom(s, q)
  <2>1. slSync' = [st |-> "query", at |-> s, of |-> q, must |-> slOwn[q], v |-> 0]
    BY Zenon, <1>3 DEF SyncFrom
  <2>2. /\ slSync' \in SlSyncs /\ slSync'.st = "query" /\ slSync'.of = q /\ slSync'.must = slOwn[q]
    BY Zenon, <2>1, <1>2 DEF SlSyncs
  <2>3. SyncInv'
    BY Zenon, <2>2, <1>1, <1>2 DEF SyncInv
  <2> QED
    BY Zenon, <2>2, <2>3, <1>1, SyncStepKeeps
<1>4. CASE SyncTo(s, q)
  <2>1. slSync' = [st |-> "wait", at |-> q, of |-> s, must |-> slOwn[s], v |-> slVersion[s]]
    BY Zenon, <1>4 DEF SyncTo
  <2>2. /\ slSync' \in SlSyncs /\ slSync'.st = "wait" /\ slSync'.of = s /\ slSync'.must = slOwn[s]
        /\ slSync'.at = q /\ slSync'.v = slVersion[s]
    BY Zenon, <2>1, <1>2 DEF SlSyncs
  <2>3. slOrdered => Brings(slOwn[s], slVersion[s], slMeta[q], slData[s][q], slSeen[q][s])
    BY Zenon DEF SlIInv, PairInv
  <2>4. SyncInv'
    BY <2>2, <2>3, <1>1, <1>2 DEF SyncInv
  <2> QED
    BY Zenon, <2>2, <2>4, <1>1, SyncStepKeeps
<1> QED
  BY Zenon, <1>3, <1>4

(* SyncGoesOn keeps the inductive invariant.                               *)
LEMMA SyncGoesOnKeeps ==
    ASSUME SlIInv, SyncFromQuery \/ WaitForVersion
    PROVE  SlIInv'
<1>1. UNCHANGED <<slMeta, slVersion, slOwn, slUp, slKnown, slData, slSeen, slOrdered, slCount>>
  BY Zenon DEF SyncFromQuery, WaitForVersion, SyncStep
<1>2. slSync \in SlSyncs
  BY Zenon, SyncTypes DEF SlIInv, SyncFromQuery, WaitForVersion
<1>3. PICK at, of, must, v, y : /\ y = slSync /\ at = y.at /\ of = y.of /\ must = y.must /\ v = y.v
  BY Zenon
<1>4. y \in SlSyncs /\ at \in SlServers /\ of \in SlServers /\ must \in Metadata /\ v \in Nat
  BY Zenon, <1>2, <1>3 DEF SlSyncs
<1>5. PICK o, n, d, e, x : /\ o = slOwn[of] /\ n = slVersion[of] /\ d = slData[of][at]
                           /\ e = slSeen[at][of] /\ x = slMeta[at]
  BY Zenon
<1>6. /\ o \in Metadata /\ n \in Nat /\ d \in Seq(SlMessages) /\ e \in Nat /\ x \in Metadata
  BY Zenon, <1>4, <1>5, DataTypes DEF SlIInv
<1>7. CASE SyncFromQuery
  <2>1. y.st = "query" /\ slSync' = [y EXCEPT !.st = "wait", !.v = n]
    BY Zenon, <1>3, <1>5, <1>7 DEF SyncFromQuery
  <2>2. /\ slSync' \in SlSyncs /\ slSync'.st = "wait" /\ slSync'.at = at /\ slSync'.of = of
        /\ slSync'.must = must /\ slSync'.v = n
    BY ONLY Zenon, <2>1, <1>3, <1>4, <1>6 DEF SlSyncs
  <2>3. \A k \in SlKeys : Below(must[k], o[k])
    BY Zenon, <2>1, <1>3, <1>5 DEF SlIInv, SyncInv
  <2>4. slOrdered => Brings(o, n, x, d, e)
    BY Zenon, <1>4, <1>5 DEF SlIInv, PairInv
  <2>5. slOrdered => Brings(must, n, x, d, e)
    BY Zenon, <2>3, <2>4, <1>4, <1>6, BringsOfLess
  <2>6. SyncInv'
    BY <2>2, <2>3, <2>5, <1>1, <1>5, <1>6 DEF SyncInv
  <2> QED
    BY Zenon, <2>2, <2>6, <1>1, SyncStepKeeps
<1>8. CASE WaitForVersion
  <2>1. y.st = "wait" /\ e > v /\ slSync' = [y EXCEPT !.st = "done"]
    BY Zenon, <1>3, <1>5, <1>8 DEF WaitForVersion, SyncStep
  <2>2. /\ slSync' \in SlSyncs /\ slSync'.st = "done" /\ slSync'.at = at /\ slSync'.must = must
    BY ONLY Zenon, <2>1, <1>3, <1>4 DEF SlSyncs
  <2>3. slOrdered => Brings(must, v, x, d, e)
    BY Zenon, <2>1, <1>3, <1>5 DEF SlIInv, SyncInv
  <2>4. slOrdered => \A k \in SlKeys : Below(must[k], x[k])
    BY Zenon, <2>1, <2>3 DEF Brings
  <2>5. SyncInv'
    BY Zenon, <2>2, <2>4, <1>1, <1>5 DEF SyncInv
  <2> QED
    BY Zenon, <2>2, <2>5, <1>1, SyncStepKeeps
<1> QED
  BY Zenon, <1>7, <1>8

(* Connect keeps the inductive invariant.                                  *)
LEMMA ConnectKeeps ==
    ASSUME SlIInv, NEW pair, Connect(pair)
    PROVE  SlIInv'
<1>1. /\ slUp \subseteq slUp'
      /\ UNCHANGED <<slMeta, slVersion, slOwn, slKnown, slData, slSeen, slSync, slOrdered, slCount>>
  BY Zenon DEF Connect
<1>2. SlTypeOK' /\ OwnInv' /\ OriginInv' /\ SyncInv'
  BY Zenon, <1>1 DEF SlIInv, SlTypeOK, OwnInv, OriginInv, SyncInv
<1>3. \A s, q \in SlServers : PairInv(s, q)'
  BY Zenon, <1>1 DEF SlIInv, PairInv
<1> QED
  BY Zenon, <1>2, <1>3 DEF SlIInv

(* Disconnect keeps the inductive invariant.                               *)
LEMMA DisconnectKeeps ==
    ASSUME SlIInv, NEW pair, Disconnect(pair)
    PROVE  SlIInv'
<1>1. /\ slUp' = slUp \ {pair}
      /\ slData' = [s \in SlServers |-> [q \in SlServers |-> IF {s, q} = pair THEN <<>> ELSE slData[s][q]]]
      /\ slKnown' = [s \in SlServers |-> IF s \in pair THEN slKnown[s] \ pair ELSE slKnown[s]]
      /\ UNCHANGED <<slMeta, slVersion, slOwn, slSeen, slOrdered>>
  BY Zenon DEF Disconnect
<1>2. \/ slSync' = slSync /\ (slSync.st \in {"query", "wait"} => {slSync.at, slSync.of} # pair)
      \/ slSync' = [slSync EXCEPT !.st = "failed"] /\ slSync.st \in {"query", "wait"}
  BY Zenon DEF Disconnect
<1>3. slSync.st \in {"query", "wait"} => slSync \in SlSyncs
  BY Zenon, SyncTypes DEF SlIInv
<1>4. slSync' \in {NoSync} \cup SlSyncs /\ (slSync' = slSync \/ slSync'.st = "failed")
  <2>1. CASE slSync' = slSync
    BY Zenon, <2>1 DEF SlIInv, SlTypeOK
  <2>2. CASE slSync' = [slSync EXCEPT !.st = "failed"] /\ slSync.st \in {"query", "wait"}
    <3>1. PICK y : y = slSync
      BY Zenon
    <3>2. y \in SlSyncs /\ slSync' = [y EXCEPT !.st = "failed"]
      BY Zenon, <2>2, <3>1, <1>3
    <3> QED
      BY Zenon, <3>2 DEF SlSyncs
  <2> QED
    BY Zenon, <2>1, <2>2, <1>2
<1>5. /\ slData' \in [SlServers -> [SlServers -> Seq(SlMessages)]]
      /\ \A s, q \in SlServers : slData'[s][q] = IF {s, q} = pair THEN <<>> ELSE slData[s][q]
  <2>1. <<>> \in Seq(SlMessages) /\ \A s, q \in SlServers : slData[s][q] \in Seq(SlMessages)
    BY DataTypes DEF SlIInv
  <2> QED
    BY Zenon, <2>1, <1>1
<1>6. SlTypeOK'
  <2>1. PICK c : c = slCount
    BY Zenon
  <2>2. c \in [tags : SUBSET Nat, deletes : Nat, losses : Nat] /\ slCount' = [c EXCEPT !.losses = c.losses + 1]
    BY Zenon, <2>1 DEF Disconnect, SlIInv, SlTypeOK
  <2>3. slCount' \in [tags : SUBSET Nat, deletes : Nat, losses : Nat]
    BY <2>2
  <2>4. slKnown' \in [SlServers -> SUBSET SlServers]
    BY Zenon, <1>1 DEF SlIInv, SlTypeOK
  <2> QED
    BY Zenon, <2>3, <2>4, <1>1, <1>4, <1>5 DEF SlIInv, SlTypeOK
<1>7. OwnInv'
  BY Zenon, <1>1 DEF SlIInv, OwnInv
<1>8. OriginInv'
  <2>1. ASSUME NEW a \in SlServers, NEW b \in SlServers, NEW k \in SlKeys, NEW j \in 1 .. Len(slData'[a][b])
        PROVE  Origin(slData'[a][b][j].md[k], k, slOwn)
    <3>1. slData'[a][b] # <<>>
      BY <2>1
    <3>2. slData'[a][b] = slData[a][b]
      BY Zenon, <3>1, <1>5
    <3> QED
      BY Zenon, <3>2, <2>1 DEF SlIInv, OriginInv
  <2> QED
    BY Zenon, <2>1, <1>1 DEF SlIInv, OriginInv
<1>9. ASSUME NEW a \in SlServers, NEW b \in SlServers PROVE PairInv(a, b)'
  <2>1. CASE {a, b} = pair
    <3>1. b \notin slKnown'[a] /\ slData'[a][b] = <<>>
      BY Zenon, <2>1, <1>1, <1>5
    <3>2. PICK o, n, d, e, x : /\ o = slOwn[a] /\ n = slVersion[a] /\ d = slData[a][b]
                               /\ e = slSeen[b][a] /\ x = slMeta[b]
      BY Zenon
    <3>3. /\ o \in Metadata /\ n \in Nat /\ d \in Seq(SlMessages) /\ e \in Nat /\ x \in Metadata
          /\ \A k \in SlKeys : Below(x[k], x[k])
      BY Zenon, <3>2, DataTypes, BelowIsReflexive DEF SlIInv
    <3>4. VersionsOK(n, d, e) /\ (slOrdered => Brings(o, n, x, d, e))
      BY Zenon, <3>2 DEF SlIInv, PairInv
    <3>5. VersionsOK(n, <<>>, e)
      BY SMTT(30), <3>4 DEF VersionsOK
    <3>6. slOrdered => Brings(o, n, x, <<>>, e)
      BY Zenon, <3>3, <3>4, BringsGrows
    <3> QED
      BY Zenon, <3>1, <3>2, <3>5, <3>6, <1>1 DEF PairInv
  <2>2. CASE {a, b} # pair
    <3>1. slData'[a][b] = slData[a][b] /\ (b \in slKnown'[a] => b \in slKnown[a] /\ {a, b} \in slUp')
      BY Zenon, <2>2, <1>1, <1>5 DEF SlIInv, PairInv
    <3>2. slMeta'[b] \in Metadata /\ \A k \in SlKeys : Below(slMeta[b][k], slMeta'[b][k])
      BY Zenon, <1>1, DataTypes, BelowIsReflexive DEF SlIInv
    <3> QED
      BY Zenon, <3>1, <3>2, <1>1, PairStays
  <2> QED
    BY Zenon, <2>1, <2>2
<1>10. SyncInv'
  <2>1. CASE slSync'.st = "failed"
    BY Zenon, <2>1 DEF SyncInv
  <2>2. CASE slSync' = slSync /\ slSync.st = "wait"
    <3>1. slSync.at \in SlServers /\ slSync.of \in SlServers /\ {slSync.of, slSync.at} # pair
      BY Zenon, <2>2, <1>2, <1>3 DEF SlSyncs
    <3>2. slData'[slSync.of][slSync.at] = slData[slSync.of][slSync.at]
      BY Zenon, <3>1, <1>5
    <3> QED
      BY Zenon, <2>2, <3>2, <1>1 DEF SlIInv, SyncInv
  <2>3. CASE slSync' = slSync /\ slSync.st # "wait"
    BY Zenon, <2>3, <1>1 DEF SlIInv, SyncInv
  <2> QED
    BY Zenon, <2>1, <2>2, <2>3, <1>4
<1> QED
  BY Zenon, <1>6, <1>7, <1>8, <1>9, <1>10 DEF SlIInv


(* Every step keeps the inductive invariant.                               *)
LEMMA StepSlIInv ==
    ASSUME SlIInv, [SlNext]_slVars
    PROVE  SlIInv'
<1>1. CASE UNCHANGED slVars
  <2>1. UNCHANGED <<slMeta, slVersion, slOwn, slUp, slKnown, slData, slSeen, slOrdered, slCount>> /\ slSync' = slSync
    BY Zenon, <1>1 DEF slVars
  <2>2. slSync' \in {NoSync} \cup SlSyncs /\ SyncInv'
    BY Zenon, <2>1 DEF SlIInv, SlTypeOK, SyncInv
  <2> QED
    BY Zenon, <2>1, <2>2, SyncStepKeeps
<1>2. ASSUME NEW s \in SlServers, NEW k \in SlKeys,
             DeleteKey(s, k) \/ \E tag \in 1 .. SlMaxSets : SetValue(s, k, tag)
      PROVE  SlIInv'
  BY Zenon, <1>2, ChangesKeep
<1>3. ASSUME NEW s \in SlServers, NEW q \in SlServers, ManagerConnectionChange(s, q) PROVE SlIInv'
  BY Zenon, <1>3, ConnectionChangeKeeps
<1>4. ASSUME NEW s \in SlServers, NEW q \in SlServers, NEW i \in DOMAIN slData[s][q], OnMetadata(s, q, i)
      PROVE  SlIInv'
  BY Zenon, <1>4, OnMetadataKeeps
<1>5. ASSUME NEW s \in SlServers, NEW q \in SlServers, SyncFrom(s, q) \/ SyncTo(s, q) PROVE SlIInv'
  BY Zenon, <1>5, SyncStartKeeps
<1>6. CASE SyncFromQuery \/ WaitForVersion
  BY Zenon, <1>6, SyncGoesOnKeeps
<1>7. ASSUME NEW pair \in Pairs, Connect(pair) \/ Disconnect(pair) PROVE SlIInv'
  BY Zenon, <1>7, ConnectKeeps, DisconnectKeeps
<1> QED
  BY Zenon, <1>1, <1>2, <1>3, <1>4, <1>5, <1>6, <1>7 DEF SlNext

--------------------------------------------------------------------------------
(* What the invariant says                                                 *)

(* Servers that have exchanged their messages agree.                       *)
LEMMA Converges == SlIInv => MetadataConverges
<1> SUFFICES ASSUME SlIInv, \A s, q \in Active : s # q => q \in slKnown[s] /\ slData[s][q] = <<>>,
                    NEW s \in Active, NEW q \in Active
             PROVE  slMeta[s] = slMeta[q]
  BY Zenon DEF MetadataConverges
<1>1. ASSUME NEW a \in Active, NEW b \in Active, NEW k \in SlKeys
      PROVE  Below(slMeta[a][k], slMeta[b][k])
  <2>1. a \in SlServers /\ b \in SlServers
    BY Zenon DEF Active
  <2>2. PICK t \in SlServers : Below(slMeta[a][k], slOwn[t][k])
    BY Zenon, <2>1 DEF SlIInv, OriginInv, Origin
  <2>3. /\ slMeta[a][k] \in SlEntries /\ slMeta[b][k] \in SlEntries
        /\ slOwn[t][k] \in SlEntries /\ slMeta[t][k] \in SlEntries
    BY Zenon, <2>1, DataTypes DEF SlIInv
  <2>4. Below(slOwn[t][k], slMeta[t][k])
    BY Zenon DEF SlIInv, OwnInv
  <2>5. CASE t \notin Active
    <3>1. slMeta[t][k] = Absent
      BY Zenon, <2>5, NoMetadataIsLeast DEF Active
    <3>2. slMeta[a][k] = Absent
      BY Zenon, <2>2, <2>3, <2>4, <3>1, BelowIsTransitive, NoMetadataIsLeast
    <3> QED
      BY Zenon, <3>2, <2>3, NoMetadataIsLeast
  <2>6. CASE t = b
    BY Zenon, <2>2, <2>3, <2>4, <2>6, BelowIsTransitive
  <2>7. CASE t \in Active /\ t # b
    <3>1. b \in slKnown[t] /\ slData[t][b] = <<>>
      BY Zenon, <2>7
    <3>2. Carried(slOwn[t][k], k, slMeta[b], slData[t][b], Len(slData[t][b]))
      BY Zenon, <3>1, <2>1 DEF SlIInv, PairInv, Reaches
    <3>3. Len(slData[t][b]) = 0
      BY <3>1
    <3>4. Below(slOwn[t][k], slMeta[b][k])
      BY <3>2, <3>3 DEF Carried
    <3> QED
      BY Zenon, <3>4, <2>2, <2>3, BelowIsTransitive
  <2> QED
    BY Zenon, <2>5, <2>6, <2>7
<1>2. PICK x, y : x = slMeta[s] /\ y = slMeta[q]
  BY Zenon
<1>3. x \in Metadata /\ y \in Metadata
  BY Zenon, <1>2, DataTypes DEF SlIInv, Active
<1>4. \A k \in SlKeys : x[k] = y[k]
  <2> TAKE k \in SlKeys
  <2>1. x[k] \in SlEntries /\ y[k] \in SlEntries /\ Below(x[k], y[k]) /\ Below(y[k], x[k])
    BY Zenon, <1>1, <1>2, <1>3 DEF Metadata
  <2> QED
    BY Zenon, <2>1, BelowIsAntisymmetric
<1> QED
  BY <1>2, <1>3, <1>4 DEF Metadata

(* A sync that is done has brought what it promises, and each is answered. *)
LEMMA SyncsAreRight == SlIInv => SyncsTellTheTruth /\ SyncsReturn
<1> SUFFICES ASSUME SlIInv PROVE SyncsTellTheTruth /\ SyncsReturn
  BY Zenon
<1>1. ASSUME slOrdered, slSync.st = "done" PROVE IsIn(slSync.must, slMeta[slSync.at])
  <2>1. slSync \in SlSyncs
    BY Zenon, <1>1, SyncTypes DEF SlIInv
  <2>2. PICK x, y : x = slSync.must /\ y = slMeta[slSync.at]
    BY Zenon
  <2>3. x \in Metadata /\ y \in Metadata /\ \A k \in SlKeys : Below(x[k], y[k])
    BY Zenon, <2>1, <2>2, <1>1, DataTypes DEF SlSyncs, SlIInv, SyncInv
  <2> QED
    BY Zenon, <2>2, <2>3, IsInMeans
<1>2. ASSUME slSync.st = "wait", slSync.at \in slKnown[slSync.of], slData[slSync.of][slSync.at] = <<>>
      PROVE  slSeen[slSync.at][slSync.of] > slSync.v
  <2>1. slSync \in SlSyncs
    BY Zenon, <1>2, SyncTypes DEF SlIInv
  <2>2. PICK at, of, v : at = slSync.at /\ of = slSync.of /\ v = slSync.v
    BY Zenon
  <2>3. at \in SlServers /\ of \in SlServers /\ v \in Nat /\ v <= slVersion[of] /\ slVersion[of] \in Nat
    BY Zenon, <2>1, <2>2, <1>2, DataTypes DEF SlSyncs, SlIInv, SyncInv
  <2>4. slSeen[at][of] = slVersion[of] + 1
    <3>1. at \in slKnown[of] /\ slData[of][at] = <<>>
      BY Zenon, <2>2, <1>2
    <3>2. Reaches(slOwn[of], slVersion[of], slMeta[at], slData[of][at], slSeen[at][of])
      BY Zenon, <3>1, <2>3 DEF SlIInv, PairInv
    <3>3. 1 .. Len(slData[of][at]) = {}
      BY <3>1
    <3> QED
      BY Zenon, <3>2, <3>3 DEF Reaches
  <2> QED
    BY <2>2, <2>3, <2>4
<1> QED
  BY Zenon, <1>1, <1>2 DEF SyncsTellTheTruth, SyncsReturn

\* semilattice_manager_t, for any number of servers and keys and whatever their
\* clocks show: servers that know of each other and have handled all that was
\* sent agree, however messages overtook each other and connections came and
\* went; where messages are handled in order a sync that has returned has
\* brought what it promised, and none waits for what will not come.
THEOREM MetadataIsRight == SlSpec => []SlInv
<1>1. SlSpec => []SlIInv
  BY InitSlIInv, StepSlIInv, PTL DEF SlSpec
<1>2. SlIInv => SlInv
  BY Zenon, Converges, SyncsAreRight DEF SlInv
<1> QED
  BY <1>1, <1>2, PTL

(* No step takes metadata back.                                            *)
LEMMA MetadataGrows ==
    ASSUME SlIInv, [SlNext]_slVars, NEW s \in SlServers
    PROVE  IsIn(slMeta[s], slMeta'[s])
<1>1. SlIInv'
  BY Zenon, StepSlIInv
<1>2. slMeta[s] \in Metadata /\ slMeta'[s] \in Metadata
  BY Zenon, <1>1 DEF SlIInv, SlTypeOK
<1>3. \A k \in SlKeys : Below(slMeta[s][k], slMeta'[s][k])
  <2>1. CASE slMeta' = slMeta
    BY Zenon, <2>1, DataTypes, BelowIsReflexive DEF SlIInv
  <2>2. ASSUME NEW r \in SlServers, NEW q \in SlServers, NEW i \in DOMAIN slData[r][q], OnMetadata(r, q, i)
        PROVE  \A k \in SlKeys : Below(slMeta[s][k], slMeta'[s][k])
    BY Zenon, <2>2, OnMetadataEffect DEF SlIInv
  <2>3. ASSUME NEW r \in SlServers, NEW md \in Metadata, RootViewJoin(r, md)
        PROVE  \A k \in SlKeys : Below(slMeta[s][k], slMeta'[s][k])
    BY Zenon, <2>3, RootViewJoinEffect DEF SlIInv
  <2>4. ASSUME NEW r \in SlServers, NEW k \in SlKeys, DeleteKey(r, k)
        PROVE  \E md \in Metadata : RootViewJoin(r, md)
    <3>1. Deleted \in SlEntries
      BY Zenon DEF SlEntries
    <3> QED
      BY Zenon, <2>4, <3>1, OneKey DEF DeleteKey
  <2>5. ASSUME NEW r \in SlServers, NEW k \in SlKeys, NEW tag \in 1 .. SlMaxSets, SetValue(r, k, tag)
        PROVE  \E md \in Metadata : RootViewJoin(r, md)
    <3>1. PICK e : e = [kind |-> "value", ts |-> OnChange(r, k), tag |-> tag]
      BY Zenon
    <3>2. e \in SlEntries
      BY <3>1, <2>5, SlAssumption, OnChangeIsNewer DEF SetValue, SlEntries, SlIInv
    <3> QED
      BY Zenon, <2>5, <3>1, <3>2, OneKey DEF SetValue
  <2>6. CASE SlNext
    BY Zenon, <2>1, <2>2, <2>3, <2>4, <2>5, <2>6
       DEF SlNext, ManagerConnectionChange, SyncFrom, SyncTo, SyncFromQuery, WaitForVersion, SyncStep,
           Connect, Disconnect
  <2> QED
    BY Zenon, <2>1, <2>6 DEF slVars
<1>4. PICK a, b : a = slMeta[s] /\ b = slMeta'[s]
  BY Zenon
<1> QED
  BY Zenon, <1>2, <1>3, <1>4, IsInMeans

(* A value that is set is there.                                           *)
LEMMA ValuesTakeEffect ==
    ASSUME SlIInv, [SlNext]_slVars, NEW tag \in slCount'.tags \ slCount.tags
    PROVE  \E s \in SlServers, k \in SlKeys : slMeta'[s][k].tag = tag
<1>1. PICK s \in SlServers, k \in SlKeys, t \in 1 .. SlMaxSets : SetValue(s, k, t)
  <2>1. slCount'.tags # slCount.tags
    BY Zenon
  <2>2. PICK c : c = slCount /\ c \in [tags : SUBSET Nat, deletes : Nat, losses : Nat]
    BY Zenon DEF SlIInv, SlTypeOK
  <2>3. [c EXCEPT !.deletes = c.deletes + 1].tags = c.tags /\ [c EXCEPT !.losses = c.losses + 1].tags = c.tags
    BY Zenon, <2>2
  <2>4. slCount' # slCount /\ ~ (\E s \in SlServers, k \in SlKeys : DeleteKey(s, k))
        /\ ~ (\E pair \in Pairs : Disconnect(pair))
    BY Zenon, <2>1, <2>2, <2>3 DEF DeleteKey, Disconnect
  <2> QED
    BY ZenonT(30), <2>4 DEF SlNext, slVars, ManagerConnectionChange, OnMetadata, SyncFrom, SyncTo, SyncFromQuery,
                WaitForVersion, SyncStep, Connect
<1>2. PICK e, md, x : /\ e = [kind |-> "value", ts |-> OnChange(s, k), tag |-> t]
                      /\ md = [NoMetadata EXCEPT ![k] = e] /\ x = slMeta[s]
  BY Zenon
<1>3. t \in Nat /\ slMeta[s][k] # Deleted /\ RootViewJoin(s, md)
  BY <1>1, <1>2, SlAssumption DEF SetValue
<1>4. e \in SlValues /\ (x[k] = Absent \/ x[k].ts < e.ts) /\ e.kind = "value" /\ e.tag = t
  BY Zenon, <1>2, <1>3, OnChangeIsNewer DEF SlIInv
<1>5. e \in SlEntries /\ x \in Metadata /\ x[k] \in SlEntries /\ x[k] # Deleted
  BY Zenon, <1>2, <1>3, <1>4, DataTypes DEF SlIInv, SlEntries
<1>6. md \in Metadata /\ md[k] = e
  BY Zenon, <1>2, <1>5, OneKey
<1>7. Below(x[k], e)
  BY Zenon, <1>4, <1>5, EntriesAre DEF Below
<1>8. slMeta'[s] = MapJoin(x, md)
  BY Zenon, <1>2, <1>3, <1>6, RootViewJoinEffect DEF SlIInv
<1>9. slMeta'[s][k] = e
  BY <1>5, <1>6, <1>7, <1>8, JoinIsGreater
<1>10. tag = t
  <2>1. PICK c : c = slCount /\ c \in [tags : SUBSET Nat, deletes : Nat, losses : Nat]
    BY Zenon DEF SlIInv, SlTypeOK
  <2>2. slCount' = [c EXCEPT !.tags = c.tags \cup {t}]
    BY Zenon, <2>1, <1>1 DEF SetValue
  <2>3. slCount'.tags = c.tags \cup {t}
    BY Zenon, <2>1, <2>2
  <2> QED
    BY Zenon, <2>1, <2>3
<1> QED
  BY Zenon, <1>4, <1>9, <1>10

\* No step of any server takes metadata back, and a value that is set is what
\* its server has afterwards, however far its clock is behind
\* (versioned_t::on_change(), semilattice_manager_t::root_view_t::join()).
THEOREM MetadataNeverGoesBack == SlSpec => SlSteps
<1>1. SlSpec => []SlIInv
  BY InitSlIInv, StepSlIInv, PTL DEF SlSpec
<1>2. SlIInv /\ [SlNext]_slVars => [\A s \in SlServers : IsIn(slMeta[s], slMeta'[s])]_slVars
  BY Zenon, MetadataGrows
<1>3. SlIInv /\ [SlNext]_slVars =>
        [\A tag \in slCount'.tags \ slCount.tags :
           \E s \in SlServers, k \in SlKeys : slMeta'[s][k].tag = tag]_slVars
  BY Zenon, ValuesTakeEffect
<1> QED
  BY <1>1, <1>2, <1>3, PTL DEF SlSpec, SlSteps, SetsTakeEffect, MetadataOnlyGrows

================================================================================
