------------------------------ MODULE DfsProofs ------------------------------
(***************************************************************************)
(* Proofs about Dfs.  FileInv is about descriptors: what a call that has   *)
(* one in hand has done with it (Stage), and that its references are those *)
(* of its owner and of the calls, as a sum over the threads.  SlotInv is   *)
(* about the entries of the mount table, which a mount fills in stages.    *)
(* UnlinkOK adds that nobody has opened what is being removed, MountInv    *)
(* that volumes and devices belong to one entry each.                      *)
(***************************************************************************)
EXTENDS Dfs, ListLemmas

-----------------------------------------------------------------------------
(* Sums of counts.                                                          *)

\* A sum of naturals is one, and is 0 only when all of them are.
LEMMA SumNat ==
    ASSUME NEW S, IsFiniteSet(S), NEW f, \A x \in S : f[x] \in Nat
    PROVE  SumFunctionOnSet(f, S) \in Nat
<1> DEFINE T == {n \in Nat : \A s \in SUBSET S : Cardinality(s) = n => SumFunctionOnSet(f, s) \in Nat}
<1>0. \A s \in SUBSET S : IsFiniteSet(s) /\ Cardinality(s) \in Nat
  BY FS_Subset, FS_CardinalityType, Zenon
<1>1. 0 \in T
  <2>1. ASSUME NEW s \in SUBSET S, Cardinality(s) = 0 PROVE SumFunctionOnSet(f, s) \in Nat
    <3>1. s = {}
      BY <1>0, <2>1, FS_EmptySet, Zenon
    <3>2. SumFunctionOnSet(f, s) = 0
      BY <1>0, <3>1, SumRound
    <3> QED  BY <3>2
  <2> QED  BY <2>1
<1>2. ASSUME NEW n \in Nat, n \in T PROVE n + 1 \in T
  <2>1. ASSUME NEW s \in SUBSET S, Cardinality(s) = n + 1 PROVE SumFunctionOnSet(f, s) \in Nat
    <3>1. s # {}
      BY <2>1, FS_EmptySet
    <3>2. PICK x : x \in s
      BY <3>1
    <3>3. IsFiniteSet(s) /\ (\A y \in s : f[y] \in Int) /\ f[x] \in Nat
      BY <1>0, <3>2
    <3>4. SumFunctionOnSet(f, s) = f[x] + SumFunctionOnSet(f, s \ {x})
      BY <3>2, <3>3, SumRemove
    <3>5. Cardinality(s \ {x}) = n
      BY <2>1, <3>2, <3>3, Smaller
    <3>6. SumFunctionOnSet(f, s \ {x}) \in Nat
      BY <1>2, <3>5
    <3> QED  BY <3>3, <3>4, <3>6
  <2> QED  BY <2>1
<1>3. Cardinality(S) \in T
  <2> HIDE DEF T
  <2> QED  BY <1>0, <1>1, <1>2, SetInduction
<1> QED  BY <1>3

\* A sum of zeros is 0.
LEMMA SumZero ==
    ASSUME NEW S, IsFiniteSet(S), NEW f, \A x \in S : f[x] = 0
    PROVE  SumFunctionOnSet(f, S) = 0
<1> DEFINE T == {n \in Nat : \A s \in SUBSET S : Cardinality(s) = n => SumFunctionOnSet(f, s) = 0}
<1>0. \A s \in SUBSET S : IsFiniteSet(s) /\ Cardinality(s) \in Nat
  BY FS_Subset, FS_CardinalityType, Zenon
<1>1. 0 \in T
  <2>1. ASSUME NEW s \in SUBSET S, Cardinality(s) = 0 PROVE SumFunctionOnSet(f, s) = 0
    <3>1. s = {}
      BY <1>0, <2>1, FS_EmptySet, Zenon
    <3> QED  BY <1>0, <3>1, SumRound
  <2> QED  BY <2>1
<1>2. ASSUME NEW n \in Nat, n \in T PROVE n + 1 \in T
  <2>1. ASSUME NEW s \in SUBSET S, Cardinality(s) = n + 1 PROVE SumFunctionOnSet(f, s) = 0
    <3>1. s # {}
      BY <2>1, FS_EmptySet
    <3>2. PICK x : x \in s
      BY <3>1
    <3>3. IsFiniteSet(s) /\ (\A y \in s : f[y] \in Int) /\ f[x] = 0
      BY <1>0, <3>2
    <3>4. SumFunctionOnSet(f, s) = f[x] + SumFunctionOnSet(f, s \ {x})
      BY <3>2, <3>3, SumRemove
    <3>5. Cardinality(s \ {x}) = n
      BY <2>1, <3>2, <3>3, Smaller
    <3>6. SumFunctionOnSet(f, s \ {x}) = 0
      BY <1>2, <3>5
    <3> QED  BY <3>3, <3>4, <3>6
  <2> QED  BY <2>1
<1>3. Cardinality(S) \in T
  <2> HIDE DEF T
  <2> QED  BY <1>0, <1>1, <1>2, SetInduction
<1> QED  BY <1>3

-----------------------------------------------------------------------------
(* Paths.                                                                   *)

Path == Name \cup {Null}

\* One round of the walk along a path name.
WalkRound(parts, b, g, s) == IF s = {} THEN b ELSE Part(g[s \ {Max(s)}], parts[Max(s)])

\* The largest of finitely many numbers is one of them.
LEMMA MaxProperties ==
    ASSUME NEW T, T \subseteq Nat, T # {}, NEW n \in Nat, \A x \in T : x <= n
    PROVE  Max(T) \in T /\ \A x \in T : x <= Max(T)
<1> DEFINE U == {n - x : x \in T}
<1>1. U \subseteq Nat /\ U # {}
  <2>1. \A x \in T : n - x \in Nat
    OBVIOUS
  <2>2. PICK x \in T : TRUE
    OBVIOUS
  <2>3. n - x \in U
    OBVIOUS
  <2> QED  BY <2>1, <2>3
<1>2. PICK m \in U : \A k \in U : m <= k
  BY <1>1, LeastElement, Zenon
<1>3. PICK x \in T : m = n - x
  BY <1>2
<1>4. \A y \in T : x >= y
  <2> SUFFICES ASSUME NEW y \in T PROVE x >= y
    OBVIOUS
  <2>1. n - y \in U
    OBVIOUS
  <2>2. n - x <= n - y
    BY <2>1, <1>2, <1>3
  <2> QED  BY <2>2
<1>5. Max(T) \in T /\ \A y \in T : Max(T) >= y
  BY <1>4 DEF Max
<1> QED  BY <1>5

LEMMA PartType ==
    ASSUME NEW d \in Path, NEW c \in Component \cup {"/"}
    PROVE  Part(d, c) \in Path
<1>1. CASE d = Null
  BY <1>1 DEF Part, Path
<1>2. CASE d # Null
  <2>1. d \in Name
    BY <1>2 DEF Path
  <2>2. d.parts \in Parts /\ d.abs \in BOOLEAN
    BY <2>1 DEF Name
  <2>3. ASSUME d.parts # <<>> PROVE Front(d.parts) \in Parts
    <3>1. Len(d.parts) \in Nat /\ Len(d.parts) # 0
      BY <2>2, <2>3, EmptySeq
    <3> QED  BY <2>2, <3>1 DEF Front, Parts
  <2>4. Up(d) \in Path
    BY <2>1, <2>3 DEF Up, Path, Name
  <2>5. [d EXCEPT !.parts = Append(@, c)] \in Name
    BY <2>1, <2>2 DEF Name, Parts
  <2> QED  BY <1>2, <2>1, <2>4, <2>5 DEF Part, Path
<1> QED  BY <1>1, <1>2

\* The walk along a path name has an end, which is a path or Null.
LEMMA WalkType ==
    ASSUME NEW parts \in Parts, NEW b \in Path
    PROVE  FoldLeft(Part, b, parts) \in Path
<1> DEFINE S == DOMAIN parts
           n == Len(parts)
<1>0. n \in Nat /\ S = 1..n /\ IsFiniteSet(S) /\ Cardinality(S) \in Nat
  BY FS_Interval, FS_CardinalityType DEF Parts
<1>1. \A s \in SUBSET S : IsFiniteSet(s) /\ Cardinality(s) \in Nat
  BY <1>0, FS_Subset, FS_CardinalityType, Zenon
<1>2. ASSUME NEW s \in SUBSET S, s # {} PROVE Max(s) \in s
  <2>1. s \subseteq Nat /\ \A x \in s : x <= n
    BY <1>0
  <2> QED  BY <2>1, <1>0, <1>2, MaxProperties, Zenon
<1>3. ASSUME NEW s \in SUBSET S, NEW g, s # {} => g[s \ {Max(s)}] \in Path
      PROVE  WalkRound(parts, b, g, s) \in Path
  <2>1. CASE s = {}
    BY <2>1 DEF WalkRound
  <2>2. CASE s # {}
    <3>1. Max(s) \in S
      BY <1>2, <2>2
    <3>2. parts[Max(s)] \in Component \cup {"/"}
      BY <3>1 DEF Parts
    <3> QED  BY <1>3, <2>2, <3>2, PartType DEF WalkRound
  <2> QED  BY <2>1, <2>2
<1> HIDE DEF S, n
<1> DEFINE Good(g, k) == \A s \in SUBSET S : Cardinality(s) <= k => g[s] = WalkRound(parts, b, g, s)
           T == {k \in Nat : \E g \in [SUBSET S -> Path] : Good(g, k)}
<1>4. 0 \in T
  <2> DEFINE g == [s \in SUBSET S |-> b]
  <2>1. ASSUME NEW s \in SUBSET S, Cardinality(s) <= 0 PROVE g[s] = WalkRound(parts, b, g, s)
    <3>0. Cardinality(s) = 0
      BY <1>1, <2>1
    <3>1. s = {}
      BY <1>1, <3>0, FS_EmptySet, Zenon
    <3> QED  BY <3>1 DEF WalkRound
  <2>2. g \in [SUBSET S -> Path] /\ Good(g, 0)
    BY <2>1
  <2> HIDE DEF g, Good
  <2> QED  BY <2>2
<1>5. ASSUME NEW k \in Nat, k \in T PROVE k + 1 \in T
  <2>1. PICK g \in [SUBSET S -> Path] : Good(g, k)
    BY <1>5
  <2> DEFINE h == [s \in SUBSET S |-> WalkRound(parts, b, g, s)]
  <2>2. ASSUME NEW s \in SUBSET S PROVE WalkRound(parts, b, g, s) \in Path
    <3>1. s \ {Max(s)} \in SUBSET S
      OBVIOUS
    <3>2. g[s \ {Max(s)}] \in Path
      BY <3>1
    <3> QED  BY <1>3, <3>2, Zenon
  <2>3. h \in [SUBSET S -> Path]
    BY <2>2
  <2>4. ASSUME NEW s \in SUBSET S, Cardinality(s) <= k + 1 PROVE h[s] = WalkRound(parts, b, h, s)
    <3>1. CASE s = {}
      BY <3>1 DEF WalkRound
    <3>2. CASE s # {}
      <4> DEFINE x == Max(s)
      <4>1. x \in s
        BY <1>2, <3>2
      <4> HIDE DEF x
      <4>2. IsFiniteSet(s)
        BY <1>1
      <4>3. Cardinality(s \ {x}) = Cardinality(s) - 1 /\ Cardinality(s) \in Nat
        BY <4>1, <4>2, Smaller, Zenon
      <4>4. s \ {x} \in SUBSET S /\ Cardinality(s \ {x}) <= k
        BY <4>3, <2>4
      <4>5. g[s \ {x}] = h[s \ {x}]
        BY <2>1, <4>4
      <4>6. h[s] = Part(g[s \ {x}], parts[x]) /\ WalkRound(parts, b, h, s) = Part(h[s \ {x}], parts[x])
        BY <3>2 DEF WalkRound, x
      <4> QED  BY <4>5, <4>6
    <3> QED  BY <3>1, <3>2
  <2>5. Good(h, k + 1)
    BY <2>4
  <2> HIDE DEF h, Good
  <2> QED  BY <2>3, <2>5
<1> DEFINE c == Cardinality(S)
<1>6. c \in T
  <2> HIDE DEF T
  <2> QED  BY <1>0, <1>4, <1>5, SetInduction
<1>7. PICK g \in [SUBSET S -> Path] : Good(g, c)
  BY <1>6
<1>8. ASSUME NEW s \in SUBSET S PROVE Cardinality(s) <= c
  BY <1>0, FS_Subset, Zenon
<1>9. g = [s \in SUBSET S |-> WalkRound(parts, b, g, s)]
  BY <1>7, <1>8
<1> DEFINE h == CHOOSE i : i = [s \in SUBSET S |-> WalkRound(parts, b, i, s)]
<1>10. h = [s \in SUBSET S |-> WalkRound(parts, b, h, s)]
  BY <1>9
<1>11. FoldLeft(Part, b, parts) = h[S]
  BY DEF FoldLeft, MapThenFoldSet, WalkRound, S
<1> HIDE DEF h
<1> DEFINE V == {k \in Nat : \A s \in SUBSET S : Cardinality(s) = k => h[s] \in Path}
<1>12. 0 \in V
  <2>1. ASSUME NEW s \in SUBSET S, Cardinality(s) = 0 PROVE h[s] \in Path
    <3>1. s = {}
      BY <1>1, <2>1, FS_EmptySet, Zenon
    <3> QED  BY <1>10, <3>1 DEF WalkRound
  <2> QED  BY <2>1
<1>13. ASSUME NEW k \in Nat, k \in V PROVE k + 1 \in V
  <2>1. ASSUME NEW s \in SUBSET S, Cardinality(s) = k + 1 PROVE h[s] \in Path
    <3>1. h[s] = WalkRound(parts, b, h, s)
      BY <1>10
    <3>2. s # {} => h[s \ {Max(s)}] \in Path
      <4> SUFFICES ASSUME s # {} PROVE h[s \ {Max(s)}] \in Path
        OBVIOUS
      <4> DEFINE x == Max(s)
      <4>1. x \in s
        BY <1>2
      <4> HIDE DEF x
      <4>2. IsFiniteSet(s)
        BY <1>1
      <4>3. Cardinality(s \ {x}) = k
        BY <2>1, <4>1, <4>2, Smaller
      <4> QED  BY <1>13, <4>3 DEF x
    <3> QED  BY <3>1, <3>2, <1>3, Zenon
  <2> QED  BY <2>1
<1>14. c \in V
  <2> HIDE DEF V
  <2> QED  BY <1>0, <1>12, <1>13, SetInduction
<1> QED  BY <1>11, <1>14

\* dfs_normalize_path gives a path from the root, or none.
LEMMA NormalizeType ==
    ASSUME cwd \in Parts, NEW name \in Name
    PROVE  dfs_normalize_path(name) \in Path
<1> DEFINE b == [abs |-> TRUE, parts |-> IF name.abs THEN <<>> ELSE cwd]
<1>1. name.parts \in Parts
  BY DEF Name
<1> DEFINE p == IF name.abs THEN <<>> ELSE cwd
<1>2. p \in Parts
  <2>1. <<>> \in Parts
    BY DEF Parts
  <2> QED  BY <2>1
<1>3. b \in Path
  <2> HIDE DEF p
  <2>1. [abs |-> TRUE, parts |-> p] \in Name
    BY <1>2 DEF Name
  <2> QED  BY <2>1 DEF Path, p
<1> HIDE DEF b
<1> QED  BY <1>1, <1>3, WalkType DEF dfs_normalize_path, b

\* The file system that a path is in.
LEMMA LookupType ==
    ASSUME NEW f \in Path, \A s \in Slot : fstab[s].path \in Parts \cup {Null}
    PROVE  LET s == dfs_filesystem_lookup(f)
           IN  /\ s \in Slot \cup {Null}
               /\ s # Null => /\ s \in Slot /\ f \in Name /\ f.abs
                              /\ fstab[s].path # Null /\ fstab[s].path \in Parts
<1> DEFINE found == IF f = Null \/ ~f.abs THEN {}
                    ELSE {s \in Slot : fstab[s].path # Null /\ IsPrefix(fstab[s].path, f.parts)}
           L(s) == Len(fstab[s].path)
           best == {s \in found : \A r \in found : L(r) <= L(s)}
<1>1. dfs_filesystem_lookup(f) = IF found = {} THEN Null ELSE Max(best)
  BY DEF dfs_filesystem_lookup
<1>2. CASE found = {}
  BY <1>1, <1>2
<1>3. CASE found # {}
  <2>1. f \in Name /\ f.abs /\ f.parts \in Parts
    BY <1>3 DEF Path, Name
  <2>2. \A s \in found : s \in Slot /\ fstab[s].path # Null /\ IsPrefix(fstab[s].path, f.parts)
    OBVIOUS
  <2> HIDE DEF found
  <2>3. \A s \in found : L(s) \in Nat /\ L(s) <= Len(f.parts)
    BY <2>1, <2>2 DEF IsPrefix
  <2> DEFINE T == {L(s) : s \in found}
  <2>4. T \subseteq Nat /\ T # {} /\ Len(f.parts) \in Nat /\ \A x \in T : x <= Len(f.parts)
    <3>1. PICK s \in found : TRUE
      BY <1>3
    <3>2. L(s) \in T
      OBVIOUS
    <3>3. \A x \in T : x \in Nat /\ x <= Len(f.parts)
      BY <2>3
    <3>4. Len(f.parts) \in Nat
      BY <2>1 DEF Parts
    <3> QED  BY <3>2, <3>3, <3>4
  <2>5. Max(T) \in T /\ \A x \in T : x <= Max(T)
    BY <2>4, MaxProperties, Zenon
  <2>6. PICK s \in found : L(s) = Max(T)
    BY <2>5
  <2>7. s \in best
    BY <2>5, <2>6
  <2>8. best \subseteq Nat /\ best # {} /\ SlotMax \in Nat /\ \A x \in best : x <= SlotMax
    BY <2>2, <2>7, DfsAssumption DEF Slot
  <2> HIDE DEF best
  <2>9. Max(best) \in best
    BY <2>8, MaxProperties, Zenon
  <2> DEFINE b == Max(best)
  <2>10. b \in found
    BY <2>9 DEF best
  <2> HIDE DEF b
  <2> QED  BY <1>1, <1>3, <2>1, <2>2, <2>10 DEF b
<1> QED  BY <1>2, <1>3

\* The path below a mount point is a path.
LEMMA SubdirType ==
    ASSUME NEW f \in Name, NEW s \in Slot, fstab[s].path \in Parts
    PROVE  /\ dfs_subdir(s, f) \in Parts /\ dfs_subdir(s, f) # Null
           /\ f.parts = fstab[s].path => dfs_subdir(s, f) = <<"/">>
<1> DEFINE q == SubSeq(f.parts, Len(fstab[s].path) + 1, Len(f.parts))
<1>1. f.parts \in Parts /\ Len(f.parts) \in Nat /\ Len(fstab[s].path) \in Nat
  BY DEF Name
<1>2. q \in Parts
  BY <1>1 DEF Parts
<1>3. f.parts = fstab[s].path => q = <<>>
  BY <1>1
<1> HIDE DEF q
<1>4. <<"/">> \in Parts
  BY DEF Parts
<1>5. <<"/">> \o q \in Parts
  BY <1>2, <1>4 DEF Parts
<1>6. q = <<>> => <<"/">> \o q = <<"/">>
  BY <1>4
<1>7. dfs_subdir(s, f) = <<"/">> \o q
  BY DEF dfs_subdir, q
<1> QED  BY <1>3, <1>5, <1>6, <1>7, DfsAssumption

-----------------------------------------------------------------------------
(* The references that calls hold.                                          *)

Share(r, i) == IF r.fd = i THEN r.refs ELSE 0
Shares(p, i) == [t \in Thread |-> Share(p[t], i)]
HeldIn(p, i) == SumFunctionOnSet(Shares(p, i), Thread)
Others(p, t, i) == SumFunctionOnSet(Shares(p, i), Thread \ {t})

Counts(p) == \A t \in Thread : p[t].refs \in Nat

LEMMA HeldIsHeldIn == ASSUME NEW i PROVE Held(i) = HeldIn(pc, i)
<1>1. [t \in Thread |-> IF pc[t].fd = i THEN pc[t].refs ELSE 0] = Shares(pc, i)
  BY DEF Shares, Share
<1>2. DOMAIN Shares(pc, i) = Thread
  BY DEF Shares
<1>3. SumFunction(Shares(pc, i)) = HeldIn(pc, i)
  BY <1>2 DEF SumFunction, HeldIn
<1> QED  BY <1>1, <1>3 DEF Held

\* What one thread holds, and the others.
LEMMA HeldSplit ==
    ASSUME NEW p, Counts(p), NEW t \in Thread, NEW i
    PROVE  /\ HeldIn(p, i) = Share(p[t], i) + Others(p, t, i)
           /\ Others(p, t, i) \in Nat /\ Share(p[t], i) \in Nat /\ HeldIn(p, i) \in Nat
<1>1. \A u \in Thread : Shares(p, i)[u] \in Nat /\ Shares(p, i)[u] = Share(p[u], i)
  BY DEF Shares, Share, Counts
<1>2. IsFiniteSet(Thread)
  BY DfsAssumption
<1>3. HeldIn(p, i) = Shares(p, i)[t] + Others(p, t, i)
  BY <1>1, <1>2, SumRemove DEF HeldIn, Others
<1>4. IsFiniteSet(Thread \ {t})
  BY <1>2, FS_Subset
<1>5. Others(p, t, i) \in Nat
  BY <1>1, <1>4, SumNat DEF Others
<1>6. HeldIn(p, i) \in Nat
  BY <1>1, <1>2, SumNat DEF HeldIn
<1> QED  BY <1>1, <1>3, <1>5, <1>6

\* The threads other than t hold the same in p and in q.
LEMMA OthersKeep ==
    ASSUME NEW p, Counts(p), NEW q, Counts(q), NEW t, NEW i,
           \A u \in Thread \ {t} : Share(q[u], i) = Share(p[u], i)
    PROVE  Others(q, t, i) = Others(p, t, i)
<1> DEFINE S == Thread \ {t}
<1>1. \A u \in S : Shares(p, i)[u] \in Int /\ Shares(q, i)[u] = Shares(p, i)[u]
  BY DEF Shares, Share, Counts
<1>2. IsFiniteSet(S)
  BY DfsAssumption, FS_Subset
<1> HIDE DEF S
<1>3. SumFunctionOnSet(Shares(p, i), S) = SumFunctionOnSet(Shares(q, i), S)
  BY <1>1, <1>2, SumCongruence
<1> QED  BY <1>3 DEF Others, S

\* Nobody holds the descriptor.
LEMMA HeldNone ==
    ASSUME NEW p, NEW i, \A t \in Thread : p[t].fd # i
    PROVE  HeldIn(p, i) = 0
<1>1. \A t \in Thread : Shares(p, i)[t] = 0
  BY DEF Shares, Share
<1>2. IsFiniteSet(Thread)
  BY DfsAssumption
<1> QED  BY <1>1, <1>2, SumZero DEF HeldIn

\* Only t holds it.
LEMMA HeldAlone ==
    ASSUME NEW p, Counts(p), NEW t \in Thread, NEW i, \A u \in Thread \ {t} : p[u].fd # i
    PROVE  HeldIn(p, i) = Share(p[t], i)
<1>1. \A u \in Thread \ {t} : Shares(p, i)[u] = 0
  BY DEF Shares, Share
<1>2. IsFiniteSet(Thread \ {t})
  BY DfsAssumption, FS_Subset
<1>3. Others(p, t, i) = 0
  BY <1>1, <1>2, SumZero DEF Others
<1> QED  BY <1>3, HeldSplit

-----------------------------------------------------------------------------
(* The invariant.                                                           *)

FdRec == [ref : Nat, magic : BOOLEAN, fs : Slot \cup {Null}, path : Parts \cup {Null},
          data : {"none", "open", "freed"}, dir : BOOLEAN]
FsRec == [path : Parts \cup {Null}, dev : Device \cup {Null}, vol : Vol \cup {Null}]
Ats == {"user", "lookup", "open", "opened", "use", "close", "closed", "unlink",
        "register", "device", "claim", "install", "fat", "undo", "format"}
Ops == {"open", "opendir", "mkdir", "close"}
PcRec == [at : Ats, op : Ops \cup {Null}, fd : Fd \cup {Null}, refs : Nat,
          name : Path, fs : Slot \cup {Null}, path : Parts \cup {Null},
          dev : Device \cup {Null}, vol : Vol \cup {Null}, ok : BOOLEAN]

\* A file system that files can be opened on, and a descriptor of an open file.
Mounted(s) == s \in Slot /\ fstab[s].vol # Null
Opened(e) == e.path # Null /\ e.data = "open" /\ Mounted(e.fs)

\* How far the descriptor of a call has come.
Stage(p, e) ==
    \/ p.at = "lookup" /\ p.ok /\ p.name \in Name /\ e.path = Null /\ e.data = "none"
    \/ p.at = "open" /\ p.ok /\ e.path # Null /\ e.data = "none" /\ Mounted(e.fs)
    \/ p.at = "opened" /\ p.ok /\ Opened(e)
    \/ p.at = "opened" /\ ~p.ok /\ e.path = Null /\ e.data = "none"
    \/ p.at = "close" /\ p.ok /\ Opened(e)
    \/ p.at = "closed" /\ p.ok /\ e.path = Null /\ e.data = "freed"
    \/ p.at = "closed" /\ ~p.ok /\ Opened(e)

\* What a thread is doing: nothing, removing a file, using a descriptor that a
\* program owns, or opening or closing one that nobody else knows.
ThreadOK(t) ==
    \/ pc[t].at = "user" /\ pc[t].fd = Null /\ pc[t].refs = 0
    \/ pc[t].at = "unlink" /\ pc[t].fd = Null /\ pc[t].refs = 0 /\ Mounted(pc[t].fs)
    \/ pc[t].at = "use" /\ pc[t].fd \in owned /\ pc[t].refs = 1
    \/ /\ pc[t].fd \in Fd \ owned /\ pc[t].refs = 2 /\ Stage(pc[t], fd_table[pc[t].fd])
       /\ \A u \in Thread : u # t => pc[u].fd # pc[t].fd

FdOK(i) ==
    /\ i \in owned => Opened(fd_table[i])
    /\ i \notin owned /\ (\A t \in Thread : pc[t].fd # i) => fd_table[i] = NoFd
    /\ fd_table[i].ref = HeldIn(pc, i) + IF i \in owned THEN 1 ELSE 0

WithPath == {i \in Fd : fd_table[i].path # Null}
WithData == {i \in Fd : fd_table[i].data = "open"}

FileInv ==
    /\ fd_table \in [Fd -> FdRec] /\ owned \subseteq Fd
    /\ pc \in [Thread \cup Admin -> PcRec]
    /\ ~wild
    /\ \A t \in Thread : ThreadOK(t)
    /\ \A i \in Fd : FdOK(i)
    /\ live = Cardinality(WithPath) + Cardinality(WithData)

\* A step of t that concerns the descriptor i only.
StepOn(t, i) ==
    /\ pc' \in [Thread \cup Admin -> PcRec]
    /\ \A u \in Thread : u # t => pc'[u] = pc[u]
    /\ fd_table' \in [Fd -> FdRec]
    /\ \A j \in Fd : j # i => fd_table'[j] = fd_table[j]
    /\ owned' \subseteq Fd /\ \A j \in Fd : j # i => (j \in owned' <=> j \in owned)
    /\ fstab' = fstab
    /\ pc[t].fd \in {Null, i} /\ pc'[t].fd \in {Null, i}
    /\ \A u \in Thread : u # t /\ pc[u].fd = i => pc[u].at = "use" /\ i \in owned'

Heaped(e) == (IF e.path # Null THEN 1 ELSE 0) + (IF e.data = "open" THEN 1 ELSE 0)
Owns(i) == IF i \in owned THEN 1 ELSE 0

LEMMA FdFacts == IsFiniteSet(Fd) /\ Fd \subseteq Nat /\ Null \notin Fd /\ Null \notin Slot /\ Null \notin Vol
  BY DfsAssumption, FS_Interval DEF Fd, Slot, Vol

LEMMA FileCounts == ASSUME FileInv PROVE Counts(pc)
  BY DEF FileInv, Counts, PcRec

\* A set changes in one place at most.
LEMMA CountOne ==
    ASSUME NEW S, IsFiniteSet(S), NEW T, NEW i, S \ {i} = T \ {i}
    PROVE  /\ IsFiniteSet(T)
           /\ Cardinality(T) - (IF i \in T THEN 1 ELSE 0) = Cardinality(S) - (IF i \in S THEN 1 ELSE 0)
           /\ Cardinality(T) \in Nat /\ Cardinality(S) \in Nat
<1> DEFINE R == S \ {i}
<1>1. IsFiniteSet(R) /\ Cardinality(R) \in Nat /\ i \notin R
  BY FS_Subset, FS_CardinalityType
<1>2. IsFiniteSet(R \cup {i}) /\ Cardinality(R \cup {i}) = Cardinality(R) + 1
  BY <1>1, FS_AddElement
<1>3. S = (IF i \in S THEN R \cup {i} ELSE R) /\ T = (IF i \in T THEN R \cup {i} ELSE R)
  OBVIOUS
<1> HIDE DEF R
<1>4. Cardinality(S) = Cardinality(R) + (IF i \in S THEN 1 ELSE 0)
  <2>1. CASE i \in S
    <3>1. S = R \cup {i}
      BY <2>1, <1>3
    <3> QED  BY <2>1, <3>1, <1>2
  <2>2. CASE i \notin S
    <3>1. S = R
      BY <2>2, <1>3
    <3> QED  BY <2>2, <3>1, <1>1
  <2> QED  BY <2>1, <2>2
<1>5. IsFiniteSet(T) /\ Cardinality(T) = Cardinality(R) + (IF i \in T THEN 1 ELSE 0)
  <2>1. CASE i \in T
    <3>1. T = R \cup {i}
      BY <2>1, <1>3
    <3> QED  BY <2>1, <3>1, <1>2
  <2>2. CASE i \notin T
    <3>1. T = R
      BY <2>2, <1>3
    <3> QED  BY <2>2, <3>1, <1>1
  <2> QED  BY <2>1, <2>2
<1> QED  BY <1>1, <1>4, <1>5

\* What a step must show of its own thread and its own descriptor.
StepFits(t, i) ==
    /\ StepOn(t, i) /\ wild' = wild
    /\ ThreadOK(t)'
    /\ i \in owned' => Opened(fd_table[i])'
    /\ i \notin owned' /\ pc'[t].fd # i => fd_table'[i] = NoFd
    /\ fd_table'[i].ref = fd_table[i].ref - Share(pc[t], i) + Share(pc'[t], i)
                          - Owns(i) + Owns(i)'
    /\ live' = live - Heaped(fd_table[i]) + Heaped(fd_table'[i])

LEMMA LiveType == ASSUME FileInv PROVE live \in Nat
<1>1. IsFiniteSet(WithPath) /\ IsFiniteSet(WithData)
  BY FdFacts, FS_Subset DEF WithPath, WithData
<1>2. Cardinality(WithPath) \in Nat /\ Cardinality(WithData) \in Nat
  BY <1>1, FS_CardinalityType
<1> QED  BY <1>2 DEF FileInv

LEMMA FileStepOK ==
    ASSUME FileInv, NEW t \in Thread, NEW i \in Fd, StepFits(t, i)
    PROVE  FileInv'
<1> USE DEF StepFits
<1>0. Counts(pc) /\ Counts(pc')
  <2>1. Counts(pc')
    BY DEF StepFits, StepOn, Counts, PcRec
  <2> QED  BY <2>1, FileCounts
<1>1. ASSUME NEW u \in Thread, u # t PROVE ThreadOK(u)'
  <2>0. pc'[u] = pc[u] /\ ThreadOK(u) /\ fstab' = fstab
    BY <1>1 DEF FileInv, StepOn
  <2>1. CASE pc[u].at = "user" /\ pc[u].fd = Null /\ pc[u].refs = 0
    BY <2>0, <2>1 DEF ThreadOK
  <2>2. CASE pc[u].at = "unlink" /\ pc[u].fd = Null /\ pc[u].refs = 0 /\ Mounted(pc[u].fs)
    BY <2>0, <2>2 DEF ThreadOK, Mounted
  <2>3. CASE pc[u].at = "use" /\ pc[u].fd \in owned /\ pc[u].refs = 1
    <3>1. pc[u].fd \in Fd
      BY <2>3 DEF FileInv
    <3>2. pc[u].fd \in owned'
      BY <1>1, <2>3, <3>1 DEF StepOn
    <3> QED  BY <2>0, <2>3, <3>2 DEF ThreadOK
  <2>4. CASE /\ pc[u].fd \in Fd \ owned /\ pc[u].refs = 2 /\ Stage(pc[u], fd_table[pc[u].fd])
             /\ \A v \in Thread : v # u => pc[v].fd # pc[u].fd
    <3> DEFINE j == pc[u].fd
    <3>1. pc[u].at # "use"
      BY <2>4 DEF Stage
    <3>2. j # i
      BY <1>1, <3>1 DEF StepOn
    <3>3. fd_table'[j] = fd_table[j] /\ j \notin owned'
      BY <2>4, <3>2 DEF StepOn
    <3>4. Stage(pc[u], fd_table[j])'
      BY <2>0, <2>4, <3>3 DEF Stage, Opened, Mounted
    <3>5. ASSUME NEW v \in Thread, v # u PROVE pc'[v].fd # j
      <4>1. CASE v = t
        BY <4>1, <2>4, <3>2, FdFacts DEF StepOn
      <4>2. CASE v # t
        BY <4>2, <3>5, <2>4 DEF StepOn
      <4> QED  BY <4>1, <4>2
    <3> QED  BY <2>0, <2>4, <3>3, <3>4, <3>5 DEF ThreadOK
  <2> QED  BY <2>0, <2>1, <2>2, <2>3, <2>4 DEF ThreadOK
<1>2. ASSUME NEW j \in Fd, j # i PROVE FdOK(j)'
  <2>0. FdOK(j) /\ fd_table'[j] = fd_table[j] /\ (j \in owned' <=> j \in owned) /\ fstab' = fstab
    BY <1>2 DEF FileInv, StepOn
  <2>1. \A u \in Thread : Share(pc'[u], j) = Share(pc[u], j) /\ (pc'[u].fd = j <=> pc[u].fd = j)
    BY <1>2, FdFacts DEF StepOn, Share
  <2>2. HeldIn(pc', j) = HeldIn(pc, j)
    BY <1>0, <2>1, HeldSplit, OthersKeep
  <2> QED  BY <2>0, <2>1, <2>2 DEF FdOK, Opened, Mounted
<1>3. FdOK(i)'
  <2>1. HeldIn(pc', i) = HeldIn(pc, i) - Share(pc[t], i) + Share(pc'[t], i)
    <3>1. \A u \in Thread \ {t} : Share(pc'[u], i) = Share(pc[u], i)
      BY DEF StepOn
    <3>2. Others(pc', t, i) = Others(pc, t, i)
      BY <1>0, <3>1, OthersKeep
    <3> QED  BY <1>0, <3>2, HeldSplit
  <2>2. HeldIn(pc, i) \in Nat /\ Share(pc[t], i) \in Nat /\ Share(pc'[t], i) \in Nat
    BY <1>0, HeldSplit
  <2>3. fd_table[i].ref = HeldIn(pc, i) + Owns(i) /\ Owns(i) \in Nat /\ Owns(i)' \in Nat
    BY DEF FileInv, FdOK, Owns
  <2>4. fd_table'[i].ref = HeldIn(pc', i) + Owns(i)'
    BY <2>1, <2>2, <2>3
  <2>5. ASSUME i \notin owned', \A u \in Thread : pc'[u].fd # i PROVE fd_table'[i] = NoFd
    BY <2>5
  <2> QED  BY <2>4, <2>5 DEF FdOK, Owns
<1>4. live' = Cardinality(WithPath') + Cardinality(WithData')
  <2>1. WithPath \ {i} = WithPath' \ {i} /\ WithData \ {i} = WithData' \ {i}
    BY DEF WithPath, WithData, StepOn
  <2>2. IsFiniteSet(WithPath) /\ IsFiniteSet(WithData)
    BY FdFacts, FS_Subset DEF WithPath, WithData
  <2>3. /\ Cardinality(WithPath') - (IF i \in WithPath' THEN 1 ELSE 0)
           = Cardinality(WithPath) - (IF i \in WithPath THEN 1 ELSE 0)
        /\ Cardinality(WithPath) \in Nat /\ Cardinality(WithPath') \in Nat
    BY <2>1, <2>2, CountOne
  <2>4. /\ Cardinality(WithData') - (IF i \in WithData' THEN 1 ELSE 0)
           = Cardinality(WithData) - (IF i \in WithData THEN 1 ELSE 0)
        /\ Cardinality(WithData) \in Nat /\ Cardinality(WithData') \in Nat
    BY <2>1, <2>2, CountOne
  <2>5. /\ (i \in WithPath <=> fd_table[i].path # Null) /\ (i \in WithData <=> fd_table[i].data = "open")
        /\ (i \in WithPath' <=> fd_table'[i].path # Null)
        /\ (i \in WithData' <=> fd_table'[i].data = "open")
    BY DEF WithPath, WithData
  <2>6. live = Cardinality(WithPath) + Cardinality(WithData)
    BY DEF FileInv
  <2> QED  BY <2>3, <2>4, <2>5, <2>6 DEF Heaped
<1>5. (~wild)' /\ fd_table' \in [Fd -> FdRec] /\ owned' \subseteq Fd
      /\ pc' \in [Thread \cup Admin -> PcRec]
  BY DEF FileInv, StepOn
<1> QED  BY <1>1, <1>2, <1>3, <1>4, <1>5 DEF FileInv

-----------------------------------------------------------------------------
(* The table of file systems.                                               *)

Mounting == {"device", "claim", "install", "fat", "undo"}

\* What an administrator is doing; a mount under way has an entry of its own.
AdminOK(a) ==
    \/ pc[a].at = "user"
    \/ pc[a].at = "register" /\ pc[a].dev \in Device /\ pc[a].name \in Name /\ pc[a].path \in Parts
    \/ /\ pc[a].at \in Mounting /\ pc[a].dev \in Device
       /\ pc[a].fs \in Slot /\ fstab[pc[a].fs] # NoFs /\ fstab[pc[a].fs].vol = Null
       /\ pc[a].at \in {"install", "fat"} => pc[a].vol \in Vol
    \/ pc[a].at = "format" /\ pc[a].dev \in Device /\ pc[a].vol \in Vol

SlotInv ==
    /\ fstab \in [Slot -> FsRec] /\ cwd \in Parts
    /\ disk \in [Vol -> Device \cup {Null}] /\ opened \in [Device -> Nat]
    /\ \A s \in Slot : fstab[s].path = Null => fstab[s] = NoFs
    /\ \A s \in Slot : fstab[s] # NoFs /\ fstab[s].vol = Null =>
          \E a \in Admin : pc[a].at \in Mounting /\ pc[a].fs = s
    /\ \A a \in Admin : AdminOK(a)
    /\ \A a, b \in Admin :
          pc[a].at \in Mounting /\ pc[b].at \in Mounting /\ pc[a].fs = pc[b].fs => a = b

DfsInv == FileInv /\ SlotInv

-----------------------------------------------------------------------------
(* Steps of the threads that use files.                                     *)

LEMMA GotoFacts ==
    ASSUME FileInv, NEW t \in Thread \cup Admin, NEW r \in PcRec, Goto(t, r)
    PROVE  /\ pc' \in [Thread \cup Admin -> PcRec] /\ pc'[t] = r
           /\ \A u \in Thread \cup Admin : u # t => pc'[u] = pc[u]
BY DEF FileInv, Goto

LEMMA ReadyType == Ready \in PcRec /\ NoFd \in FdRec /\ NoFs \in FsRec
<1>1. 0 \in Nat /\ TRUE \in BOOLEAN /\ FALSE \in BOOLEAN
  OBVIOUS
<1> QED  BY <1>1 DEF Ready, PcRec, NoFd, FdRec, NoFs, FsRec, Ats, Path

\* A thread at a place of its own.
LEMMA MineFacts ==
    ASSUME FileInv, NEW t \in Thread, pc[t].at \in {"lookup", "open", "opened", "close", "closed"}
    PROVE  /\ pc[t].fd \in Fd \ owned /\ pc[t].refs = 2 /\ Stage(pc[t], fd_table[pc[t].fd])
           /\ \A u \in Thread : u # t => pc[u].fd # pc[t].fd
           /\ fd_table[pc[t].fd].ref = 2
<1>1. /\ pc[t].fd \in Fd \ owned /\ pc[t].refs = 2 /\ Stage(pc[t], fd_table[pc[t].fd])
      /\ \A u \in Thread : u # t => pc[u].fd # pc[t].fd
  BY DEF FileInv, ThreadOK
<1>2. HeldIn(pc, pc[t].fd) = Share(pc[t], pc[t].fd)
  BY <1>1, FileCounts, HeldAlone
<1>3. FdOK(pc[t].fd)
  BY <1>1 DEF FileInv
<1> QED  BY <1>1, <1>2, <1>3 DEF FdOK, Share

LEMMA UserFacts ==
    ASSUME FileInv, NEW t \in Thread
    PROVE  /\ pc[t].at = "user" => pc[t].fd = Null /\ pc[t].refs = 0
           /\ pc[t].at = "unlink" => pc[t].fd = Null /\ pc[t].refs = 0 /\ Mounted(pc[t].fs)
           /\ pc[t].at = "use" => /\ pc[t].fd \in owned /\ pc[t].fd \in Fd /\ pc[t].refs = 1
                                  /\ Opened(fd_table[pc[t].fd])
BY DEF FileInv, ThreadOK, FdOK, Stage

\* A descriptor without references is unused.
LEMMA FreeFacts ==
    ASSUME FileInv, NEW i \in Fd, fd_table[i].ref = 0
    PROVE  i \notin owned /\ (\A t \in Thread : pc[t].fd # i) /\ fd_table[i] = NoFd
<1>1. FdOK(i) /\ Counts(pc)
  BY FileCounts DEF FileInv
<1>2. ASSUME NEW t \in Thread, pc[t].fd = i PROVE FALSE
  <2>1. pc[t].refs \in {1, 2}
    BY <1>2, FdFacts DEF FileInv, ThreadOK
  <2>2. HeldIn(pc, i) = pc[t].refs + Others(pc, t, i) /\ Others(pc, t, i) \in Nat
    BY <1>1, <1>2, HeldSplit DEF Share
  <2> QED  BY <1>1, <2>1, <2>2 DEF FdOK
<1>3. HeldIn(pc, i) = 0
  BY <1>2, HeldNone
<1>4. i \notin owned
  BY <1>1, <1>3 DEF FdOK
<1> QED  BY <1>1, <1>2, <1>4 DEF FdOK

LEMMA FdNewStep ==
    ASSUME DfsInv, NEW t \in Thread, NEW op \in {"open", "opendir", "mkdir"}, NEW name \in Name,
           fd_new(t, op, name)
    PROVE  FileInv'
<1> DEFINE free == {i \in Fd : fd_table[i].ref = 0}
<1>0. FileInv
  BY DEF DfsInv
<1>1. free # {} /\ pc[t].at = "user" /\ UNCHANGED <<fstab, owned, live, wild>>
  BY DEF fd_new, At
<1>2. Min(free) \in free
  BY <1>1, FdFacts, MinProperties
<1>3. PICK i \in Fd : i = Min(free) /\ fd_table[i].ref = 0
  BY <1>2
<1> DEFINE e == [fd_table[i] EXCEPT !.ref = 2, !.magic = TRUE]
           r == [Ready EXCEPT !.at = "lookup", !.op = op, !.fd = i, !.refs = 2, !.name = name]
<1>3a. fd_table' = [fd_table EXCEPT ![i] = e] /\ Goto(t, r)
  BY <1>3 DEF fd_new
<1>4. i \notin owned /\ (\A u \in Thread : pc[u].fd # i) /\ fd_table[i] = NoFd
  BY <1>0, <1>3, FreeFacts
<1>5. e \in FdRec /\ e.ref = 2 /\ e.path = Null /\ e.data = "none"
  <2>1. fd_table[i] \in FdRec
    BY <1>0, <1>3 DEF FileInv
  <2>2. fd_table[i].path = Null /\ fd_table[i].data = "none"
    BY <1>4 DEF NoFd
  <2> QED  BY <2>1, <2>2 DEF FdRec
<1>6. r \in PcRec /\ r.at = "lookup" /\ r.fd = i /\ r.refs = 2 /\ r.ok /\ r.name \in Name
  BY <1>3, ReadyType DEF PcRec, Ready, Ats, Ops, Path
<1> HIDE DEF e, r
<1>7. /\ pc' \in [Thread \cup Admin -> PcRec] /\ pc'[t] = r
      /\ \A u \in Thread \cup Admin : u # t => pc'[u] = pc[u]
  BY <1>0, <1>3a, <1>6, GotoFacts
<1>8. /\ fd_table' \in [Fd -> FdRec] /\ fd_table'[i] = e
      /\ \A j \in Fd : j # i => fd_table'[j] = fd_table[j]
  BY <1>0, <1>3a, <1>3, <1>5 DEF FileInv
<1>9. pc[t].fd = Null /\ pc[t].refs = 0
  BY <1>0, <1>1, UserFacts
<1>10. StepOn(t, i)
  BY <1>0, <1>1, <1>4, <1>6, <1>7, <1>8, <1>9 DEF StepOn, FileInv
<1>11. ThreadOK(t)'
  BY <1>1, <1>3, <1>4, <1>5, <1>6, <1>7, <1>8 DEF ThreadOK, Stage
<1>12. fd_table'[i].ref = fd_table[i].ref - Share(pc[t], i) + Share(pc'[t], i) - Owns(i) + Owns(i)'
  <2>1. Share(pc[t], i) = 0 /\ Share(pc'[t], i) = 2
    BY <1>4, <1>6, <1>7 DEF Share
  <2>2. Owns(i) = 0 /\ Owns(i)' = 0
    BY <1>1, <1>4 DEF Owns
  <2> QED  BY <2>1, <2>2, <1>3, <1>5, <1>8
<1>13. live' = live - Heaped(fd_table[i]) + Heaped(fd_table'[i])
  <2>1. Heaped(fd_table[i]) = 0 /\ Heaped(fd_table'[i]) = 0
    BY <1>4, <1>5, <1>8 DEF Heaped, NoFd
  <2> QED  BY <1>0, <1>1, <2>1, LiveType
<1>14. i \notin owned' /\ pc'[t].fd = i
  BY <1>1, <1>4, <1>6, <1>7
<1>15. StepFits(t, i)
  BY <1>1, <1>10, <1>11, <1>12, <1>13, <1>14 DEF StepFits
<1> QED  BY <1>0, <1>3, <1>15, FileStepOK

\* The frame of a step on a descriptor that only t knows.
LEMMA MineStep ==
    ASSUME FileInv, NEW t \in Thread, NEW i \in Fd, NEW e \in FdRec, NEW r \in PcRec,
           i \notin owned, pc[t].fd = i, \A u \in Thread : u # t => pc[u].fd # i,
           fd_table' = [fd_table EXCEPT ![i] = e], Goto(t, r), r.fd \in {Null, i},
           owned' = owned \/ owned' = owned \cup {i}, fstab' = fstab
    PROVE  /\ StepOn(t, i) /\ fd_table'[i] = e /\ pc'[t] = r
           /\ \A u \in Thread : u # t => pc'[u].fd # i
<1>1. /\ pc' \in [Thread \cup Admin -> PcRec] /\ pc'[t] = r
      /\ \A u \in Thread \cup Admin : u # t => pc'[u] = pc[u]
  BY GotoFacts
<1>2. /\ fd_table' \in [Fd -> FdRec] /\ fd_table'[i] = e
      /\ \A j \in Fd : j # i => fd_table'[j] = fd_table[j]
  BY DEF FileInv
<1>3. owned' \subseteq Fd /\ \A j \in Fd : j # i => (j \in owned' <=> j \in owned)
  BY DEF FileInv
<1> QED  BY <1>1, <1>2, <1>3 DEF StepOn


\* What a step of a call on its own descriptor comes to: the call goes on, ends
\* without the descriptor, or leaves an open file to the program.
GoesOn(i, e, r) == r.fd = i /\ r.refs = 2 /\ owned' = owned /\ e.ref = 2 /\ Stage(r, e)
GivesBack(i, e, r) == r = Ready /\ owned' = owned /\ e = NoFd
Leaves(i, e, r) == r = Ready /\ owned' = owned \cup {i} /\ e.ref = 1 /\ Opened(e)

LEMMA MyStep ==
    ASSUME FileInv, NEW t \in Thread, NEW i \in Fd, NEW e \in FdRec, NEW r \in PcRec,
           i = pc[t].fd, pc[t].at \in {"lookup", "open", "opened", "close", "closed"},
           fd_table' = [fd_table EXCEPT ![i] = e], Goto(t, r), fstab' = fstab, wild' = wild,
           live' = live - Heaped(fd_table[i]) + Heaped(e),
           GoesOn(i, e, r) \/ GivesBack(i, e, r) \/ Leaves(i, e, r)
    PROVE  FileInv'
<1>1. /\ i \notin owned /\ pc[t].refs = 2 /\ fd_table[i].ref = 2
      /\ \A u \in Thread : u # t => pc[u].fd # i
  BY MineFacts
<1>2. r.fd \in {Null, i} /\ (owned' = owned \/ owned' = owned \cup {i})
  BY DEF GoesOn, GivesBack, Leaves, Ready
<1>3. /\ StepOn(t, i) /\ fd_table'[i] = e /\ pc'[t] = r
      /\ \A u \in Thread : u # t => pc'[u].fd # i
  <2>1. pc[t].fd = i
    OBVIOUS
  <2> QED  BY <1>1, <1>2, <2>1, MineStep, Zenon
<1>4. Share(pc[t], i) = 2 /\ Owns(i) = 0
  BY <1>1 DEF Share, Owns
<1>5. CASE GoesOn(i, e, r)
  <2>1. Stage(pc[t], fd_table[i])'
    BY <1>3, <1>5 DEF GoesOn, Stage, Opened, Mounted
  <2>2. ThreadOK(t)'
    BY <1>1, <1>3, <1>5, <2>1 DEF ThreadOK, GoesOn
  <2>3. Share(pc'[t], i) = 2 /\ Owns(i)' = 0 /\ i \notin owned' /\ pc'[t].fd = i /\ fd_table'[i].ref = 2
    BY <1>1, <1>3, <1>5 DEF Share, Owns, GoesOn
  <2>4. StepFits(t, i)
    BY <1>1, <1>3, <1>4, <2>2, <2>3 DEF StepFits
  <2> QED  BY <2>4, FileStepOK
<1>6. CASE GivesBack(i, e, r)
  <2>1. pc'[t].at = "user" /\ pc'[t].fd = Null /\ pc'[t].refs = 0
    BY <1>3, <1>6 DEF GivesBack, Ready
  <2>2. ThreadOK(t)'
    BY <2>1 DEF ThreadOK
  <2>3. /\ Share(pc'[t], i) = 0 /\ Owns(i)' = 0 /\ i \notin owned'
        /\ fd_table'[i] = NoFd /\ fd_table'[i].ref = 0
    BY <1>1, <1>3, <1>6, <2>1, FdFacts DEF Share, Owns, GivesBack, NoFd
  <2>4. StepFits(t, i)
    BY <1>1, <1>3, <1>4, <2>2, <2>3 DEF StepFits
  <2> QED  BY <2>4, FileStepOK
<1>7. CASE Leaves(i, e, r)
  <2>1. pc'[t].at = "user" /\ pc'[t].fd = Null /\ pc'[t].refs = 0
    BY <1>3, <1>7 DEF Leaves, Ready
  <2>2. ThreadOK(t)'
    BY <2>1 DEF ThreadOK
  <2>3. /\ Share(pc'[t], i) = 0 /\ Owns(i)' = 1 /\ i \in owned' /\ fd_table'[i].ref = 1
        /\ Opened(fd_table[i])'
    BY <1>1, <1>3, <1>7, <2>1, FdFacts DEF Share, Owns, Leaves, Opened, Mounted
  <2>4. StepFits(t, i)
    BY <1>1, <1>3, <1>4, <2>2, <2>3 DEF StepFits
  <2> QED  BY <2>4, FileStepOK
<1> QED  BY <1>5, <1>6, <1>7

LEMMA SlotTypes == ASSUME DfsInv PROVE \A s \in Slot : fstab[s].path \in Parts \cup {Null} /\ fstab[s] \in FsRec
  BY DEF DfsInv, SlotInv, FsRec

\* Changes of what a call does next.
At1(p, a) == [p EXCEPT !.at = a]
AtOk(p, a, b) == [p EXCEPT !.at = a, !.ok = b]
AtFs(p, a, s) == [p EXCEPT !.at = a, !.fs = s]

LEMMA PcAt ==
    ASSUME NEW p \in PcRec, NEW a \in Ats
    PROVE  /\ At1(p, a) \in PcRec /\ At1(p, a).at = a /\ At1(p, a).fd = p.fd
           /\ At1(p, a).refs = p.refs /\ At1(p, a).ok = p.ok
BY DEF PcRec, At1

LEMMA PcOk ==
    ASSUME NEW p \in PcRec, NEW a \in Ats, NEW b \in BOOLEAN
    PROVE  /\ AtOk(p, a, b) \in PcRec /\ AtOk(p, a, b).at = a /\ AtOk(p, a, b).fd = p.fd
           /\ AtOk(p, a, b).refs = p.refs /\ AtOk(p, a, b).ok = b
BY DEF PcRec, AtOk

LEMMA PcFs ==
    ASSUME NEW p \in PcRec, NEW a \in Ats, NEW s \in Slot
    PROVE  /\ AtFs(p, a, s) \in PcRec /\ AtFs(p, a, s).at = a /\ AtFs(p, a, s).fd = p.fd
           /\ AtFs(p, a, s).refs = p.refs /\ AtFs(p, a, s).ok = p.ok /\ AtFs(p, a, s).fs = s
BY DEF PcRec, AtFs

\* What the call t has at hand.
LEMMA MyFacts ==
    ASSUME FileInv, NEW t \in Thread, pc[t].at \in {"lookup", "open", "opened", "close", "closed"}
    PROVE  /\ pc[t].fd \in Fd /\ pc[t] \in PcRec /\ fd_table[pc[t].fd] \in FdRec
           /\ live \in Nat /\ pc[t].refs = 2 /\ fd_table[pc[t].fd].ref = 2
           /\ Stage(pc[t], fd_table[pc[t].fd])
<1>1. pc[t].fd \in Fd /\ pc[t].refs = 2 /\ fd_table[pc[t].fd].ref = 2 /\ Stage(pc[t], fd_table[pc[t].fd])
  BY MineFacts
<1> QED  BY <1>1, LiveType DEF FileInv

\* The lookup of dfs_file_open finds a mounted file system and a path in it.
LEMMA LookupFacts ==
    ASSUME DfsInv, NEW name \in Name, NEW f, f = dfs_normalize_path(name),
           NEW s, s = dfs_filesystem_lookup(f)
    PROVE  s # Null => /\ s \in Slot /\ f \in Name /\ fstab[s].path \in Parts
                       /\ dfs_subdir(s, f) \in Parts /\ dfs_subdir(s, f) # Null
                       /\ f.parts = fstab[s].path => dfs_subdir(s, f) = <<"/">>
<1> SUFFICES ASSUME s # Null
             PROVE  /\ s \in Slot /\ f \in Name /\ fstab[s].path \in Parts
                    /\ dfs_subdir(s, f) \in Parts /\ dfs_subdir(s, f) # Null
                    /\ f.parts = fstab[s].path => dfs_subdir(s, f) = <<"/">>
  OBVIOUS
<1>1. f \in Path
  BY NormalizeType DEF DfsInv, SlotInv
<1>2. \A r \in Slot : fstab[r].path \in Parts \cup {Null}
  BY SlotTypes
<1>3. s \in Slot /\ f \in Name /\ fstab[s].path \in Parts
  BY <1>1, <1>2, LookupType
<1> QED  BY <1>3, SubdirType

LEMMA OpenLookupStep ==
    ASSUME DfsInv, Careful, NEW t \in Thread, OpenLookup(t)
    PROVE  FileInv'
<1>0. FileInv /\ pc[t].at = "lookup" /\ fstab' = fstab /\ owned' = owned /\ wild' = wild
  BY DEF DfsInv, OpenLookup, At
<1>1. PICK i : i = pc[t].fd
  OBVIOUS
<1>2. PICK f : f = dfs_normalize_path(pc[t].name)
  OBVIOUS
<1>3. PICK s : s = dfs_filesystem_lookup(f)
  OBVIOUS
<1>4. /\ i \in Fd /\ pc[t] \in PcRec /\ fd_table[i] \in FdRec /\ live \in Nat /\ pc[t].refs = 2
      /\ fd_table[i].ref = 2 /\ Stage(pc[t], fd_table[i])
  BY <1>0, <1>1, MyFacts
<1>5. pc[t].ok /\ pc[t].name \in Name /\ fd_table[i].path = Null /\ fd_table[i].data = "none"
  BY <1>0, <1>4 DEF Stage
<1>6. "open" \in Ats /\ "opened" \in Ats /\ FALSE \in BOOLEAN
  BY DEF Ats
<1>7. CASE s = Null
  <2>1. PICK r : r = AtOk(pc[t], "opened", FALSE)
    OBVIOUS
  <2>2. Goto(t, r) /\ fd_table' = fd_table /\ live' = live
    BY <1>2, <1>3, <1>7, <2>1 DEF OpenLookup, AtOk
  <2>3. r \in PcRec /\ r.at = "opened" /\ r.fd = i /\ r.refs = 2 /\ r.ok = FALSE
    <3>1. r \in PcRec /\ r.at = "opened" /\ r.fd = pc[t].fd /\ r.refs = pc[t].refs /\ r.ok = FALSE
      BY <1>4, <1>6, <2>1, PcOk
    <3> QED  BY <3>1, <1>1, <1>4
  <2>4. fd_table' = [fd_table EXCEPT ![i] = fd_table[i]]
    BY <1>0, <1>4, <2>2 DEF FileInv
  <2>5. PICK e : e = fd_table[i]
    OBVIOUS
  <2>6. GoesOn(i, e, r)
    BY <1>0, <1>4, <1>5, <2>3, <2>5 DEF GoesOn, Stage
  <2>7. live' = live - Heaped(fd_table[i]) + Heaped(e)
    BY <1>4, <1>5, <2>2, <2>5 DEF Heaped
  <2> QED  BY <1>0, <1>1, <1>4, <2>2, <2>3, <2>4, <2>5, <2>6, <2>7, MyStep
<1>8. CASE s # Null
  <2>1. PICK p : p = dfs_subdir(s, f)
    OBVIOUS
  <2>2. PICK r : r = AtFs(pc[t], "open", s)
    OBVIOUS
  <2>3. PICK e : e = [fd_table[i] EXCEPT !.fs = s, !.path = p, !.dir = FALSE]
    OBVIOUS
  <2>4. Goto(t, r) /\ fd_table' = [fd_table EXCEPT ![i] = e] /\ live' = live + 1 /\ Settled(s, p)
    <3>1. fd_table' = [fd_table EXCEPT ![i] = [fd_table[i] EXCEPT !.fs = s, !.path = p, !.dir = FALSE]]
      BY <1>1, <1>2, <1>3, <1>8, <2>1 DEF OpenLookup
    <3>2. Goto(t, r) /\ live' = live + 1 /\ Settled(s, p)
      BY <1>2, <1>3, <1>8, <2>1, <2>2 DEF OpenLookup, AtFs
    <3> QED  BY <3>1, <3>2, <2>3
  <2>5. s \in Slot /\ p \in Parts /\ p # Null
    BY <1>2, <1>3, <1>5, <1>8, <2>1, LookupFacts
  <2>6. Mounted(s)
    BY <2>4, <2>5 DEF Settled, Mounted
  <2>7. r \in PcRec /\ r.at = "open" /\ r.ok /\ r.fd = i /\ r.refs = 2
    <3>1. r \in PcRec /\ r.at = "open" /\ r.fd = pc[t].fd /\ r.refs = pc[t].refs /\ r.ok = pc[t].ok
      BY <1>4, <1>6, <2>2, <2>5, PcFs
    <3> QED  BY <3>1, <1>1, <1>4, <1>5
  <2>8. e \in FdRec /\ e.path # Null /\ e.data = "none" /\ e.fs = s /\ e.ref = 2
    BY <1>4, <1>5, <2>3, <2>5 DEF FdRec
  <2>9. GoesOn(i, e, r)
    BY <1>0, <2>6, <2>7, <2>8 DEF GoesOn, Stage
  <2>10. live' = live - Heaped(fd_table[i]) + Heaped(e)
    BY <1>4, <1>5, <2>4, <2>8 DEF Heaped
  <2> QED  BY <1>0, <1>1, <1>4, <2>4, <2>7, <2>8, <2>9, <2>10, MyStep
<1> QED  BY <1>7, <1>8

LEMMA PutFacts ==
    ASSUME NEW e \in FdRec
    PROVE  /\ e.ref = 1 => fd_put(e) = NoFd
           /\ e.ref > 1 => /\ fd_put(e) \in FdRec /\ fd_put(e).ref = e.ref - 1
                           /\ fd_put(e).path = e.path /\ fd_put(e).data = e.data
                           /\ fd_put(e).fs = e.fs
           /\ e.ref = 2 => fd_put(fd_put(e)) = NoFd
<1>1. ASSUME e.ref > 1
      PROVE  /\ fd_put(e) \in FdRec /\ fd_put(e).ref = e.ref - 1
             /\ fd_put(e).path = e.path /\ fd_put(e).data = e.data /\ fd_put(e).fs = e.fs
  <2>1. fd_put(e) = [e EXCEPT !.ref = e.ref - 1]
    BY <1>1 DEF fd_put
  <2> QED  BY <1>1, <2>1 DEF FdRec
<1>2. ASSUME NEW d, d.ref = 1 PROVE fd_put(d) = NoFd
  BY <1>2 DEF fd_put
<1> QED  BY <1>1, <1>2

LEMMA OpenCallStep ==
    ASSUME DfsInv, NEW t \in Thread, OpenCall(t)
    PROVE  FileInv'
<1>0. FileInv /\ pc[t].at = "open" /\ fstab' = fstab
  BY DEF DfsInv, OpenCall, At
<1>1. PICK i : i = pc[t].fd
  OBVIOUS
<1>2. PICK d : d = fd_table[i]
  OBVIOUS
<1>4. /\ i \in Fd /\ pc[t] \in PcRec /\ d \in FdRec /\ live \in Nat /\ pc[t].refs = 2
      /\ d.ref = 2 /\ Stage(pc[t], d)
  BY <1>0, <1>1, <1>2, MyFacts
<1>5. pc[t].ok /\ d.path # Null /\ d.data = "none" /\ Mounted(d.fs)
  BY <1>0, <1>4 DEF Stage
<1>6. fstab[d.fs] # NoFs
  BY <1>5 DEF Mounted, NoFs
<1>7. "opened" \in Ats /\ FALSE \in BOOLEAN
  BY DEF Ats
<1>8. Heaped(d) = 1
  BY <1>5 DEF Heaped
<1>9. ASSUME /\ fd_table' = [fd_table EXCEPT ![i] = [d EXCEPT !.data = "open",
                                                              !.dir = (pc[t].op # "open")]]
             /\ live' = live + 1
             /\ Goto(t, [pc[t] EXCEPT !.at = "opened"])
             /\ UNCHANGED <<owned, wild>>
      PROVE  FileInv'
  <2>1. PICK r : r = At1(pc[t], "opened")
    OBVIOUS
  <2>2. PICK b : b = (pc[t].op # "open")
    OBVIOUS
  <2>3. PICK e : e = [d EXCEPT !.data = "open", !.dir = b]
    OBVIOUS
  <2>4. Goto(t, r) /\ fd_table' = [fd_table EXCEPT ![i] = e]
    BY <1>9, <2>1, <2>2, <2>3 DEF At1
  <2>5. r \in PcRec /\ r.at = "opened" /\ r.fd = i /\ r.refs = 2 /\ r.ok
    <3>1. r \in PcRec /\ r.at = "opened" /\ r.fd = pc[t].fd /\ r.refs = pc[t].refs /\ r.ok = pc[t].ok
      BY <1>4, <1>7, <2>1, PcAt
    <3> QED  BY <3>1, <1>1, <1>4, <1>5
  <2>6. b \in BOOLEAN
    BY <2>2
  <2>7. e \in FdRec /\ e.path = d.path /\ e.data = "open" /\ e.fs = d.fs /\ e.ref = 2
    BY <1>4, <2>3, <2>6 DEF FdRec
  <2>8. GoesOn(i, e, r)
    BY <1>5, <1>9, <2>5, <2>7 DEF GoesOn, Stage, Opened
  <2>9. Heaped(e) = 2
    BY <1>5, <2>7 DEF Heaped
  <2>10. live' = live - Heaped(fd_table[i]) + Heaped(e)
    BY <1>2, <1>4, <1>8, <1>9, <2>9
  <2> QED  BY <1>0, <1>1, <1>4, <1>9, <2>4, <2>5, <2>7, <2>8, <2>10, MyStep
<1>10. ASSUME /\ fd_table' = [fd_table EXCEPT ![i].path = Null]
              /\ live' = live - 1
              /\ Goto(t, [pc[t] EXCEPT !.at = "opened", !.ok = FALSE])
              /\ UNCHANGED <<owned, wild>>
       PROVE  FileInv'
  <2>1. PICK r : r = AtOk(pc[t], "opened", FALSE)
    OBVIOUS
  <2>3. PICK e : e = [d EXCEPT !.path = Null]
    OBVIOUS
  <2>4. Goto(t, r) /\ fd_table' = [fd_table EXCEPT ![i] = e]
    BY <1>2, <1>10, <2>1, <2>3 DEF AtOk
  <2>5. r \in PcRec /\ r.at = "opened" /\ r.fd = i /\ r.refs = 2 /\ r.ok = FALSE
    <3>1. r \in PcRec /\ r.at = "opened" /\ r.fd = pc[t].fd /\ r.refs = pc[t].refs /\ r.ok = FALSE
      BY <1>4, <1>7, <2>1, PcOk
    <3> QED  BY <3>1, <1>1, <1>4
  <2>7. e \in FdRec /\ e.path = Null /\ e.data = "none" /\ e.ref = 2
    BY <1>4, <1>5, <2>3 DEF FdRec
  <2>8. GoesOn(i, e, r)
    BY <1>10, <2>5, <2>7 DEF GoesOn, Stage
  <2>9. Heaped(e) = 0
    BY <2>7 DEF Heaped
  <2>10. live' = live - Heaped(fd_table[i]) + Heaped(e)
    BY <1>2, <1>4, <1>8, <1>10, <2>9
  <2> QED  BY <1>0, <1>1, <1>4, <1>10, <2>4, <2>5, <2>7, <2>8, <2>10, MyStep
<1> QED  BY <1>1, <1>2, <1>6, <1>9, <1>10 DEF OpenCall

LEMMA OpenDoneStep ==
    ASSUME DfsInv, NEW t \in Thread, OpenDone(t)
    PROVE  FileInv'
<1>0. FileInv /\ pc[t].at = "opened" /\ fstab' = fstab /\ live' = live /\ wild' = wild
  BY DEF DfsInv, OpenDone, At
<1>1. PICK i : i = pc[t].fd
  OBVIOUS
<1>2. PICK d : d = fd_table[i]
  OBVIOUS
<1>4. /\ i \in Fd /\ pc[t] \in PcRec /\ d \in FdRec /\ live \in Nat /\ pc[t].refs = 2
      /\ d.ref = 2 /\ Stage(pc[t], d)
  BY <1>0, <1>1, <1>2, MyFacts
<1>5. (pc[t].ok => Opened(d)) /\ (~pc[t].ok => d.path = Null /\ d.data = "none")
  BY <1>0, <1>4 DEF Stage
<1>6. Ready \in PcRec /\ NoFd \in FdRec
  BY ReadyType
<1>7. ASSUME pc[t].ok, fd_table' = [fd_table EXCEPT ![i] = fd_put(d)],
             owned' = owned \cup {i}, Goto(t, Ready)
      PROVE  FileInv'
  <2>1. PICK e : e = fd_put(d)
    OBVIOUS
  <2>2. e \in FdRec /\ e.ref = 1 /\ e.path = d.path /\ e.data = d.data /\ e.fs = d.fs
    BY <1>4, <2>1, PutFacts
  <2>3. Leaves(i, e, Ready)
    BY <1>5, <1>7, <2>2 DEF Leaves, Opened
  <2>4. Heaped(e) = Heaped(d) /\ Heaped(d) \in Nat
    BY <2>2 DEF Heaped
  <2>5. live' = live - Heaped(fd_table[i]) + Heaped(e)
    BY <1>0, <1>2, <1>4, <2>4
  <2> QED  BY <1>0, <1>1, <1>4, <1>6, <1>7, <2>1, <2>2, <2>3, <2>5, MyStep
<1>8. ASSUME ~pc[t].ok, fd_table' = [fd_table EXCEPT ![i] = fd_put(fd_put(d))],
             owned' = owned, Goto(t, Ready)
      PROVE  FileInv'
  <2>1. fd_put(fd_put(d)) = NoFd
    BY <1>4, PutFacts
  <2>2. GivesBack(i, NoFd, Ready)
    BY <1>8 DEF GivesBack
  <2>3. Heaped(NoFd) = 0 /\ Heaped(d) = 0
    BY <1>5, <1>8 DEF Heaped, NoFd
  <2>4. live' = live - Heaped(fd_table[i]) + Heaped(NoFd)
    BY <1>0, <1>2, <1>4, <2>3
  <2> QED  BY <1>0, <1>1, <1>4, <1>6, <1>8, <2>1, <2>2, <2>4, MyStep
<1>9. ASSUME pc[t].ok, Goto(t, [pc[t] EXCEPT !.at = "close"]), UNCHANGED <<fd_table, owned>>
      PROVE  FileInv'
  <2>1. PICK r : r = At1(pc[t], "close")
    OBVIOUS
  <2>2. Goto(t, r)
    BY <1>9, <2>1 DEF At1
  <2>3. "close" \in Ats
    BY DEF Ats
  <2>4. r \in PcRec /\ r.at = "close" /\ r.fd = i /\ r.refs = 2 /\ r.ok
    <3>1. r \in PcRec /\ r.at = "close" /\ r.fd = pc[t].fd /\ r.refs = pc[t].refs /\ r.ok = pc[t].ok
      BY <1>4, <2>1, <2>3, PcAt
    <3> QED  BY <3>1, <1>1, <1>4, <1>9
  <2>5. fd_table' = [fd_table EXCEPT ![i] = d]
    BY <1>0, <1>2, <1>4, <1>9 DEF FileInv
  <2>6. GoesOn(i, d, r)
    BY <1>4, <1>5, <1>9, <2>4 DEF GoesOn, Stage
  <2>7. live' = live - Heaped(fd_table[i]) + Heaped(d)
    BY <1>0, <1>2, <1>4 DEF Heaped
  <2> QED  BY <1>0, <1>1, <1>4, <1>9, <2>2, <2>4, <2>5, <2>6, <2>7, MyStep
<1> QED  BY <1>1, <1>2, <1>7, <1>8, <1>9 DEF OpenDone

LEMMA CloseCallStep ==
    ASSUME DfsInv, NEW t \in Thread, CloseCall(t)
    PROVE  FileInv'
<1>0. FileInv /\ pc[t].at = "close" /\ fstab' = fstab
  BY DEF DfsInv, CloseCall, At
<1>1. PICK i : i = pc[t].fd
  OBVIOUS
<1>2. PICK d : d = fd_table[i]
  OBVIOUS
<1>4. /\ i \in Fd /\ pc[t] \in PcRec /\ d \in FdRec /\ live \in Nat /\ pc[t].refs = 2
      /\ d.ref = 2 /\ Stage(pc[t], d)
  BY <1>0, <1>1, <1>2, MyFacts
<1>5. pc[t].ok /\ Opened(d)
  BY <1>0, <1>4 DEF Stage
<1>6. Usable(i)
  BY <1>2, <1>5 DEF Usable, Opened, Mounted, NoFs
<1>7. "closed" \in Ats /\ FALSE \in BOOLEAN
  BY DEF Ats
<1>8. Heaped(d) = 2
  BY <1>5 DEF Heaped, Opened
<1>9. ASSUME /\ fd_table' = [fd_table EXCEPT ![i] = [d EXCEPT !.data = "freed", !.path = Null]]
             /\ live' = live - 2
             /\ Goto(t, [pc[t] EXCEPT !.at = "closed"])
             /\ UNCHANGED <<owned, wild>>
      PROVE  FileInv'
  <2>1. PICK r : r = At1(pc[t], "closed")
    OBVIOUS
  <2>3. PICK e : e = [d EXCEPT !.data = "freed", !.path = Null]
    OBVIOUS
  <2>4. Goto(t, r) /\ fd_table' = [fd_table EXCEPT ![i] = e]
    BY <1>9, <2>1, <2>3 DEF At1
  <2>5. r \in PcRec /\ r.at = "closed" /\ r.fd = i /\ r.refs = 2 /\ r.ok
    <3>1. r \in PcRec /\ r.at = "closed" /\ r.fd = pc[t].fd /\ r.refs = pc[t].refs /\ r.ok = pc[t].ok
      BY <1>4, <1>7, <2>1, PcAt
    <3> QED  BY <3>1, <1>1, <1>4, <1>5
  <2>7. e \in FdRec /\ e.path = Null /\ e.data = "freed" /\ e.ref = 2
    BY <1>4, <2>3 DEF FdRec
  <2>8. GoesOn(i, e, r)
    BY <1>9, <2>5, <2>7 DEF GoesOn, Stage
  <2>9. Heaped(e) = 0
    BY <2>7 DEF Heaped
  <2>10. live' = live - Heaped(fd_table[i]) + Heaped(e)
    BY <1>2, <1>4, <1>8, <1>9, <2>9
  <2> QED  BY <1>0, <1>1, <1>4, <1>9, <2>4, <2>5, <2>7, <2>8, <2>10, MyStep
<1>10. ASSUME /\ Goto(t, [pc[t] EXCEPT !.at = "closed", !.ok = FALSE])
              /\ UNCHANGED <<fd_table, live, owned, wild>>
       PROVE  FileInv'
  <2>1. PICK r : r = AtOk(pc[t], "closed", FALSE)
    OBVIOUS
  <2>4. Goto(t, r)
    BY <1>10, <2>1 DEF AtOk
  <2>5. r \in PcRec /\ r.at = "closed" /\ r.fd = i /\ r.refs = 2 /\ r.ok = FALSE
    <3>1. r \in PcRec /\ r.at = "closed" /\ r.fd = pc[t].fd /\ r.refs = pc[t].refs /\ r.ok = FALSE
      BY <1>4, <1>7, <2>1, PcOk
    <3> QED  BY <3>1, <1>1, <1>4
  <2>6. fd_table' = [fd_table EXCEPT ![i] = d]
    BY <1>0, <1>2, <1>4, <1>10 DEF FileInv
  <2>8. GoesOn(i, d, r)
    BY <1>4, <1>5, <1>10, <2>5 DEF GoesOn, Stage
  <2>10. live' = live - Heaped(fd_table[i]) + Heaped(d)
    BY <1>2, <1>4, <1>8, <1>10
  <2> QED  BY <1>0, <1>1, <1>4, <1>10, <2>4, <2>5, <2>6, <2>8, <2>10, MyStep
<1> QED  BY <1>1, <1>2, <1>6, <1>9, <1>10 DEF CloseCall

LEMMA CloseDoneStep ==
    ASSUME DfsInv, NEW t \in Thread, CloseDone(t)
    PROVE  FileInv'
<1>0. FileInv /\ pc[t].at = "closed" /\ fstab' = fstab /\ live' = live /\ wild' = wild /\ Goto(t, Ready)
  BY DEF DfsInv, CloseDone, At
<1>1. PICK i : i = pc[t].fd
  OBVIOUS
<1>2. PICK d : d = fd_table[i]
  OBVIOUS
<1>4. /\ i \in Fd /\ pc[t] \in PcRec /\ d \in FdRec /\ live \in Nat /\ pc[t].refs = 2
      /\ d.ref = 2 /\ Stage(pc[t], d)
  BY <1>0, <1>1, <1>2, MyFacts
<1>5. (pc[t].ok => d.path = Null /\ d.data = "freed") /\ (~pc[t].ok => Opened(d))
  BY <1>0, <1>4 DEF Stage
<1>6. Ready \in PcRec /\ NoFd \in FdRec
  BY ReadyType
<1>7. CASE ~pc[t].ok
  <2>0. fd_table' = [fd_table EXCEPT ![i] = fd_put(d)] /\ owned' = owned \cup {i}
    BY <1>1, <1>2, <1>7 DEF CloseDone
  <2>1. PICK e : e = fd_put(d)
    OBVIOUS
  <2>2. e \in FdRec /\ e.ref = 1 /\ e.path = d.path /\ e.data = d.data /\ e.fs = d.fs
    BY <1>4, <2>1, PutFacts
  <2>3. Leaves(i, e, Ready)
    BY <1>5, <1>7, <2>0, <2>2 DEF Leaves, Opened
  <2>4. Heaped(e) = Heaped(d) /\ Heaped(d) \in Nat
    BY <2>2 DEF Heaped
  <2>5. live' = live - Heaped(fd_table[i]) + Heaped(e)
    BY <1>0, <1>2, <1>4, <2>4
  <2> QED  BY <1>0, <1>1, <1>4, <1>6, <2>0, <2>1, <2>2, <2>3, <2>5, MyStep
<1>8. CASE pc[t].ok
  <2>0. fd_table' = [fd_table EXCEPT ![i] = fd_put(fd_put(d))] /\ owned' = owned
    BY <1>1, <1>2, <1>8 DEF CloseDone
  <2>1. fd_put(fd_put(d)) = NoFd
    BY <1>4, PutFacts
  <2>2. GivesBack(i, NoFd, Ready)
    BY <2>0 DEF GivesBack
  <2>3. Heaped(NoFd) = 0 /\ Heaped(d) = 0
    BY <1>5, <1>8 DEF Heaped, NoFd
  <2>4. live' = live - Heaped(fd_table[i]) + Heaped(NoFd)
    BY <1>0, <1>2, <1>4, <2>3
  <2> QED  BY <1>0, <1>1, <1>4, <1>6, <2>0, <2>1, <2>2, <2>4, MyStep
<1> QED  BY <1>7, <1>8

\* A descriptor that a program owns: the calls on it use it.
LEMMA OwnedFacts ==
    ASSUME FileInv, NEW i \in Fd, i \in owned
    PROVE  /\ fd_table[i] \in FdRec /\ Opened(fd_table[i])
           /\ \A u \in Thread : pc[u].fd = i => pc[u].at = "use" /\ pc[u].refs = 1
           /\ \A u \in Thread : pc[u].fd = i => fd_table[i].ref > 1
<1>1. FdOK(i) /\ Counts(pc) /\ fd_table[i] \in FdRec
  BY FileCounts DEF FileInv
<1>2. ASSUME NEW u \in Thread, pc[u].fd = i PROVE pc[u].at = "use" /\ pc[u].refs = 1
  BY <1>2, FdFacts DEF FileInv, ThreadOK
<1>3. ASSUME NEW u \in Thread, pc[u].fd = i PROVE fd_table[i].ref > 1
  <2>1. HeldIn(pc, i) = 1 + Others(pc, u, i) /\ Others(pc, u, i) \in Nat
    BY <1>1, <1>2, <1>3, HeldSplit DEF Share
  <2> QED  BY <1>1, <2>1 DEF FdOK
<1> QED  BY <1>1, <1>2, <1>3 DEF FdOK

LEMMA FdGetStep ==
    ASSUME DfsInv, NEW t \in Thread, NEW i \in Fd, fd_get(t, i)
    PROVE  FileInv'
<1>0. /\ FileInv /\ pc[t].at = "user" /\ fstab' = fstab /\ live' = live /\ wild' = wild
      /\ owned' = owned /\ i \in owned
  BY DEF DfsInv, fd_get, At
<1>1. PICK d : d = fd_table[i]
  OBVIOUS
<1>2. /\ d \in FdRec /\ Opened(d)
      /\ \A u \in Thread : pc[u].fd = i => pc[u].at = "use" /\ pc[u].refs = 1
  BY <1>0, <1>1, OwnedFacts
<1>3. PICK e : e = [d EXCEPT !.ref = d.ref + 1]
  OBVIOUS
<1>4. d.ref \in Nat /\ e \in FdRec /\ e.ref = d.ref + 1 /\ e.path = d.path /\ e.data = d.data /\ e.fs = d.fs
  BY <1>2, <1>3 DEF FdRec
<1>5. fd_table' = [fd_table EXCEPT ![i] = e]
  BY <1>1, <1>3 DEF fd_get
<1>6. PICK r : r = [Ready EXCEPT !.at = "use", !.fd = i, !.refs = 1]
  OBVIOUS
<1>7. Goto(t, r)
  BY <1>6 DEF fd_get
<1>8. r \in PcRec /\ r.at = "use" /\ r.fd = i /\ r.refs = 1
  BY <1>6, ReadyType DEF PcRec, Ready, Ats, Ops, Path
<1>9. /\ pc' \in [Thread \cup Admin -> PcRec] /\ pc'[t] = r
      /\ \A u \in Thread \cup Admin : u # t => pc'[u] = pc[u]
  BY <1>0, <1>7, <1>8, GotoFacts
<1>10. /\ fd_table' \in [Fd -> FdRec] /\ fd_table'[i] = e
       /\ \A j \in Fd : j # i => fd_table'[j] = fd_table[j]
  BY <1>0, <1>4, <1>5 DEF FileInv
<1>11. pc[t].fd = Null /\ pc[t].refs = 0
  BY <1>0, UserFacts
<1>12. StepOn(t, i)
  BY <1>0, <1>2, <1>8, <1>9, <1>10, <1>11 DEF StepOn, FileInv
<1>13. ThreadOK(t)'
  BY <1>0, <1>8, <1>9 DEF ThreadOK
<1>14. Opened(fd_table[i])'
  BY <1>0, <1>2, <1>4, <1>10 DEF Opened, Mounted
<1>15. Share(pc[t], i) = 0 /\ Share(pc'[t], i) = 1 /\ Owns(i) = 1 /\ Owns(i)' = 1
  BY <1>0, <1>8, <1>9, <1>11, FdFacts DEF Share, Owns
<1>16. Heaped(fd_table'[i]) = Heaped(fd_table[i]) /\ Heaped(fd_table[i]) \in Nat /\ live \in Nat
  BY <1>0, <1>1, <1>4, <1>10, LiveType DEF Heaped
<1>17. fd_table'[i].ref = fd_table[i].ref + 1 /\ fd_table[i].ref \in Nat
  BY <1>1, <1>4, <1>10
<1>18. StepFits(t, i)
  BY <1>0, <1>12, <1>13, <1>14, <1>15, <1>16, <1>17 DEF StepFits
<1> QED  BY <1>0, <1>18, FileStepOK

LEMMA CloseStep ==
    ASSUME DfsInv, Careful, NEW t \in Thread, NEW i \in Fd, Close(t, i)
    PROVE  FileInv'
<1>0. /\ FileInv /\ pc[t].at = "user" /\ fstab' = fstab /\ live' = live /\ wild' = wild
      /\ owned' = owned \ {i} /\ i \in owned /\ \A u \in Thread : pc[u].fd # i
  BY DEF DfsInv, Close, At
<1>1. PICK d : d = fd_table[i]
  OBVIOUS
<1>2. d \in FdRec /\ Opened(d) /\ d.ref = 1
  <2>1. d \in FdRec /\ Opened(d)
    BY <1>0, <1>1, OwnedFacts
  <2>2. HeldIn(pc, i) = 0 /\ FdOK(i)
    BY <1>0, HeldNone DEF FileInv
  <2> QED  BY <1>0, <1>1, <2>1, <2>2 DEF FdOK
<1>3. PICK e : e = [d EXCEPT !.ref = d.ref + 1]
  OBVIOUS
<1>4. e \in FdRec /\ e.ref = 2 /\ e.path = d.path /\ e.data = d.data /\ e.fs = d.fs
  BY <1>2, <1>3 DEF FdRec
<1>5. fd_table' = [fd_table EXCEPT ![i] = e]
  BY <1>1, <1>3 DEF Close
<1>6. PICK r : r = [Ready EXCEPT !.at = "close", !.op = "close", !.fd = i, !.refs = 2]
  OBVIOUS
<1>7. Goto(t, r)
  BY <1>6 DEF Close
<1>8. r \in PcRec /\ r.at = "close" /\ r.fd = i /\ r.refs = 2 /\ r.ok
  BY <1>6, ReadyType DEF PcRec, Ready, Ats, Ops, Path
<1>9. /\ pc' \in [Thread \cup Admin -> PcRec] /\ pc'[t] = r
      /\ \A u \in Thread \cup Admin : u # t => pc'[u] = pc[u]
  BY <1>0, <1>7, <1>8, GotoFacts
<1>10. /\ fd_table' \in [Fd -> FdRec] /\ fd_table'[i] = e
       /\ \A j \in Fd : j # i => fd_table'[j] = fd_table[j]
  BY <1>0, <1>4, <1>5 DEF FileInv
<1>11. pc[t].fd = Null /\ pc[t].refs = 0
  BY <1>0, UserFacts
<1>12. StepOn(t, i)
  BY <1>0, <1>8, <1>9, <1>10, <1>11 DEF StepOn, FileInv
<1>13. ThreadOK(t)'
  <2>1. Stage(pc[t], fd_table[i])'
    BY <1>0, <1>2, <1>4, <1>8, <1>9, <1>10 DEF Stage, Opened, Mounted
  <2> QED  BY <1>0, <1>8, <1>9, <2>1 DEF ThreadOK
<1>15. Share(pc[t], i) = 0 /\ Share(pc'[t], i) = 2 /\ Owns(i) = 1 /\ Owns(i)' = 0
  BY <1>0, <1>8, <1>9, <1>11, FdFacts DEF Share, Owns
<1>16. Heaped(fd_table'[i]) = Heaped(fd_table[i]) /\ Heaped(fd_table[i]) \in Nat /\ live \in Nat
  BY <1>0, <1>1, <1>4, <1>10, LiveType DEF Heaped
<1>17. fd_table'[i].ref = 2 /\ fd_table[i].ref = 1
  BY <1>1, <1>2, <1>4, <1>10
<1>18. i \notin owned' /\ pc'[t].fd = i
  BY <1>0, <1>8, <1>9
<1>19. StepFits(t, i)
  BY <1>0, <1>12, <1>13, <1>15, <1>16, <1>17, <1>18 DEF StepFits
<1> QED  BY <1>0, <1>19, FileStepOK

LEMMA UseStep ==
    ASSUME DfsInv, NEW t \in Thread, Use(t)
    PROVE  FileInv'
<1>0. FileInv /\ pc[t].at = "use" /\ fstab' = fstab
  BY DEF DfsInv, Use, At
<1>1. PICK i : i = pc[t].fd
  OBVIOUS
<1>2. PICK d : d = fd_table[i]
  OBVIOUS
<1>3. i \in Fd /\ i \in owned /\ pc[t].refs = 1 /\ d \in FdRec /\ Opened(d) /\ d.ref > 1
      /\ \A u \in Thread : pc[u].fd = i => pc[u].at = "use" /\ pc[u].refs = 1
  <2>1. i \in Fd /\ i \in owned /\ pc[t].refs = 1
    BY <1>0, <1>1, UserFacts
  <2> QED  BY <1>0, <1>1, <1>2, <2>1, OwnedFacts
<1>4. Usable(i)
  BY <1>2, <1>3 DEF Usable, Opened, Mounted, NoFs
<1>5. PICK e : e = fd_put(d)
  OBVIOUS
<1>6. fd_table' = [fd_table EXCEPT ![i] = e] /\ Goto(t, Ready) /\ UNCHANGED <<owned, live, wild>>
  BY <1>1, <1>2, <1>4, <1>5 DEF Use
<1>7. d.ref \in Nat /\ e \in FdRec /\ e.ref = d.ref - 1 /\ e.path = d.path /\ e.data = d.data /\ e.fs = d.fs
  <2>1. d.ref \in Nat
    BY <1>3 DEF FdRec
  <2> QED  BY <1>3, <1>5, <2>1, PutFacts
<1>8. Ready \in PcRec /\ Ready.at = "user" /\ Ready.fd = Null /\ Ready.refs = 0
  BY ReadyType DEF Ready
<1>9. /\ pc' \in [Thread \cup Admin -> PcRec] /\ pc'[t] = Ready
      /\ \A u \in Thread \cup Admin : u # t => pc'[u] = pc[u]
  BY <1>0, <1>6, <1>8, GotoFacts
<1>10. /\ fd_table' \in [Fd -> FdRec] /\ fd_table'[i] = e
       /\ \A j \in Fd : j # i => fd_table'[j] = fd_table[j]
  BY <1>0, <1>3, <1>6, <1>7 DEF FileInv
<1>12. StepOn(t, i)
  BY <1>0, <1>1, <1>3, <1>6, <1>8, <1>9, <1>10 DEF StepOn, FileInv
<1>13. ThreadOK(t)'
  BY <1>8, <1>9 DEF ThreadOK
<1>14. Opened(fd_table[i])'
  BY <1>0, <1>3, <1>7, <1>10 DEF Opened, Mounted
<1>15. Share(pc[t], i) = 1 /\ Share(pc'[t], i) = 0 /\ Owns(i) = 1 /\ Owns(i)' = 1
  BY <1>1, <1>3, <1>6, <1>8, <1>9, FdFacts DEF Share, Owns
<1>16. Heaped(fd_table'[i]) = Heaped(fd_table[i]) /\ Heaped(fd_table[i]) \in Nat /\ live \in Nat
  BY <1>0, <1>2, <1>7, <1>10, LiveType DEF Heaped
<1>17. fd_table'[i].ref = fd_table[i].ref - 1 /\ fd_table[i].ref \in Nat
  BY <1>2, <1>7, <1>10
<1>18. StepFits(t, i)
  BY <1>3, <1>6, <1>12, <1>13, <1>14, <1>15, <1>16, <1>17 DEF StepFits
<1> QED  BY <1>0, <1>3, <1>18, FileStepOK

\* A step on no descriptor, that takes away no file system in use.
Calm ==
    /\ UNCHANGED <<fd_table, owned, live, wild>>
    /\ pc' \in [Thread \cup Admin -> PcRec]
    /\ \A t \in Thread : pc'[t] = pc[t] \/ ( /\ pc[t].fd = Null /\ pc[t].refs = 0
                                             /\ pc'[t].fd = Null /\ pc'[t].refs = 0 /\ ThreadOK(t)' )
    /\ \A s \in Slot : Mounted(s) /\ Busy(s) => fstab'[s].vol # Null

LEMMA CalmStepOK == ASSUME FileInv, Calm PROVE FileInv'
<1>0. /\ fd_table' = fd_table /\ owned' = owned /\ live' = live /\ wild' = wild
      /\ pc' \in [Thread \cup Admin -> PcRec]
  BY DEF Calm
<1>1. \A t \in Thread : pc'[t].fd = pc[t].fd /\ pc'[t].refs = pc[t].refs
  BY DEF Calm
<1>2. ASSUME NEW i \in Fd, Opened(fd_table[i]) PROVE Opened(fd_table[i])'
  <2>1. Busy(fd_table[i].fs)
    BY DEF Busy
  <2> QED  BY <1>0, <1>2, <2>1 DEF Calm, Opened, Mounted
<1>3. ASSUME NEW t \in Thread PROVE ThreadOK(t)'
  <2>0. ThreadOK(t)
    BY DEF FileInv
  <2>1. CASE pc'[t] # pc[t]
    BY <2>1 DEF Calm
  <2>2. CASE pc'[t] = pc[t]
    <3>1. CASE pc[t].at = "user" /\ pc[t].fd = Null /\ pc[t].refs = 0
      BY <2>2, <3>1 DEF ThreadOK
    <3>2. CASE pc[t].at = "unlink" /\ pc[t].fd = Null /\ pc[t].refs = 0 /\ Mounted(pc[t].fs)
      <4>1. Busy(pc[t].fs)
        BY DEF Busy
      <4>2. Mounted(pc[t].fs)'
        BY <2>2, <3>2, <4>1 DEF Mounted, Calm
      <4> QED  BY <2>2, <3>2, <4>2 DEF ThreadOK
    <3>3. CASE pc[t].at = "use" /\ pc[t].fd \in owned /\ pc[t].refs = 1
      BY <1>0, <2>2, <3>3 DEF ThreadOK
    <3>4. CASE /\ pc[t].fd \in Fd \ owned /\ pc[t].refs = 2 /\ Stage(pc[t], fd_table[pc[t].fd])
               /\ \A u \in Thread : u # t => pc[u].fd # pc[t].fd
      <4>1. PICK i : i = pc[t].fd
        OBVIOUS
      <4>2. Opened(fd_table[i]) => Opened(fd_table[i])'
        BY <1>2, <3>4, <4>1
      <4>3. Mounted(fd_table[i].fs) => Mounted(fd_table[i].fs)'
        <5>1. Busy(fd_table[i].fs)
          BY <3>4, <4>1 DEF Busy
        <5> QED  BY <1>0, <5>1 DEF Mounted, Calm
      <4>4. Stage(pc[t], fd_table[i])'
        BY <1>0, <2>2, <3>4, <4>1, <4>2, <4>3 DEF Stage
      <4>5. \A u \in Thread : u # t => pc'[u].fd # pc'[t].fd
        BY <1>1, <3>4
      <4> QED  BY <1>0, <2>2, <3>4, <4>1, <4>4, <4>5 DEF ThreadOK
    <3> QED  BY <2>0, <3>1, <3>2, <3>3, <3>4 DEF ThreadOK
  <2> QED  BY <2>1, <2>2
<1>4. Counts(pc) /\ Counts(pc')
  BY <1>0, FileCounts DEF Counts, PcRec
<1>5. ASSUME NEW i \in Fd PROVE FdOK(i)'
  <2>0. FdOK(i)
    BY DEF FileInv
  <2>1. \A u \in Thread : Share(pc'[u], i) = Share(pc[u], i)
    BY <1>1 DEF Share
  <2>2. HeldIn(pc', i) = HeldIn(pc, i)
    <3>1. Shares(pc', i) = Shares(pc, i)
      BY <2>1 DEF Shares
    <3> QED  BY <3>1 DEF HeldIn
  <2> QED  BY <1>0, <1>1, <1>2, <2>0, <2>2 DEF FdOK
<1>6. WithPath' = WithPath /\ WithData' = WithData
  BY <1>0 DEF WithPath, WithData
<1> QED  BY <1>0, <1>3, <1>5, <1>6 DEF FileInv

LEMMA FileUnlinkStep ==
    ASSUME DfsInv, Careful, NEW t \in Thread, NEW name \in Name, dfs_file_unlink(t, name)
    PROVE  FileInv'
<1>0. /\ FileInv /\ pc[t].at = "user" /\ fstab' = fstab
      /\ UNCHANGED <<fd_table, owned, live, wild>>
  BY DEF DfsInv, dfs_file_unlink, At
<1>1. PICK f : f = dfs_normalize_path(name)
  OBVIOUS
<1>2. PICK s : s = dfs_filesystem_lookup(f)
  OBVIOUS
<1>3. s # Null /\ fstab[s].vol # Null
  BY <1>1, <1>2 DEF dfs_file_unlink
<1>4. PICK p : p = dfs_subdir(s, f)
  OBVIOUS
<1>5. s \in Slot /\ p \in Parts
  BY <1>1, <1>2, <1>3, <1>4, LookupFacts
<1>6. PICK r : r = [Ready EXCEPT !.at = "unlink", !.fs = s, !.path = p]
  OBVIOUS
<1>7. Goto(t, r)
  BY <1>1, <1>2, <1>4, <1>6 DEF dfs_file_unlink
<1>8. r \in PcRec /\ r.at = "unlink" /\ r.fd = Null /\ r.refs = 0 /\ r.fs = s
  BY <1>5, <1>6, ReadyType DEF PcRec, Ready, Ats, Ops, Path
<1>9. /\ pc' \in [Thread \cup Admin -> PcRec] /\ pc'[t] = r
      /\ \A u \in Thread \cup Admin : u # t => pc'[u] = pc[u]
  BY <1>0, <1>7, <1>8, GotoFacts
<1>10. pc[t].fd = Null /\ pc[t].refs = 0
  BY <1>0, UserFacts
<1>11. ThreadOK(t)'
  BY <1>0, <1>3, <1>5, <1>8, <1>9 DEF ThreadOK, Mounted
<1>12. Calm
  BY <1>0, <1>8, <1>9, <1>10, <1>11 DEF Calm, Mounted
<1> QED  BY <1>0, <1>12, CalmStepOK

LEMMA UnlinkStep ==
    ASSUME DfsInv, NEW t \in Thread, Unlink(t)
    PROVE  FileInv'
<1>0. FileInv /\ pc[t].at = "unlink" /\ fstab' = fstab
  BY DEF DfsInv, Unlink, At
<1>1. pc[t].fd = Null /\ pc[t].refs = 0 /\ Mounted(pc[t].fs)
  BY <1>0, UserFacts
<1>2. fstab[pc[t].fs] # NoFs
  BY <1>1 DEF Mounted, NoFs
<1>3. Goto(t, Ready) /\ UNCHANGED <<fd_table, live, owned, wild>>
  BY <1>2 DEF Unlink
<1>4. Ready \in PcRec /\ Ready.at = "user" /\ Ready.fd = Null /\ Ready.refs = 0
  BY ReadyType DEF Ready
<1>5. /\ pc' \in [Thread \cup Admin -> PcRec] /\ pc'[t] = Ready
      /\ \A u \in Thread \cup Admin : u # t => pc'[u] = pc[u]
  BY <1>0, <1>3, <1>4, GotoFacts
<1>6. ThreadOK(t)'
  BY <1>4, <1>5 DEF ThreadOK
<1>7. Calm
  BY <1>0, <1>1, <1>3, <1>4, <1>5, <1>6 DEF Calm, Mounted
<1> QED  BY <1>0, <1>7, CalmStepOK

LEMMA ChdirStep ==
    ASSUME DfsInv, NEW t \in Thread, NEW name \in Name, chdir(t, name)
    PROVE  FileInv' /\ cwd' \in Parts
<1>0. FileInv /\ UNCHANGED <<fstab, fd_table, owned, live, wild, pc>>
  BY DEF DfsInv, chdir
<1>1. Calm
  BY <1>0 DEF Calm, Mounted, FileInv
<1>2. PICK f : f = dfs_normalize_path(name)
  OBVIOUS
<1>3. PICK s : s = dfs_filesystem_lookup(f)
  OBVIOUS
<1>4. s # Null /\ cwd' = f.parts
  BY <1>2, <1>3 DEF chdir
<1>5. f \in Name
  BY <1>2, <1>3, <1>4, LookupFacts
<1> QED  BY <1>0, <1>1, <1>4, <1>5, CalmStepOK DEF Name

\* What a step of a thread that uses files leaves alone.
LEMMA FileStepFrame ==
    ASSUME FileInv, NEW t \in Thread, FileStep(t)
    PROVE  /\ UNCHANGED <<fstab, disk, opened>> /\ (cwd' = cwd \/ \E name \in Given : chdir(t, name))
           /\ \A u \in Admin : pc'[u] = pc[u]
<1>0. \A u \in Admin : u # t /\ u \in Thread \cup Admin
  BY DfsAssumption
<1>1. pc \in [Thread \cup Admin -> PcRec]
  BY DEF FileInv
<1>2. ASSUME NEW r, Goto(t, r) PROVE \A u \in Admin : pc'[u] = pc[u]
  BY <1>0, <1>1, <1>2 DEF Goto
<1>3. ASSUME NEW name \in Given, NEW op, fd_new(t, op, name)
      PROVE  /\ UNCHANGED <<fstab, disk, opened, cwd>> /\ \A u \in Admin : pc'[u] = pc[u]
  <2>1. PICK r : Goto(t, r)
    BY <1>3 DEF fd_new
  <2> QED  BY <1>2, <1>3, <2>1 DEF fd_new
<1>4. ASSUME NEW name \in Given, dfs_file_unlink(t, name)
      PROVE  /\ UNCHANGED <<fstab, disk, opened, cwd>> /\ \A u \in Admin : pc'[u] = pc[u]
  <2>1. PICK r : Goto(t, r)
    BY <1>4 DEF dfs_file_unlink
  <2> QED  BY <1>2, <1>4, <2>1 DEF dfs_file_unlink
<1>5. ASSUME NEW name \in Given, chdir(t, name)
      PROVE  /\ UNCHANGED <<fstab, disk, opened>> /\ \A u \in Admin : pc'[u] = pc[u]
  BY <1>5 DEF chdir
<1>6. ASSUME NEW i \in Fd, fd_get(t, i)
      PROVE  /\ UNCHANGED <<fstab, disk, opened, cwd>> /\ \A u \in Admin : pc'[u] = pc[u]
  <2>1. PICK r : Goto(t, r)
    BY <1>6 DEF fd_get
  <2> QED  BY <1>2, <1>6, <2>1 DEF fd_get
<1>7. ASSUME NEW i \in Fd, Close(t, i)
      PROVE  /\ UNCHANGED <<fstab, disk, opened, cwd>> /\ \A u \in Admin : pc'[u] = pc[u]
  <2>1. PICK r : Goto(t, r)
    BY <1>7 DEF Close
  <2> QED  BY <1>2, <1>7, <2>1 DEF Close
<1>8. CASE OpenLookup(t)
  <2>1. PICK r : Goto(t, r)
    BY <1>8 DEF OpenLookup
  <2> QED  BY <1>2, <1>8, <2>1 DEF OpenLookup
<1>9. CASE OpenCall(t)
  <2>1. (\E r : Goto(t, r)) \/ pc' = pc
    BY <1>9 DEF OpenCall, Wild
  <2> QED  BY <1>2, <1>9, <2>1 DEF OpenCall
<1>10. CASE OpenDone(t)
  <2>1. PICK r : Goto(t, r)
    BY <1>10 DEF OpenDone
  <2> QED  BY <1>2, <1>10, <2>1 DEF OpenDone
<1>11. CASE Use(t)
  <2>1. (\E r : Goto(t, r)) \/ pc' = pc
    BY <1>11 DEF Use, Wild
  <2> QED  BY <1>2, <1>11, <2>1 DEF Use
<1>12. CASE CloseCall(t)
  <2>1. (\E r : Goto(t, r)) \/ pc' = pc
    BY <1>12 DEF CloseCall, Wild
  <2> QED  BY <1>2, <1>12, <2>1 DEF CloseCall
<1>13. CASE CloseDone(t)
  <2>1. PICK r : Goto(t, r)
    BY <1>13 DEF CloseDone
  <2> QED  BY <1>2, <1>13, <2>1 DEF CloseDone
<1>14. CASE Unlink(t)
  <2>1. (\E r : Goto(t, r)) \/ pc' = pc
    BY <1>14 DEF Unlink, Wild
  <2> QED  BY <1>2, <1>14, <2>1 DEF Unlink
<1> QED  BY <1>3, <1>4, <1>5, <1>6, <1>7, <1>8, <1>9, <1>10, <1>11, <1>12, <1>13, <1>14 DEF FileStep

LEMMA FileStepInv ==
    ASSUME DfsInv, Careful, NEW t \in Thread, FileStep(t)
    PROVE  DfsInv'
<1>0. FileInv /\ \A name \in Given : name \in Name
  BY DfsAssumption DEF DfsInv
<1>1. FileInv'
  BY <1>0, FdNewStep, FileUnlinkStep, ChdirStep, FdGetStep, CloseStep, OpenLookupStep, OpenCallStep,
     OpenDoneStep, UseStep, CloseCallStep, CloseDoneStep, UnlinkStep DEF FileStep
<1>2. /\ UNCHANGED <<fstab, disk, opened>> /\ (cwd' = cwd \/ \E name \in Given : chdir(t, name))
      /\ \A u \in Admin : pc'[u] = pc[u]
  BY <1>0, FileStepFrame
<1>3. cwd' \in Parts
  BY <1>0, <1>2, ChdirStep DEF DfsInv, SlotInv
<1>4. \A a \in Admin : AdminOK(a)'
  BY <1>2 DEF DfsInv, SlotInv, AdminOK
<1>5. SlotInv'
  BY <1>2, <1>3, <1>4 DEF DfsInv, SlotInv
<1> QED  BY <1>1, <1>5 DEF DfsInv

-----------------------------------------------------------------------------
(* Steps of the administrators.                                             *)

LEMMA GetDisk ==
    ASSUME NEW d, get_disk(d) # Null
    PROVE  get_disk(d) \in Vol /\ disk[get_disk(d)] = d
<1> DEFINE found == {v \in Vol : disk[v] = d}
<1>1. found # {} /\ get_disk(d) = Min(found)
  BY DEF get_disk
<1>2. found \subseteq Nat
  BY DfsAssumption DEF Vol
<1> HIDE DEF found
<1>3. Min(found) \in found
  BY <1>1, <1>2, MinProperties
<1> QED  BY <1>1, <1>3 DEF found

\* A step of t that concerns the entry x only, or none.
AdminFits(t, x) ==
    /\ fstab' \in [Slot -> FsRec] /\ cwd' = cwd
    /\ disk' \in [Vol -> Device \cup {Null}] /\ opened' \in [Device -> Nat]
    /\ pc' \in [Thread \cup Admin -> PcRec]
    /\ \A u \in Thread \cup Admin : u # t => pc'[u] = pc[u]
    /\ \A s \in Slot : s # x => fstab'[s] = fstab[s]
    /\ \A u \in Admin : u # t /\ pc[u].at \in Mounting => pc[u].fs # x
    /\ (pc[t].at \in Mounting => pc[t].fs = x) /\ (pc'[t].at \in Mounting => pc'[t].fs = x)
    /\ AdminOK(t)'
    /\ x \in Slot => /\ fstab'[x].path = Null => fstab'[x] = NoFs
                     /\ fstab'[x] # NoFs /\ fstab'[x].vol = Null => pc'[t].at \in Mounting
                     /\ Mounted(x) /\ Busy(x) => fstab'[x].vol # Null
    /\ UNCHANGED <<fd_table, owned, live, wild>>

LEMMA AdminStepOK ==
    ASSUME DfsInv, NEW t \in Admin, NEW x, AdminFits(t, x)
    PROVE  DfsInv'
<1>0. FileInv /\ SlotInv /\ \A u \in Thread : u # t
  BY DfsAssumption DEF DfsInv
<1>1. Calm
  BY <1>0 DEF Calm, AdminFits, Mounted
<1>2. FileInv'
  BY <1>0, <1>1, CalmStepOK
<1>3. ASSUME NEW u \in Admin PROVE AdminOK(u)'
  <2>1. CASE u = t
    BY <2>1 DEF AdminFits
  <2>2. CASE u # t
    <3>1. AdminOK(u) /\ pc'[u] = pc[u]
      BY <1>0, <2>2 DEF SlotInv, AdminFits
    <3>2. ASSUME pc[u].at \in Mounting, pc[u].fs \in Slot PROVE fstab'[pc[u].fs] = fstab[pc[u].fs]
      BY <2>2, <3>2 DEF AdminFits
    <3> QED  BY <3>1, <3>2 DEF AdminOK
  <2> QED  BY <2>1, <2>2
<1>4. ASSUME NEW s \in Slot, fstab'[s] # NoFs, fstab'[s].vol = Null
      PROVE  \E a \in Admin : pc'[a].at \in Mounting /\ pc'[a].fs = s
  <2>1. CASE s = x
    <3>1. pc'[t].at \in Mounting /\ pc'[t].fs = s
      BY <1>4, <2>1 DEF AdminFits
    <3> QED  BY <3>1
  <2>2. CASE s # x
    <3>1. fstab'[s] = fstab[s]
      BY <2>2 DEF AdminFits
    <3>2. PICK a \in Admin : pc[a].at \in Mounting /\ pc[a].fs = s
      BY <1>0, <1>4, <3>1 DEF SlotInv
    <3>3. a # t
      BY <2>2, <3>2 DEF AdminFits
    <3>4. pc'[a] = pc[a]
      BY <3>3 DEF AdminFits
    <3> QED  BY <3>2, <3>4
  <2> QED  BY <2>1, <2>2
<1>5. ASSUME NEW s \in Slot, fstab'[s].path = Null PROVE fstab'[s] = NoFs
  BY <1>0, <1>5 DEF SlotInv, AdminFits
<1>6. ASSUME NEW a \in Admin, NEW b \in Admin, pc'[a].at \in Mounting, pc'[b].at \in Mounting,
             pc'[a].fs = pc'[b].fs
      PROVE  a = b
  <2>1. \A u \in Admin : u # t => pc'[u] = pc[u]
    BY DEF AdminFits
  <2>2. CASE a # t /\ b # t
    BY <1>0, <1>6, <2>1, <2>2 DEF SlotInv
  <2>3. CASE a = t /\ b # t
    BY <1>6, <2>1, <2>3 DEF AdminFits
  <2>4. CASE a # t /\ b = t
    BY <1>6, <2>1, <2>4 DEF AdminFits
  <2> QED  BY <2>2, <2>3, <2>4
<1>7. SlotInv'
  <2>1. /\ fstab' \in [Slot -> FsRec] /\ cwd' \in Parts
        /\ disk' \in [Vol -> Device \cup {Null}] /\ opened' \in [Device -> Nat]
    BY <1>0 DEF SlotInv, AdminFits
  <2>2. \A u \in Admin : AdminOK(u)'
    BY <1>3
  <2>3. \A s \in Slot : fstab'[s].path = Null => fstab'[s] = NoFs
    BY <1>5
  <2>4. \A s \in Slot : fstab'[s] # NoFs /\ fstab'[s].vol = Null =>
           \E a \in Admin : pc'[a].at \in Mounting /\ pc'[a].fs = s
    BY <1>4
  <2>5. \A a, b \in Admin :
           pc'[a].at \in Mounting /\ pc'[b].at \in Mounting /\ pc'[a].fs = pc'[b].fs => a = b
    BY <1>6
  <2> QED  BY <2>1, <2>2, <2>3, <2>4, <2>5 DEF SlotInv
<1> QED  BY <1>2, <1>7 DEF DfsInv

LEMMA AdminFacts ==
    ASSUME DfsInv, NEW t \in Admin
    PROVE  /\ FileInv /\ pc[t] \in PcRec /\ AdminOK(t)
           /\ fstab \in [Slot -> FsRec] /\ disk \in [Vol -> Device \cup {Null}]
           /\ opened \in [Device -> Nat]
           /\ \A u \in Admin : pc[u].at \in Mounting => pc[u].fs # Null
           /\ pc[t].at \in Mounting =>
                 \A u \in Admin : u # t /\ pc[u].at \in Mounting => pc[u].fs # pc[t].fs
BY FdFacts DEF DfsInv, FileInv, SlotInv, AdminOK, Mounting

\* Steps that leave the entries alone.
LEMMA NoEntryOK ==
    ASSUME DfsInv, NEW t \in Admin, NEW r \in PcRec, Goto(t, r),
           pc[t].at \notin Mounting, r.at \notin Mounting,
           UNCHANGED <<fd_table, fstab, cwd, owned, live, wild>>,
           disk' \in [Vol -> Device \cup {Null}], opened' \in [Device -> Nat],
           \/ r.at = "user"
           \/ r.at = "register" /\ r.dev \in Device /\ r.name \in Name /\ r.path \in Parts
           \/ r.at = "format" /\ r.dev \in Device /\ r.vol \in Vol
    PROVE  DfsInv'
<1>0. FileInv /\ fstab \in [Slot -> FsRec] /\ \A u \in Admin : pc[u].at \in Mounting => pc[u].fs # Null
  BY AdminFacts
<1>1. /\ pc' \in [Thread \cup Admin -> PcRec] /\ pc'[t] = r
      /\ \A u \in Thread \cup Admin : u # t => pc'[u] = pc[u]
  BY <1>0, GotoFacts
<1>2. AdminOK(t)'
  BY <1>1 DEF AdminOK
<1>3. AdminFits(t, Null)
  BY <1>0, <1>1, <1>2, FdFacts DEF AdminFits
<1> QED  BY <1>3, AdminStepOK

\* Steps of a mount that leave its entry alone and go on.
LEMMA SameEntryOK ==
    ASSUME DfsInv, NEW t \in Admin, NEW r \in PcRec, Goto(t, r),
           pc[t].at \in Mounting, r.at \in Mounting, r.fs = pc[t].fs, r.dev = pc[t].dev,
           r.at \in {"install", "fat"} => r.vol \in Vol,
           UNCHANGED <<fd_table, fstab, cwd, owned, live, wild>>,
           disk' \in [Vol -> Device \cup {Null}], opened' \in [Device -> Nat]
    PROVE  DfsInv'
<1>1. PICK x : x = pc[t].fs
  OBVIOUS
<1>2. /\ FileInv /\ fstab \in [Slot -> FsRec] /\ AdminOK(t) /\ SlotInv
      /\ \A u \in Admin : u # t /\ pc[u].at \in Mounting => pc[u].fs # x
  BY <1>1, AdminFacts DEF DfsInv
<1>3. /\ pc' \in [Thread \cup Admin -> PcRec] /\ pc'[t] = r
      /\ \A u \in Thread \cup Admin : u # t => pc'[u] = pc[u]
  BY <1>2, GotoFacts
<1>4. x \in Slot /\ fstab[x] # NoFs /\ fstab[x].vol = Null /\ pc[t].dev \in Device
  BY <1>1, <1>2 DEF AdminOK, Mounting
<1>5. AdminOK(t)'
  BY <1>1, <1>3, <1>4 DEF AdminOK
<1>6. fstab[x].path = Null => fstab[x] = NoFs
  BY <1>2, <1>4 DEF SlotInv
<1>7. AdminFits(t, x)
  BY <1>1, <1>2, <1>3, <1>4, <1>5, <1>6 DEF AdminFits, Mounted
<1> QED  BY <1>7, AdminStepOK

\* Steps that end a mount: its entry gets v, or is cleared.
LEMMA LastEntryOK ==
    ASSUME DfsInv, NEW t \in Admin, NEW r \in PcRec, Goto(t, r), pc[t].at \in Mounting,
           r.at = "user", NEW e \in FsRec, fstab' = [fstab EXCEPT ![pc[t].fs] = e],
           e = NoFs \/ (e.path = fstab[pc[t].fs].path /\ e.vol # Null),
           UNCHANGED <<fd_table, cwd, owned, live, wild>>,
           disk' \in [Vol -> Device \cup {Null}], opened' \in [Device -> Nat]
    PROVE  DfsInv'
<1>1. PICK x : x = pc[t].fs
  OBVIOUS
<1>2. /\ FileInv /\ fstab \in [Slot -> FsRec] /\ AdminOK(t) /\ SlotInv
      /\ \A u \in Admin : u # t /\ pc[u].at \in Mounting => pc[u].fs # x
  BY <1>1, AdminFacts DEF DfsInv
<1>3. /\ pc' \in [Thread \cup Admin -> PcRec] /\ pc'[t] = r
      /\ \A u \in Thread \cup Admin : u # t => pc'[u] = pc[u]
  BY <1>2, GotoFacts
<1>4. x \in Slot /\ fstab[x] # NoFs /\ fstab[x].vol = Null /\ pc[t].dev \in Device
  BY <1>1, <1>2 DEF AdminOK, Mounting
<1>5. AdminOK(t)' /\ pc'[t].at \notin Mounting
  BY <1>3 DEF AdminOK, Mounting
<1>6. /\ fstab' \in [Slot -> FsRec] /\ fstab'[x] = e /\ \A s \in Slot : s # x => fstab'[s] = fstab[s]
  BY <1>1, <1>2, <1>4
<1>7. /\ e.path = Null => e = NoFs
      /\ e # NoFs /\ e.vol = Null => FALSE
  BY <1>1, <1>2, <1>4 DEF SlotInv
<1>8. AdminFits(t, x)
  BY <1>1, <1>2, <1>3, <1>4, <1>5, <1>6, <1>7 DEF AdminFits, Mounted
<1> QED  BY <1>8, AdminStepOK

LEMMA MountStep ==
    ASSUME DfsInv, NEW t \in Admin, NEW d \in Device, NEW name \in Name, dfs_mount(t, d, name)
    PROVE  DfsInv'
<1>0. /\ pc[t].at = "user" /\ UNCHANGED <<fd_table, fstab, disk, opened, cwd, owned, live, wild>>
  BY DEF dfs_mount, At
<1>1. PICK f : f = dfs_normalize_path(name)
  OBVIOUS
<1>2. f # Null
  BY <1>1 DEF dfs_mount
<1>3. f \in Name
  BY <1>1, <1>2, NormalizeType DEF DfsInv, SlotInv, Path
<1>4. PICK p : p = f.parts
  OBVIOUS
<1>5. p \in Parts
  BY <1>3, <1>4 DEF Name
<1>6. PICK r : r = [Ready EXCEPT !.at = "register", !.dev = d, !.name = name, !.path = p]
  OBVIOUS
<1>7. Goto(t, r)
  BY <1>1, <1>4, <1>6 DEF dfs_mount
<1>8. r \in PcRec /\ r.at = "register" /\ r.dev \in Device /\ r.name \in Name /\ r.path \in Parts
  BY <1>5, <1>6, ReadyType DEF PcRec, Ready, Ats, Ops, Path
<1>9. pc[t].at \notin Mounting /\ r.at \notin Mounting
  BY <1>0, <1>8 DEF Mounting
<1>10. disk' \in [Vol -> Device \cup {Null}] /\ opened' \in [Device -> Nat]
  BY <1>0, AdminFacts
<1> QED  BY <1>0, <1>7, <1>8, <1>9, <1>10, NoEntryOK

LEMMA MkfsStep ==
    ASSUME DfsInv, NEW t \in Admin, NEW d \in Device, dfs_mkfs(t, d)
    PROVE  DfsInv'
<1>0. /\ pc[t].at = "user" /\ UNCHANGED <<fd_table, fstab, cwd, owned, live, wild>>
  BY DEF dfs_mkfs, At
<1>1. PICK v : v = get_disk(Null)
  OBVIOUS
<1>2. v \in Vol /\ disk' = [disk EXCEPT ![v] = d]
  BY <1>1, GetDisk DEF dfs_mkfs
<1>3. PICK ok \in BOOLEAN :
          /\ opened' = [opened EXCEPT ![d] = IF ok THEN opened[d] + 1 ELSE opened[d]]
          /\ Goto(t, [Ready EXCEPT !.at = "format", !.dev = d, !.vol = v, !.ok = ok])
  BY <1>1 DEF dfs_mkfs
<1>4. PICK r : r = [Ready EXCEPT !.at = "format", !.dev = d, !.vol = v, !.ok = ok]
  OBVIOUS
<1>5. r \in PcRec /\ r.at = "format" /\ r.dev \in Device /\ r.vol \in Vol
  BY <1>2, <1>4, ReadyType DEF PcRec, Ready, Ats, Ops, Path
<1>6. pc[t].at \notin Mounting /\ r.at \notin Mounting
  BY <1>0, <1>5 DEF Mounting
<1>7. disk' \in [Vol -> Device \cup {Null}] /\ opened' \in [Device -> Nat]
  BY <1>2, <1>3, AdminFacts
<1>8. Goto(t, r)
  BY <1>3, <1>4
<1> QED  BY <1>0, <1>5, <1>6, <1>7, <1>8, NoEntryOK

LEMMA CloseType ==
    ASSUME DfsInv, NEW d
    PROVE  DeviceClose(d) \in [Device -> Nat]
<1>1. opened \in [Device -> Nat]
  BY DEF DfsInv, SlotInv
<1>2. d \in Device => opened[d] \in Nat /\ (IF opened[d] = 0 THEN 0 ELSE opened[d] - 1) \in Nat
  BY <1>1
<1> QED  BY <1>1, <1>2 DEF DeviceClose

LEMMA MkfsDoneStep ==
    ASSUME DfsInv, NEW t \in Admin, MkfsDone(t)
    PROVE  DfsInv'
<1>0. /\ pc[t].at = "format" /\ UNCHANGED <<fd_table, fstab, cwd, owned, live, wild>> /\ Goto(t, Ready)
      /\ disk' = [disk EXCEPT ![pc[t].vol] = Null] /\ opened' = DeviceClose(pc[t].dev)
  BY DEF MkfsDone, At
<1>1. Ready \in PcRec /\ Ready.at = "user"
  BY ReadyType DEF Ready
<1>2. pc[t].at \notin Mounting /\ Ready.at \notin Mounting
  BY <1>0, <1>1 DEF Mounting
<1>3. disk' \in [Vol -> Device \cup {Null}] /\ opened' \in [Device -> Nat]
  BY <1>0, AdminFacts, CloseType
<1> QED  BY <1>0, <1>1, <1>2, <1>3, NoEntryOK

LEMMA MountRegisterStep ==
    ASSUME DfsInv, NEW t \in Admin, MountRegister(t)
    PROVE  DfsInv'
<1> DEFINE free == {s \in Slot : fstab[s] = NoFs}
           taken == \E s \in Slot : fstab[s].path # Null /\ pc[t].name.abs
                                    /\ fstab[s].path = pc[t].name.parts
<1>0. /\ pc[t].at = "register" /\ UNCHANGED <<fd_table, disk, opened, cwd, owned, live, wild>>
  BY DEF MountRegister, At
<1>1. /\ FileInv /\ pc[t] \in PcRec /\ AdminOK(t) /\ fstab \in [Slot -> FsRec]
      /\ disk' \in [Vol -> Device \cup {Null}] /\ opened' \in [Device -> Nat] /\ SlotInv
  BY <1>0, AdminFacts DEF DfsInv
<1>2. pc[t].at \notin Mounting
  BY <1>0 DEF Mounting
<1>3. pc[t].dev \in Device /\ pc[t].path \in Parts
  BY <1>0, <1>1 DEF AdminOK, Mounting
<1>4. CASE free = {} \/ taken
  <2>1. Goto(t, Ready) /\ fstab' = fstab
    BY <1>4 DEF MountRegister
  <2>2. Ready \in PcRec /\ Ready.at = "user"
    BY ReadyType DEF Ready
  <2>3. Ready.at \notin Mounting
    BY <2>2 DEF Mounting
  <2> QED  BY <1>0, <1>1, <1>2, <2>1, <2>2, <2>3, NoEntryOK
<1>5. CASE ~(free = {} \/ taken)
  <2>1. PICK x : x = Min(free)
    OBVIOUS
  <2>2. x \in Slot /\ fstab[x] = NoFs
    <3>1. free \subseteq Nat
      BY DfsAssumption DEF Slot
    <3>2. Min(free) \in free
      BY <1>5, <3>1, MinProperties
    <3> QED  BY <2>1, <3>2
  <2>3. PICK e : e = [path |-> pc[t].path, dev |-> pc[t].dev, vol |-> Null]
    OBVIOUS
  <2>4. PICK r : r = AtFs(pc[t], "device", x)
    OBVIOUS
  <2>5. fstab' = [fstab EXCEPT ![x] = e] /\ Goto(t, r)
    BY <1>5, <2>1, <2>3, <2>4 DEF MountRegister, AtFs
  <2>6. "device" \in Ats
    BY DEF Ats
  <2>7. r \in PcRec /\ r.at = "device" /\ r.fs = x
    BY <1>1, <2>2, <2>4, <2>6, PcFs
  <2>7a. r.dev = pc[t].dev
    BY <1>1, <2>4 DEF AtFs, PcRec
  <2>8. e \in FsRec /\ e.path \in Parts /\ e.vol = Null
    BY <1>3, <2>3 DEF FsRec
  <2>9. e # NoFs /\ e.path # Null
    BY <2>8, DfsAssumption DEF NoFs
  <2>10. /\ pc' \in [Thread \cup Admin -> PcRec] /\ pc'[t] = r
         /\ \A u \in Thread \cup Admin : u # t => pc'[u] = pc[u]
    <3> HIDE DEF free, taken
    <3>1. FileInv /\ r \in PcRec /\ Goto(t, r)
      BY <1>1, <2>5, <2>7
    <3> QED  BY <3>1, GotoFacts
  <2>11. /\ fstab' \in [Slot -> FsRec] /\ fstab'[x] = e /\ \A s \in Slot : s # x => fstab'[s] = fstab[s]
    BY <1>1, <2>2, <2>5, <2>8
  <2>12. AdminOK(t)' /\ pc'[t].at \in Mounting
    BY <1>3, <2>2, <2>7, <2>7a, <2>8, <2>9, <2>10, <2>11 DEF AdminOK, Mounting
  <2>13. \A u \in Admin : u # t /\ pc[u].at \in Mounting => pc[u].fs # x
    BY <1>1, <2>2 DEF SlotInv, AdminOK, Mounting
  <2>14. ~Mounted(x)
    BY <2>2 DEF Mounted, NoFs
  <2>15. AdminFits(t, x)
    BY <1>0, <1>1, <1>2, <2>2, <2>7, <2>9, <2>10, <2>11, <2>12, <2>13, <2>14 DEF AdminFits
  <2> QED  BY <2>15, AdminStepOK
<1> QED  BY <1>4, <1>5

LEMMA MountDeviceStep ==
    ASSUME DfsInv, NEW t \in Admin, MountDevice(t)
    PROVE  DfsInv'
<1>0. /\ pc[t].at = "device" /\ UNCHANGED <<fd_table, disk, cwd, owned, live, wild>>
  BY DEF MountDevice, At
<1>1. /\ pc[t] \in PcRec /\ AdminOK(t) /\ opened \in [Device -> Nat]
      /\ disk' \in [Vol -> Device \cup {Null}]
  BY <1>0, AdminFacts
<1>2. pc[t].at \in Mounting
  BY <1>0 DEF Mounting
<1>3. ASSUME opened' = [opened EXCEPT ![pc[t].dev] = opened[pc[t].dev] + 1],
             Goto(t, [pc[t] EXCEPT !.at = "claim"]), fstab' = fstab
      PROVE  DfsInv'
  <2>1. PICK r : r = At1(pc[t], "claim")
    OBVIOUS
  <2>2. Goto(t, r)
    BY <1>3, <2>1 DEF At1
  <2>3. "claim" \in Ats /\ "claim" \in Mounting
    BY DEF Ats, Mounting
  <2>4. r \in PcRec /\ r.at = "claim"
    BY <1>1, <2>1, <2>3, PcAt
  <2>5. r.fs = pc[t].fs /\ r.dev = pc[t].dev
    BY <1>1, <2>1 DEF At1, PcRec
  <2>6. opened' \in [Device -> Nat]
    <3>1. pc[t].dev \in Device
      BY <1>0, <1>1 DEF AdminOK
    <3>2. opened[pc[t].dev] + 1 \in Nat
      BY <1>1, <3>1
    <3> QED  BY <1>1, <1>3, <3>1, <3>2
  <2> QED  BY <1>0, <1>1, <1>2, <1>3, <2>2, <2>3, <2>4, <2>5, <2>6, SameEntryOK
<1>4. ASSUME fstab' = [fstab EXCEPT ![pc[t].fs] = NoFs], Goto(t, Ready), opened' = opened
      PROVE  DfsInv'
  <2>1. Ready \in PcRec /\ Ready.at = "user" /\ NoFs \in FsRec
    BY ReadyType DEF Ready
  <2> QED  BY <1>0, <1>1, <1>2, <1>4, <2>1, LastEntryOK
<1> QED  BY <1>3, <1>4 DEF MountDevice

AtVol(p, a, v) == [p EXCEPT !.at = a, !.vol = v]

LEMMA PcVol ==
    ASSUME NEW p \in PcRec, NEW a \in Ats, NEW v \in Vol \cup {Null}
    PROVE  /\ AtVol(p, a, v) \in PcRec /\ AtVol(p, a, v).at = a /\ AtVol(p, a, v).fs = p.fs
           /\ AtVol(p, a, v).dev = p.dev /\ AtVol(p, a, v).vol = v
BY DEF PcRec, AtVol

LEMMA MountClaimStep ==
    ASSUME DfsInv, NEW t \in Admin, MountClaim(t)
    PROVE  DfsInv'
<1>0. /\ pc[t].at = "claim" /\ UNCHANGED <<fd_table, fstab, disk, opened, cwd, owned, live, wild>>
  BY DEF MountClaim, At
<1>1. /\ pc[t] \in PcRec /\ opened' \in [Device -> Nat] /\ disk' \in [Vol -> Device \cup {Null}]
  BY <1>0, AdminFacts
<1>2. pc[t].at \in Mounting
  BY <1>0 DEF Mounting
<1>3. PICK v : v = get_disk(Null)
  OBVIOUS
<1>4. v \in Vol \cup {Null}
  BY <1>3, GetDisk
<1>5. PICK a : a = IF v = Null THEN "undo" ELSE "install"
  OBVIOUS
<1>6. a \in Ats /\ a \in Mounting /\ (a \in {"install", "fat"} => v # Null)
  BY <1>5 DEF Ats, Mounting
<1>7. PICK r : r = AtVol(pc[t], a, v)
  OBVIOUS
<1>8. Goto(t, r)
  BY <1>3, <1>5, <1>7 DEF MountClaim, AtVol
<1>9. r \in PcRec /\ r.at = a /\ r.fs = pc[t].fs /\ r.dev = pc[t].dev /\ r.vol = v
  BY <1>1, <1>4, <1>6, <1>7, PcVol
<1>10. r.at \in {"install", "fat"} => r.vol \in Vol
  BY <1>4, <1>6, <1>9
<1> QED  BY <1>0, <1>1, <1>2, <1>6, <1>8, <1>9, <1>10, SameEntryOK

LEMMA MountInstallStep ==
    ASSUME DfsInv, NEW t \in Admin, MountInstall(t)
    PROVE  DfsInv'
<1>0. /\ pc[t].at = "install" /\ UNCHANGED <<fd_table, fstab, opened, cwd, owned, live, wild>>
      /\ disk' = [disk EXCEPT ![pc[t].vol] = pc[t].dev]
  BY DEF MountInstall, At
<1>1. /\ pc[t] \in PcRec /\ AdminOK(t) /\ opened' \in [Device -> Nat]
      /\ disk \in [Vol -> Device \cup {Null}]
  BY <1>0, AdminFacts
<1>2. pc[t].at \in Mounting /\ pc[t].dev \in Device /\ pc[t].vol \in Vol
  BY <1>0, <1>1 DEF Mounting, AdminOK
<1>3. disk' \in [Vol -> Device \cup {Null}]
  BY <1>0, <1>1, <1>2
<1>4. PICK a : a = IF pc[t].dev \in BigSector THEN "undo" ELSE "fat"
  OBVIOUS
<1>5. a \in Ats /\ a \in Mounting
  BY <1>4 DEF Ats, Mounting
<1>6. PICK r : r = At1(pc[t], a)
  OBVIOUS
<1>7. Goto(t, r)
  BY <1>4, <1>6 DEF MountInstall, At1
<1>8. r \in PcRec /\ r.at = a
  BY <1>1, <1>5, <1>6, PcAt
<1>9. r.fs = pc[t].fs /\ r.dev = pc[t].dev /\ r.vol = pc[t].vol
  BY <1>1, <1>6 DEF At1, PcRec
<1>10. r.at \in {"install", "fat"} => r.vol \in Vol
  BY <1>2, <1>9
<1> QED  BY <1>0, <1>1, <1>2, <1>3, <1>5, <1>7, <1>8, <1>9, <1>10, SameEntryOK

LEMMA MountFatStep ==
    ASSUME DfsInv, NEW t \in Admin, MountFat(t)
    PROVE  DfsInv'
<1>0. /\ pc[t].at = "fat" /\ UNCHANGED <<fd_table, opened, cwd, owned, live, wild>>
  BY DEF MountFat, At
<1>1. /\ pc[t] \in PcRec /\ AdminOK(t) /\ opened' \in [Device -> Nat]
      /\ disk \in [Vol -> Device \cup {Null}] /\ fstab \in [Slot -> FsRec]
  BY <1>0, AdminFacts
<1>2. pc[t].at \in Mounting /\ pc[t].vol \in Vol /\ pc[t].fs \in Slot
  BY <1>0, <1>1 DEF Mounting, AdminOK
<1>3. ASSUME fstab' = [fstab EXCEPT ![pc[t].fs].vol = pc[t].vol], Goto(t, Ready), disk' = disk
      PROVE  DfsInv'
  <2>1. PICK d, v : d = fstab[pc[t].fs] /\ v = pc[t].vol
    OBVIOUS
  <2>2. PICK e : e = [d EXCEPT !.vol = v]
    OBVIOUS
  <2>3. d \in FsRec /\ v \in Vol
    BY <1>1, <1>2, <2>1
  <2>4. e \in FsRec /\ e.path = d.path /\ e.vol = v
    BY <2>2, <2>3 DEF FsRec
  <2>5. e.path = fstab[pc[t].fs].path /\ e.vol # Null
    BY <2>1, <2>3, <2>4, FdFacts
  <2>6. fstab' = [fstab EXCEPT ![pc[t].fs] = e]
    BY <1>3, <2>1, <2>2
  <2>7. Ready \in PcRec /\ Ready.at = "user"
    BY ReadyType DEF Ready
  <2>8. disk' \in [Vol -> Device \cup {Null}]
    BY <1>1, <1>3
  <2> QED  BY <1>0, <1>1, <1>2, <1>3, <2>4, <2>5, <2>6, <2>7, <2>8, LastEntryOK
<1>4. ASSUME disk' = [disk EXCEPT ![pc[t].vol] = Null], Goto(t, [pc[t] EXCEPT !.at = "undo"]),
             fstab' = fstab
      PROVE  DfsInv'
  <2>1. PICK r : r = At1(pc[t], "undo")
    OBVIOUS
  <2>2. Goto(t, r)
    BY <1>4, <2>1 DEF At1
  <2>3. "undo" \in Ats /\ "undo" \in Mounting /\ "undo" \notin {"install", "fat"}
    BY DEF Ats, Mounting
  <2>4. r \in PcRec /\ r.at = "undo"
    BY <1>1, <2>1, <2>3, PcAt
  <2>5. r.fs = pc[t].fs /\ r.dev = pc[t].dev
    BY <1>1, <2>1 DEF At1, PcRec
  <2>6. disk' \in [Vol -> Device \cup {Null}]
    BY <1>1, <1>4
  <2> QED  BY <1>0, <1>1, <1>2, <1>4, <2>2, <2>3, <2>4, <2>5, <2>6, SameEntryOK
<1> QED  BY <1>3, <1>4 DEF MountFat

LEMMA MountUndoStep ==
    ASSUME DfsInv, NEW t \in Admin, MountUndo(t)
    PROVE  DfsInv'
<1>0. /\ pc[t].at = "undo" /\ UNCHANGED <<fd_table, disk, cwd, owned, live, wild>> /\ Goto(t, Ready)
      /\ fstab' = [fstab EXCEPT ![pc[t].fs] = NoFs] /\ opened' = DeviceClose(pc[t].dev)
  BY DEF MountUndo, At
<1>1. disk' \in [Vol -> Device \cup {Null}] /\ opened' \in [Device -> Nat]
  BY <1>0, AdminFacts, CloseType
<1>2. pc[t].at \in Mounting /\ Ready \in PcRec /\ Ready.at = "user" /\ NoFs \in FsRec
  BY <1>0, ReadyType DEF Mounting, Ready
<1> QED  BY <1>0, <1>1, <1>2, LastEntryOK

LEMMA UnmountStep ==
    ASSUME DfsInv, Careful, NEW t \in Admin, NEW name \in Name, dfs_unmount(t, name)
    PROVE  DfsInv'
<1>0. /\ pc[t].at = "user" /\ UNCHANGED <<fd_table, cwd, owned, live, pc>>
  BY DEF dfs_unmount, At
<1>1. PICK f : f = dfs_normalize_path(name)
  OBVIOUS
<1>2. f # Null
  BY <1>1 DEF dfs_unmount
<1>3. f \in Name
  BY <1>1, <1>2, NormalizeType DEF DfsInv, SlotInv, Path
<1> DEFINE found == {s \in Slot : f # Null /\ fstab[s].path = f.parts}
<1>4. found # {}
  BY <1>1 DEF dfs_unmount
<1>5. PICK x : x = Min(found)
  OBVIOUS
<1>6. x \in Slot /\ fstab[x].path = f.parts
  <2>1. found \subseteq Nat
    BY DfsAssumption DEF Slot
  <2>2. Min(found) \in found
    BY <1>4, <2>1, MinProperties
  <2> QED  BY <1>5, <2>2
<1>7. /\ ~Busy(x)
      /\ \/ fstab[x].vol = Null
         \/ /\ disk' = [disk EXCEPT ![get_disk(fstab[x].dev)] = Null]
            /\ opened' = DeviceClose(fstab[x].dev)
            /\ fstab' = [fstab EXCEPT ![x] = NoFs]
            /\ wild' = wild
  BY <1>1, <1>5 DEF dfs_unmount
<1> HIDE DEF found
<1>8. FileInv /\ SlotInv
  BY DEF DfsInv
<1>9. fstab[x].vol # Null
  <2>1. fstab[x] # NoFs
    <3>1. fstab[x].path # Null
      BY <1>3, <1>6, DfsAssumption DEF Name
    <3> QED  BY <3>1 DEF NoFs
  <2>2. ~\E a \in Admin : pc[a].fs = x
    BY <1>7 DEF Busy
  <2> QED  BY <1>6, <1>8, <2>1, <2>2 DEF SlotInv
<1>10. /\ disk' \in [Vol -> Device \cup {Null}] /\ opened' \in [Device -> Nat] /\ wild' = wild
       /\ fstab' = [fstab EXCEPT ![x] = NoFs]
  BY <1>7, <1>8, <1>9, CloseType DEF SlotInv
<1>11. fstab' \in [Slot -> FsRec] /\ fstab'[x] = NoFs /\ \A s \in Slot : s # x => fstab'[s] = fstab[s]
  BY <1>6, <1>8, <1>10, ReadyType DEF SlotInv
<1>12. \A u \in Admin : pc[u].fs # x
  BY <1>7 DEF Busy
<1>13. AdminOK(t)' /\ pc[t].at \notin Mounting
  BY <1>0 DEF AdminOK, Mounting
<1>14. AdminFits(t, x)
  BY <1>0, <1>6, <1>7, <1>8, <1>10, <1>11, <1>12, <1>13 DEF AdminFits, FileInv
<1> QED  BY <1>14, AdminStepOK

LEMMA AdminStepInv ==
    ASSUME DfsInv, Careful, NEW t \in Admin, AdminStep(t)
    PROVE  DfsInv'
<1>0. \A name \in MountNames : name \in Name
  BY DfsAssumption
<1> QED  BY <1>0, MountStep, UnmountStep, MkfsStep, MountRegisterStep, MountDeviceStep, MountClaimStep,
     MountInstallStep, MountFatStep, MountUndoStep, MkfsDoneStep DEF AdminStep

LEMMA DfsInvInit == Init => DfsInv
<1> SUFFICES ASSUME Init PROVE DfsInv
  OBVIOUS
<1>1. \A t \in Thread \cup Admin : pc[t] = Ready /\ pc[t].at = "user" /\ pc[t].fd = Null /\ pc[t].refs = 0
  BY DEF Init, Ready
<1>2. \A i \in Fd : fd_table[i] = NoFd /\ fd_table[i].ref = 0 /\ fd_table[i].path = Null /\ fd_table[i].data = "none"
  BY DEF Init, NoFd
<1>3. fd_table \in [Fd -> FdRec] /\ owned \subseteq Fd /\ pc \in [Thread \cup Admin -> PcRec] /\ ~wild
  BY ReadyType DEF Init
<1>4. \A t \in Thread : ThreadOK(t)
  BY <1>1 DEF ThreadOK
<1>5. ASSUME NEW i \in Fd PROVE FdOK(i)
  <2>1. HeldIn(pc, i) = 0
    BY <1>1, FdFacts, HeldNone
  <2>2. i \notin owned
    BY DEF Init
  <2> QED  BY <1>2, <2>1, <2>2 DEF FdOK
<1>6. WithPath = {} /\ WithData = {} /\ live = 0
  BY <1>2 DEF WithPath, WithData, Init
<1>7. FileInv
  BY <1>3, <1>4, <1>5, <1>6, FS_EmptySet DEF FileInv
<1>8. \A s \in Slot : fstab[s] = NoFs /\ fstab[s].path = Null
  BY DEF Init, NoFs
<1>9. fstab \in [Slot -> FsRec] /\ disk \in [Vol -> Device \cup {Null}] /\ opened \in [Device -> Nat]
  BY ReadyType DEF Init
<1>10. cwd \in Parts
  BY DEF Init, Parts
<1>11. \A a \in Admin : AdminOK(a) /\ pc[a].at \notin Mounting
  BY <1>1 DEF AdminOK, Mounting
<1>12. SlotInv
  BY <1>8, <1>9, <1>10, <1>11 DEF SlotInv
<1> QED  BY <1>7, <1>12 DEF DfsInv

\* Files and mounts stay consistent, if programs are careful.
THEOREM DfsInvariance == ASSUME Careful PROVE Spec => []DfsInv
<1>1. ASSUME DfsInv, [Next]_vars PROVE DfsInv'
  <2>1. CASE Next
    BY <1>1, <2>1, FileStepInv, AdminStepInv DEF Next
  <2>2. CASE UNCHANGED vars
    <3>1. /\ fd_table' = fd_table /\ fstab' = fstab /\ disk' = disk /\ opened' = opened /\ cwd' = cwd
          /\ owned' = owned /\ live' = live /\ wild' = wild /\ pc' = pc
      BY <2>2 DEF vars
    <3>2. Calm
      BY <1>1, <3>1 DEF Calm, DfsInv, FileInv, Mounted
    <3>3. FileInv'
      BY <1>1, <3>2, CalmStepOK DEF DfsInv
    <3>4. SlotInv'
      BY <1>1, <3>1 DEF DfsInv, SlotInv, AdminOK
    <3> QED  BY <3>3, <3>4 DEF DfsInv
  <2> QED  BY <1>1, <2>1, <2>2
<1> QED  BY <1>1, DfsInvInit, PTL DEF Spec

\* A descriptor has as many references as there are programs and calls that may use it,
\* what is on the heap for descriptors belongs to one, and no call meets an object that
\* is gone (fd_new, fd_get, fd_put, dfs_file_open, dfs_file_close), for any number of
\* threads, administrators, descriptors, volumes and devices.
THEOREM DescriptorsCountedInvariance == ASSUME Careful PROVE Spec => []DescriptorsCounted
<1>1. ASSUME DfsInv PROVE DescriptorsCounted
  <2>1. FileInv
    BY <1>1 DEF DfsInv
  <2>2. \A i \in Fd : fd_table[i].ref = Held(i) + IF i \in owned THEN 1 ELSE 0
    BY <2>1, HeldIsHeldIn DEF FileInv, FdOK
  <2> QED  BY <2>1, <2>2 DEF DescriptorsCounted, FileInv, WithPath, WithData
<1> QED  BY <1>1, DfsInvariance, PTL

-----------------------------------------------------------------------------
(* Removing files.                                                          *)

\* No descriptor has the path that a thread is about to remove.
UnlinkOK ==
    \A t \in Thread : pc[t].at = "unlink" =>
        /\ pc[t].path \in Parts
        /\ pc[t].path # <<"/">> =>
              \A i \in Fd : ~(fd_table[i].fs = pc[t].fs /\ fd_table[i].path = pc[t].path)

\* A step in which no descriptor gets a path.
PathsKept ==
    \A i \in Fd : \/ fd_table'[i].path = Null
                  \/ fd_table'[i].path = fd_table[i].path /\ fd_table'[i].fs = fd_table[i].fs

LEMMA ChangeKept ==
    ASSUME FileInv, NEW i, NEW e, fd_table' = [fd_table EXCEPT ![i] = e],
           e.path = Null \/ (i \in Fd => e.path = fd_table[i].path /\ e.fs = fd_table[i].fs)
    PROVE  PathsKept
BY DEF PathsKept, FileInv

LEMMA PutKept ==
    ASSUME NEW e \in FdRec
    PROVE  fd_put(e).path = Null \/ (fd_put(e).path = e.path /\ fd_put(e).fs = e.fs)
<1>1. CASE e.ref = 1
  BY <1>1 DEF fd_put, NoFd
<1>2. CASE e.ref # 1
  <2>1. fd_put(e) = [e EXCEPT !.ref = e.ref - 1]
    BY <1>2 DEF fd_put
  <2> QED  BY <2>1 DEF FdRec
<1> QED  BY <1>1, <1>2

\* A step of t in which no descriptor gets a path and t does not start to remove one.
LEMMA UnlinkKept ==
    ASSUME DfsInv, UnlinkOK, NEW t, PathsKept,
           \A u \in Thread : u # t => pc'[u] = pc[u],
           t \in Thread => pc'[t].at # "unlink"
    PROVE  UnlinkOK'
<1> SUFFICES ASSUME NEW u \in Thread, pc'[u].at = "unlink"
             PROVE  /\ pc'[u].path \in Parts
                    /\ pc'[u].path # <<"/">> =>
                          \A i \in Fd : ~(fd_table'[i].fs = pc'[u].fs /\ fd_table'[i].path = pc'[u].path)
  BY DEF UnlinkOK
<1>1. pc'[u] = pc[u]
  OBVIOUS
<1>2. /\ pc[u].path \in Parts
      /\ pc[u].path # <<"/">> =>
              \A i \in Fd : ~(fd_table[i].fs = pc[u].fs /\ fd_table[i].path = pc[u].path)
  BY <1>1 DEF UnlinkOK
<1>3. ASSUME NEW i \in Fd, pc[u].path # <<"/">>
      PROVE  ~(fd_table'[i].fs = pc[u].fs /\ fd_table'[i].path = pc[u].path)
  <2>1. CASE fd_table'[i].path = Null
    BY <1>2, <2>1, DfsAssumption
  <2>2. CASE fd_table'[i].path = fd_table[i].path /\ fd_table'[i].fs = fd_table[i].fs
    BY <1>2, <1>3, <2>2
  <2> QED  BY <2>1, <2>2 DEF PathsKept
<1> QED  BY <1>1, <1>2, <1>3

LEMMA GotoOthers ==
    ASSUME FileInv, NEW t \in Thread \cup Admin, NEW r, Goto(t, r)
    PROVE  pc'[t] = r /\ \A u \in Thread \cup Admin : u # t => pc'[u] = pc[u]
BY DEF FileInv, Goto

LEMMA OpenLookupUnlink ==
    ASSUME DfsInv, UnlinkOK, Careful, NEW t \in Thread, OpenLookup(t)
    PROVE  UnlinkOK'
<1>0. FileInv /\ pc[t].at = "lookup"
  BY DEF DfsInv, OpenLookup, At
<1>1. PICK i : i = pc[t].fd
  OBVIOUS
<1>2. PICK f : f = dfs_normalize_path(pc[t].name)
  OBVIOUS
<1>3. PICK s : s = dfs_filesystem_lookup(f)
  OBVIOUS
<1>4. i \in Fd /\ pc[t] \in PcRec /\ fd_table[i] \in FdRec /\ Stage(pc[t], fd_table[i])
  BY <1>0, <1>1, MyFacts
<1>5. "open" \in Ats /\ "opened" \in Ats /\ FALSE \in BOOLEAN
  BY DEF Ats
<1>7. CASE s = Null
  <2>1. PICK r : r = AtOk(pc[t], "opened", FALSE)
    OBVIOUS
  <2>2. Goto(t, r) /\ fd_table' = fd_table
    BY <1>2, <1>3, <1>7, <2>1 DEF OpenLookup, AtOk
  <2>3. r.at = "opened"
    BY <1>4, <1>5, <2>1, PcOk
  <2>4. PathsKept
    BY <2>2 DEF PathsKept
  <2>5. pc'[t] = r /\ \A u \in Thread : u # t => pc'[u] = pc[u]
    BY <1>0, <2>2, GotoOthers
  <2>6. pc'[t].at # "unlink"
    BY <2>3, <2>5
  <2> QED  BY <2>4, <2>5, <2>6, UnlinkKept
<1>8. CASE s # Null
  <2>1. PICK p : p = dfs_subdir(s, f)
    OBVIOUS
  <2>2. PICK r : r = AtFs(pc[t], "open", s)
    OBVIOUS
  <2>3. PICK e : e = [fd_table[i] EXCEPT !.fs = s, !.path = p, !.dir = FALSE]
    OBVIOUS
  <2>4. Goto(t, r) /\ fd_table' = [fd_table EXCEPT ![i] = e] /\ Settled(s, p)
    <3>1. fd_table' = [fd_table EXCEPT ![i] = [fd_table[i] EXCEPT !.fs = s, !.path = p, !.dir = FALSE]]
      BY <1>1, <1>2, <1>3, <1>8, <2>1 DEF OpenLookup
    <3>2. Goto(t, r) /\ Settled(s, p)
      BY <1>2, <1>3, <1>8, <2>1, <2>2 DEF OpenLookup, AtFs
    <3> QED  BY <3>1, <3>2, <2>3
  <2>5. s \in Slot
    <3>1. pc[t].name \in Name
      BY <1>0, <1>4 DEF Stage
    <3> QED  BY <3>1, <1>2, <1>3, <1>8, LookupFacts
  <2>6. r.at = "open"
    BY <1>4, <1>5, <2>2, <2>5, PcFs
  <2>7. e.fs = s /\ e.path = p
    BY <1>4, <2>3 DEF FdRec
  <2>8. pc'[t] = r /\ \A u \in Thread : u # t => pc'[u] = pc[u]
    BY <1>0, <2>4, GotoOthers
  <2>9. fd_table'[i] = e /\ \A j \in Fd : j # i => fd_table'[j] = fd_table[j]
    BY <1>0, <1>4, <2>4 DEF FileInv
  <2>10. \A u \in Thread : ~(pc[u].at = "unlink" /\ pc[u].fs = s /\ pc[u].path = p)
    BY <2>4 DEF Settled
  <2>11. ASSUME NEW u \in Thread, pc'[u].at = "unlink"
         PROVE  /\ pc'[u].path \in Parts
                /\ pc'[u].path # <<"/">> =>
                      \A j \in Fd : ~(fd_table'[j].fs = pc'[u].fs /\ fd_table'[j].path = pc'[u].path)
    <3>1. pc'[u] = pc[u]
      BY <2>6, <2>8, <2>11
    <3>2. /\ pc[u].path \in Parts
          /\ pc[u].path # <<"/">> =>
              \A j \in Fd : ~(fd_table[j].fs = pc[u].fs /\ fd_table[j].path = pc[u].path)
      BY <2>11, <3>1 DEF UnlinkOK
    <3> QED  BY <2>7, <2>9, <2>10, <2>11, <3>1, <3>2
  <2> QED  BY <2>11 DEF UnlinkOK
<1> QED  BY <1>7, <1>8

LEMMA FileUnlinkUnlink ==
    ASSUME DfsInv, UnlinkOK, Careful, NEW t \in Thread, NEW name \in Name, dfs_file_unlink(t, name)
    PROVE  UnlinkOK'
<1>0. FileInv /\ fd_table' = fd_table
  BY DEF DfsInv, dfs_file_unlink
<1>1. PICK f : f = dfs_normalize_path(name)
  OBVIOUS
<1>2. PICK s : s = dfs_filesystem_lookup(f)
  OBVIOUS
<1>3. s # Null /\ ~fd_is_open(f)
  BY <1>1, <1>2 DEF dfs_file_unlink
<1>4. PICK p : p = dfs_subdir(s, f)
  OBVIOUS
<1>5. s \in Slot /\ p \in Parts /\ (f.parts = fstab[s].path => p = <<"/">>)
  BY <1>1, <1>2, <1>3, <1>4, LookupFacts
<1>6. PICK r : r = [Ready EXCEPT !.at = "unlink", !.fs = s, !.path = p]
  OBVIOUS
<1>7. Goto(t, r)
  BY <1>1, <1>2, <1>4, <1>6 DEF dfs_file_unlink
<1>8. r.fs = s /\ r.path = p
  BY <1>6 DEF Ready
<1>9. pc'[t] = r /\ \A u \in Thread : u # t => pc'[u] = pc[u]
  BY <1>0, <1>7, GotoOthers
<1>10. \A i \in Fd : ~(fd_table[i].fs = s /\ fd_table[i].path = MountPath(s, f))
  BY <1>2, <1>3 DEF fd_is_open
<1>11. p # <<"/">> => MountPath(s, f) = p
  BY <1>4, <1>5 DEF MountPath
<1>12. ASSUME NEW u \in Thread, pc'[u].at = "unlink"
       PROVE  /\ pc'[u].path \in Parts
              /\ pc'[u].path # <<"/">> =>
                      \A j \in Fd : ~(fd_table'[j].fs = pc'[u].fs /\ fd_table'[j].path = pc'[u].path)
  <2>1. CASE u = t
    BY <1>0, <1>5, <1>8, <1>9, <1>10, <1>11, <2>1
  <2>2. CASE u # t
    BY <1>0, <1>9, <1>12, <2>2 DEF UnlinkOK
  <2> QED  BY <2>1, <2>2
<1> QED  BY <1>12 DEF UnlinkOK

\* How the other steps of a thread end.
Moves(t) == PathsKept /\ \E r : Goto(t, r) /\ r.at # "unlink"
Stays == fd_table' = fd_table /\ pc' = pc

LEMMA MovesOK ==
    ASSUME DfsInv, UnlinkOK, NEW t \in Thread, Moves(t) \/ Stays
    PROVE  UnlinkOK'
<1>0. FileInv
  BY DEF DfsInv
<1>1. CASE Moves(t)
  <2>1. PICK r : Goto(t, r) /\ r.at # "unlink"
    BY <1>1 DEF Moves
  <2>2. pc'[t] = r /\ \A u \in Thread : u # t => pc'[u] = pc[u]
    BY <1>0, <2>1, GotoOthers
  <2>3. PathsKept /\ pc'[t].at # "unlink"
    BY <1>1, <2>1, <2>2 DEF Moves
  <2> QED  BY <2>2, <2>3, UnlinkKept
<1>2. CASE Stays
  BY <1>2 DEF Stays, UnlinkOK
<1> QED  BY <1>1, <1>2

LEMMA FileMoves ==
    ASSUME DfsInv, NEW t \in Thread
    PROVE  /\ \A name \in Name, op \in {"open", "opendir", "mkdir"} : fd_new(t, op, name) => Moves(t)
           /\ \A name \in Name : chdir(t, name) => Stays
           /\ \A i \in Fd : fd_get(t, i) \/ Close(t, i) => Moves(t)
           /\ OpenCall(t) \/ OpenDone(t) \/ Use(t) \/ CloseCall(t) \/ CloseDone(t) \/ Unlink(t)
                 => Moves(t) \/ Stays
<1>0. FileInv /\ pc[t] \in PcRec /\ \A i \in Fd : fd_table[i] \in FdRec
  BY DEF DfsInv, FileInv
<1>1. "opened" \in Ats /\ "close" \in Ats /\ "closed" \in Ats /\ FALSE \in BOOLEAN
  BY DEF Ats
<1>2. ASSUME NEW r, r.at # "unlink", Goto(t, r), PathsKept PROVE Moves(t)
  BY <1>2 DEF Moves
<1>3. /\ PathsKept /\ Goto(t, Ready) => Moves(t)
      /\ PathsKept /\ Goto(t, At1(pc[t], "opened")) => Moves(t)
      /\ PathsKept /\ Goto(t, At1(pc[t], "close")) => Moves(t)
      /\ PathsKept /\ Goto(t, At1(pc[t], "closed")) => Moves(t)
      /\ PathsKept /\ Goto(t, AtOk(pc[t], "opened", FALSE)) => Moves(t)
      /\ PathsKept /\ Goto(t, AtOk(pc[t], "closed", FALSE)) => Moves(t)
  <2>1. Ready.at = "user"
    BY DEF Ready
  <2>2. At1(pc[t], "opened").at = "opened"
    BY <1>0, <1>1, PcAt
  <2>3. At1(pc[t], "close").at = "close"
    BY <1>0, <1>1, PcAt
  <2>4. At1(pc[t], "closed").at = "closed"
    BY <1>0, <1>1, PcAt
  <2>5. AtOk(pc[t], "opened", FALSE).at = "opened"
    BY <1>0, <1>1, PcOk
  <2>6. AtOk(pc[t], "closed", FALSE).at = "closed"
    BY <1>0, <1>1, PcOk
  <2> QED  BY <1>2, <2>1, <2>2, <2>3, <2>4, <2>5, <2>6
<1>4. ASSUME NEW name \in Name, NEW op \in {"open", "opendir", "mkdir"}, fd_new(t, op, name)
      PROVE  Moves(t)
  <2> DEFINE free == {i \in Fd : fd_table[i].ref = 0}
  <2>1. free # {}
    BY <1>4 DEF fd_new
  <2>2. Min(free) \in free
    BY <2>1, FdFacts, MinProperties
  <2>3. PICK i \in Fd : i = Min(free)
    BY <2>2
  <2>4. PICK e : e = [fd_table[i] EXCEPT !.ref = 2, !.magic = TRUE]
    OBVIOUS
  <2>5. fd_table' = [fd_table EXCEPT ![i] = e]
    BY <1>4, <2>3, <2>4 DEF fd_new
  <2>6. e.path = fd_table[i].path /\ e.fs = fd_table[i].fs
    BY <1>0, <2>3, <2>4 DEF FdRec
  <2>7. PathsKept
    BY <1>0, <2>5, <2>6, ChangeKept
  <2>8. PICK r : r = [Ready EXCEPT !.at = "lookup", !.op = op, !.fd = i, !.refs = 2, !.name = name]
    OBVIOUS
  <2>9. Goto(t, r)
    BY <1>4, <2>3, <2>8 DEF fd_new
  <2>10. r.at = "lookup"
    BY <2>8 DEF Ready
  <2> HIDE DEF free
  <2> QED  BY <2>7, <2>9, <2>10 DEF Moves
<1>5. ASSUME NEW name \in Name, chdir(t, name) PROVE Stays
  BY <1>5 DEF chdir, Stays
<1>6. ASSUME NEW i \in Fd, fd_get(t, i) \/ Close(t, i) PROVE Moves(t)
  <2>1. PICK e : e = [fd_table[i] EXCEPT !.ref = fd_table[i].ref + 1]
    OBVIOUS
  <2>2. fd_table' = [fd_table EXCEPT ![i] = e]
    BY <1>6, <2>1 DEF fd_get, Close
  <2>3. e.path = fd_table[i].path /\ e.fs = fd_table[i].fs
    BY <1>0, <2>1 DEF FdRec
  <2>4. PathsKept
    BY <1>0, <2>2, <2>3, ChangeKept
  <2>5. PICK r, q : /\ r = [Ready EXCEPT !.at = "use", !.fd = i, !.refs = 1]
                    /\ q = [Ready EXCEPT !.at = "close", !.op = "close", !.fd = i, !.refs = 2]
    OBVIOUS
  <2>6. r.at = "use" /\ q.at = "close"
    BY <2>5 DEF Ready
  <2>7. Goto(t, r) \/ Goto(t, q)
    BY <1>6, <2>5 DEF fd_get, Close
  <2> QED  BY <2>4, <2>6, <2>7 DEF Moves
<1>7. PICK i : i = pc[t].fd
  OBVIOUS
<1>8. PICK d : d = fd_table[i]
  OBVIOUS
<1>9. ASSUME pc[t].at \in {"open", "opened", "use", "close", "closed"}
      PROVE  i \in Fd /\ d \in FdRec
  <2>1. i \in Fd
    BY <1>0, <1>7, <1>9, MineFacts, UserFacts
  <2> QED  BY <1>0, <1>8, <2>1
<1>10. ASSUME d \in FdRec, fd_table' = [fd_table EXCEPT ![i] = fd_put(d)] PROVE PathsKept
  <2>1. PICK e : e = fd_put(d)
    OBVIOUS
  <2>2. e.path = Null \/ (e.path = d.path /\ e.fs = d.fs)
    BY <1>10, <2>1, PutKept
  <2> QED  BY <1>0, <1>8, <1>10, <2>1, <2>2, ChangeKept
<1>11. ASSUME d \in FdRec, d.ref = 2, fd_table' = [fd_table EXCEPT ![i] = fd_put(fd_put(d))]
       PROVE  PathsKept
  <2>1. fd_table' = [fd_table EXCEPT ![i] = NoFd] /\ NoFd.path = Null
    BY <1>11, PutFacts DEF NoFd
  <2> QED  BY <1>0, <2>1, ChangeKept
<1>12. ASSUME OpenCall(t) PROVE Moves(t) \/ Stays
  <2>0. d \in FdRec
    BY <1>9, <1>12 DEF OpenCall, At
  <2>1. ASSUME NEW b, fd_table' = [fd_table EXCEPT ![i] = [d EXCEPT !.data = "open", !.dir = b]]
        PROVE  PathsKept
    <3>1. PICK e : e = [d EXCEPT !.data = "open", !.dir = b]
      OBVIOUS
    <3>2. e.path = d.path /\ e.fs = d.fs
      BY <2>0, <3>1 DEF FdRec
    <3> QED  BY <1>0, <1>8, <2>1, <3>1, <3>2, ChangeKept
  <2>2. ASSUME fd_table' = [fd_table EXCEPT ![i].path = Null]
        PROVE  PathsKept
    <3>1. PICK e : e = [d EXCEPT !.path = Null]
      OBVIOUS
    <3>2. e.path = Null
      BY <2>0, <3>1 DEF FdRec
    <3>3. fd_table' = [fd_table EXCEPT ![i] = e]
      BY <1>8, <2>2, <3>1
    <3> QED  BY <1>0, <3>2, <3>3, ChangeKept
  <2>3. \/ Stays
        \/ /\ \E b : fd_table' = [fd_table EXCEPT ![i] = [d EXCEPT !.data = "open", !.dir = b]]
           /\ Goto(t, At1(pc[t], "opened"))
        \/ /\ fd_table' = [fd_table EXCEPT ![i].path = Null]
           /\ Goto(t, AtOk(pc[t], "opened", FALSE))
    BY <1>7, <1>8, <1>12 DEF OpenCall, Wild, Stays, At1, AtOk
  <2> QED  BY <1>3, <2>1, <2>2, <2>3
<1>13. ASSUME OpenDone(t) PROVE Moves(t) \/ Stays
  <2>0. d \in FdRec /\ d.ref = 2
    BY <1>0, <1>7, <1>8, <1>9, <1>13, MineFacts DEF OpenDone, At
  <2>1. \/ fd_table' = [fd_table EXCEPT ![i] = fd_put(d)] /\ Goto(t, Ready)
        \/ fd_table' = [fd_table EXCEPT ![i] = fd_put(fd_put(d))] /\ Goto(t, Ready)
        \/ fd_table' = fd_table /\ Goto(t, At1(pc[t], "close"))
    BY <1>7, <1>8, <1>13 DEF OpenDone, At1
  <2>2. fd_table' = fd_table => PathsKept
    BY DEF PathsKept
  <2> QED  BY <1>3, <1>10, <1>11, <2>0, <2>1, <2>2
<1>14. ASSUME Use(t) PROVE Moves(t) \/ Stays
  <2>0. d \in FdRec
    BY <1>9, <1>14 DEF Use, At
  <2>1. Stays \/ (fd_table' = [fd_table EXCEPT ![i] = fd_put(d)] /\ Goto(t, Ready))
    BY <1>7, <1>8, <1>14 DEF Use, Stays, Wild
  <2> QED  BY <1>3, <1>10, <2>0, <2>1
<1>15. ASSUME CloseCall(t) PROVE Moves(t) \/ Stays
  <2>0. d \in FdRec
    BY <1>9, <1>15 DEF CloseCall, At
  <2>1. PICK e : e = [d EXCEPT !.data = "freed", !.path = Null]
    OBVIOUS
  <2>2. \/ Stays
        \/ fd_table' = [fd_table EXCEPT ![i] = e] /\ Goto(t, At1(pc[t], "closed"))
        \/ fd_table' = fd_table /\ Goto(t, AtOk(pc[t], "closed", FALSE))
    BY <1>7, <1>8, <1>15, <2>1 DEF CloseCall, Stays, Wild, At1, AtOk
  <2>3. e.path = Null
    BY <2>0, <2>1 DEF FdRec
  <2>4. fd_table' = [fd_table EXCEPT ![i] = e] => PathsKept
    BY <1>0, <2>3, ChangeKept
  <2>5. fd_table' = fd_table => PathsKept
    BY DEF PathsKept
  <2> QED  BY <1>3, <2>2, <2>4, <2>5
<1>16. ASSUME CloseDone(t) PROVE Moves(t) \/ Stays
  <2>0. d \in FdRec /\ d.ref = 2
    BY <1>0, <1>7, <1>8, <1>9, <1>16, MineFacts DEF CloseDone, At
  <2>1. /\ Goto(t, Ready)
        /\ \/ fd_table' = [fd_table EXCEPT ![i] = fd_put(d)]
           \/ fd_table' = [fd_table EXCEPT ![i] = fd_put(fd_put(d))]
    BY <1>7, <1>8, <1>16 DEF CloseDone
  <2> QED  BY <1>3, <1>10, <1>11, <2>0, <2>1
<1>17. ASSUME Unlink(t) PROVE Moves(t) \/ Stays
  <2>1. Stays \/ (fd_table' = fd_table /\ Goto(t, Ready))
    BY <1>17 DEF Unlink, Wild, Stays
  <2>2. fd_table' = fd_table => PathsKept
    BY DEF PathsKept
  <2> QED  BY <1>3, <2>1, <2>2
<1> QED  BY <1>4, <1>5, <1>6, <1>12, <1>13, <1>14, <1>15, <1>16, <1>17

LEMMA FileStepUnlink ==
    ASSUME DfsInv, UnlinkOK, Careful, NEW t \in Thread, FileStep(t)
    PROVE  UnlinkOK'
<1>0. \A name \in Given : name \in Name
  BY DfsAssumption
<1>1. CASE OpenLookup(t)
  BY <1>1, OpenLookupUnlink
<1>2. ASSUME NEW name \in Given, dfs_file_unlink(t, name) PROVE UnlinkOK'
  BY <1>0, <1>2, FileUnlinkUnlink
<1>3. CASE Moves(t) \/ Stays
  BY <1>3, MovesOK
<1>4. OpenLookup(t) \/ (\E name \in Given : dfs_file_unlink(t, name)) \/ Moves(t) \/ Stays
  BY <1>0, FileMoves DEF FileStep
<1> QED  BY <1>1, <1>2, <1>3, <1>4

\* What a step of an administrator leaves alone.
LEMMA AdminFrame ==
    ASSUME FileInv, NEW t \in Admin, AdminStep(t)
    PROVE  /\ UNCHANGED <<fd_table, cwd, owned, live>>
           /\ \A u \in Thread \cup Admin : u # t => pc'[u] = pc[u]
<1>2. ASSUME NEW r, Goto(t, r) PROVE \A u \in Thread \cup Admin : u # t => pc'[u] = pc[u]
  BY <1>2, GotoOthers
<1>3. ASSUME NEW name \in MountNames, dfs_unmount(t, name)
      PROVE  UNCHANGED <<fd_table, cwd, owned, live, pc>>
  BY <1>3 DEF dfs_unmount
<1>4. ASSUME NEW name \in MountNames, NEW d \in Device, dfs_mount(t, d, name)
      PROVE  UNCHANGED <<fd_table, cwd, owned, live>> /\ \E r : Goto(t, r)
  BY <1>4 DEF dfs_mount
<1>5. ASSUME NEW d \in Device, dfs_mkfs(t, d)
      PROVE  UNCHANGED <<fd_table, cwd, owned, live>> /\ \E r : Goto(t, r)
  BY <1>5 DEF dfs_mkfs
<1>6. ASSUME \/ MountRegister(t) \/ MountDevice(t) \/ MountClaim(t) \/ MountInstall(t)
             \/ MountFat(t) \/ MountUndo(t) \/ MkfsDone(t)
      PROVE  UNCHANGED <<fd_table, cwd, owned, live>> /\ \E r : Goto(t, r)
  BY <1>6 DEF MountRegister, MountDevice, MountClaim, MountInstall, MountFat, MountUndo, MkfsDone
<1>7. UNCHANGED <<fd_table, cwd, owned, live>> /\ (pc' = pc \/ \E r : Goto(t, r))
  BY <1>3, <1>4, <1>5, <1>6 DEF AdminStep
<1> QED  BY <1>2, <1>7

LEMMA AdminStepUnlink ==
    ASSUME DfsInv, UnlinkOK, NEW t \in Admin, AdminStep(t)
    PROVE  UnlinkOK'
<1>0. t \notin Thread
  BY DfsAssumption
<1>1. fd_table' = fd_table /\ \A u \in Thread : pc'[u] = pc[u]
  BY <1>0, AdminFrame DEF DfsInv
<1> QED  BY <1>1 DEF UnlinkOK

\* No open file is removed, for any number of threads, descriptors and mounts, however
\* its name was spelled: fd_is_open looks under the path that dfs_file_open stores.
THEOREM UnlinksClosedInvariance == ASSUME Careful PROVE Spec => []UnlinksClosed
<1>1. Init => UnlinkOK
  BY DEF Init, Ready, UnlinkOK
<1>2. ASSUME DfsInv, UnlinkOK, [Next]_vars PROVE UnlinkOK'
  <2>1. CASE UNCHANGED vars
    BY <1>2, <2>1 DEF UnlinkOK, vars
  <2>2. CASE Next
    BY <1>2, <2>2, FileStepUnlink, AdminStepUnlink DEF Next
  <2> QED  BY <1>2, <2>1, <2>2
<1>3. UnlinkOK => UnlinksClosed
  BY DEF UnlinkOK, UnlinksClosed
<1> QED  BY <1>1, <1>2, <1>3, DfsInvariance, PTL DEF Spec

-----------------------------------------------------------------------------
(* Volumes and devices, with one administrator.                             *)

OneAdmin == \A t, u \in Admin : t = u

\* A volume belongs to one file system and holds its device, and a device to one.
SlotsOK ==
    /\ \A s \in Slot : fstab[s].dev = Null => fstab[s] = NoFs
    /\ \A s \in Slot : fstab[s].vol # Null => disk[fstab[s].vol] = fstab[s].dev /\ fstab[s].dev # Null
    /\ \A s, r \in Slot : fstab[s].vol # Null /\ fstab[s].vol = fstab[r].vol => s = r
    /\ \A s, r \in Slot : fstab[s].dev # Null /\ fstab[s].dev = fstab[r].dev => s = r

\* What the administrator t has got so far.
MountAt(t) ==
    /\ pc[t].at \in {"register", "format"} => \A s \in Slot : fstab[s].dev # pc[t].dev
    /\ pc[t].at \in Mounting => fstab[pc[t].fs].dev = pc[t].dev
    /\ pc[t].at = "install" => disk[pc[t].vol] = Null
    /\ pc[t].at \in {"fat", "format"} =>
          disk[pc[t].vol] = pc[t].dev /\ \A s \in Slot : fstab[s].vol # pc[t].vol

Uses(t, v) == pc[t].at \in {"fat", "format"} /\ pc[t].vol = v

VolsUsed ==
    \A v \in Vol : disk[v] # Null => \/ \E s \in Slot : fstab[s].vol = v
                                     \/ \E t \in Admin : Uses(t, v)

Slotted(d) == IF \E s \in Slot : fstab[s].dev = d THEN 1 ELSE 0
Opening(t, d) == pc[t].at = "device" /\ pc[t].dev = d
Formatting(t, d) == pc[t].at = "format" /\ pc[t].dev = d /\ pc[t].ok

OpenedOK ==
    \A d \in Device :
        opened[d] = Slotted(d) - (IF \E t \in Admin : Opening(t, d) THEN 1 ELSE 0)
                               + (IF \E t \in Admin : Formatting(t, d) THEN 1 ELSE 0)

MountInv == SlotsOK /\ (\A t \in Admin : MountAt(t)) /\ VolsUsed /\ OpenedOK

LEMMA CardOne ==
    ASSUME NEW S, \A x, y \in S : x = y
    PROVE  Cardinality(S) = IF S = {} THEN 0 ELSE 1
<1>1. CASE S = {}
  BY <1>1, FS_EmptySet
<1>2. CASE S # {}
  <2>1. PICK x : x \in S
    BY <1>2
  <2>2. S = {x}
    BY <2>1
  <2> QED  BY <1>2, <2>2, FS_Singleton
<1> QED  BY <1>1, <1>2

LEMMA MountInvAccounts == ASSUME DfsInv, MountInv, OneAdmin PROVE MountsAccounted
<1>0. SlotsOK /\ VolsUsed /\ OpenedOK /\ \A t \in Admin : MountAt(t)
  BY DEF MountInv
<1>1. ASSUME NEW v \in Vol
      PROVE  LET users == {s \in Slot : fstab[s].vol = v}
                 calls == {t \in Admin : pc[t].vol = v /\ pc[t].at \in {"fat", "format"}}
             IN  IF disk[v] = Null THEN users = {} /\ calls = {}
                 ELSE /\ Cardinality(users) + Cardinality(calls) = 1
                      /\ \A s \in users : fstab[s].dev = disk[v]
  <2> DEFINE users == {s \in Slot : fstab[s].vol = v}
             calls == {t \in Admin : pc[t].vol = v /\ pc[t].at \in {"fat", "format"}}
  <2>0. v # Null
    BY FdFacts
  <2>1. \A s \in users : disk[v] = fstab[s].dev /\ disk[v] # Null
    BY <1>0, <2>0 DEF SlotsOK
  <2>2. \A t \in calls : disk[v] # Null /\ users = {}
    <3> SUFFICES ASSUME NEW t \in calls PROVE disk[v] # Null /\ users = {}
      OBVIOUS
    <3>1. disk[v] = pc[t].dev /\ users = {}
      BY <1>0 DEF MountAt
    <3>2. pc[t].dev \in Device
      BY DEF DfsInv, SlotInv, AdminOK, Mounting
    <3> QED  BY <3>1, <3>2, DfsAssumption
  <2>3. disk[v] # Null => users # {} \/ calls # {}
    BY <1>0 DEF VolsUsed, Uses
  <2>4. (\A x, y \in users : x = y) /\ (\A x, y \in calls : x = y)
    BY <1>0, <2>0 DEF SlotsOK, OneAdmin
  <2> HIDE DEF users, calls
  <2>5. /\ Cardinality(users) = IF users = {} THEN 0 ELSE 1
        /\ Cardinality(calls) = IF calls = {} THEN 0 ELSE 1
    BY <2>4, CardOne
  <2>6. disk[v] = Null => users = {} /\ calls = {}
    BY <2>1, <2>2
  <2>7. disk[v] # Null => Cardinality(users) + Cardinality(calls) = 1
    <3>1. CASE calls = {}
      BY <2>3, <2>5, <3>1
    <3>2. CASE calls # {}
      <4>1. users = {}
        BY <2>2, <3>2
      <4> QED  BY <2>5, <3>2, <4>1
    <3> QED  BY <3>1, <3>2
  <2>8. IF disk[v] = Null THEN users = {} /\ calls = {}
        ELSE /\ Cardinality(users) + Cardinality(calls) = 1
             /\ \A s \in users : fstab[s].dev = disk[v]
    BY <2>1, <2>6, <2>7
  <2> QED  BY <2>8 DEF users, calls
<1>2. ASSUME NEW d \in Device
      PROVE  opened[d] = Cardinality({s \in Slot : fstab[s].dev = d})
                         - Cardinality({t \in Admin : pc[t].at = "device" /\ pc[t].dev = d})
                         + Cardinality({t \in Admin : pc[t].at = "format" /\ pc[t].dev = d /\ pc[t].ok})
  <2> DEFINE A == {s \in Slot : fstab[s].dev = d}
             B == {t \in Admin : pc[t].at = "device" /\ pc[t].dev = d}
             C == {t \in Admin : pc[t].at = "format" /\ pc[t].dev = d /\ pc[t].ok}
  <2>0. d # Null
    BY DfsAssumption
  <2>1. (\A x, y \in A : x = y) /\ (\A x, y \in B : x = y) /\ (\A x, y \in C : x = y)
    BY <1>0, <2>0 DEF SlotsOK, OneAdmin
  <2>2. /\ Slotted(d) = IF A = {} THEN 0 ELSE 1
        /\ (\E t \in Admin : Opening(t, d)) <=> B # {}
        /\ (\E t \in Admin : Formatting(t, d)) <=> C # {}
    BY DEF Slotted, Opening, Formatting
  <2>3. opened[d] = Slotted(d) - (IF \E t \in Admin : Opening(t, d) THEN 1 ELSE 0)
                               + (IF \E t \in Admin : Formatting(t, d) THEN 1 ELSE 0)
    BY <1>0 DEF OpenedOK
  <2> HIDE DEF A, B, C
  <2>4. /\ Cardinality(A) = IF A = {} THEN 0 ELSE 1
        /\ Cardinality(B) = IF B = {} THEN 0 ELSE 1
        /\ Cardinality(C) = IF C = {} THEN 0 ELSE 1
    BY <2>1, CardOne
  <2>5. opened[d] = Cardinality(A) - Cardinality(B) + Cardinality(C)
    BY <2>2, <2>3, <2>4
  <2> QED  BY <2>5 DEF A, B, C
<1> QED  BY <1>1, <1>2 DEF MountsAccounted

LEMMA MountInvInit == Init => MountInv
<1> SUFFICES ASSUME Init PROVE MountInv
  OBVIOUS
<1>1. /\ \A s \in Slot : fstab[s] = NoFs /\ fstab[s].dev = Null /\ fstab[s].vol = Null
      /\ \A v \in Vol : disk[v] = Null
      /\ \A d \in Device : opened[d] = 0 /\ d # Null
      /\ \A t \in Admin : pc[t].at = "user"
  BY DfsAssumption DEF Init, NoFs, Ready
<1>2. SlotsOK /\ VolsUsed
  BY <1>1 DEF SlotsOK, VolsUsed
<1>3. \A t \in Admin : MountAt(t)
  BY <1>1 DEF MountAt, Mounting
<1>4. OpenedOK
  BY <1>1 DEF OpenedOK, Slotted, Opening, Formatting
<1> QED  BY <1>2, <1>3, <1>4 DEF MountInv

\* Steps that change no mount.
LEMMA MountInvSame ==
    ASSUME MountInv, fstab' = fstab, disk' = disk, opened' = opened, \A u \in Admin : pc'[u] = pc[u]
    PROVE  MountInv'
<1>1. SlotsOK'
  BY DEF MountInv, SlotsOK
<1>2. \A t \in Admin : MountAt(t)'
  BY DEF MountInv, MountAt
<1>3. VolsUsed'
  BY DEF MountInv, VolsUsed, Uses
<1>4. OpenedOK'
  BY DEF MountInv, OpenedOK, Slotted, Opening, Formatting
<1> QED  BY <1>1, <1>2, <1>3, <1>4 DEF MountInv

\* With one administrator t, what there is to show of a step.
MountGoal(t) ==
    /\ SlotsOK' /\ MountAt(t)'
    /\ \A v \in Vol : disk'[v] # Null => (\E s \in Slot : fstab'[s].vol = v) \/ Uses(t, v)'
    /\ \A d \in Device : opened'[d] = Slotted(d)' - (IF Opening(t, d)' THEN 1 ELSE 0)
                                                  + (IF Formatting(t, d)' THEN 1 ELSE 0)

LEMMA MountGoalOK == ASSUME OneAdmin, NEW t \in Admin, MountGoal(t) PROVE MountInv'
<1>0. \A u \in Admin : u = t
  BY DEF OneAdmin
<1>1. \A u \in Admin : MountAt(u)'
  <2> SUFFICES ASSUME NEW u \in Admin PROVE MountAt(u)'
    OBVIOUS
  <2>1. u = t
    BY <1>0
  <2>2. MountAt(t)'
    BY DEF MountGoal
  <2> QED  BY <2>1, <2>2
<1>2. VolsUsed'
  BY DEF MountGoal, VolsUsed
<1>3. \A d : /\ (\E u \in Admin : Opening(u, d)') <=> Opening(t, d)'
             /\ (\E u \in Admin : Formatting(u, d)') <=> Formatting(t, d)'
  BY <1>0
<1>4. OpenedOK'
  BY <1>3 DEF MountGoal, OpenedOK
<1> QED  BY <1>1, <1>2, <1>4 DEF MountGoal, MountInv

\* What is known of the only administrator.
LEMMA MountKnown ==
    ASSUME DfsInv, MountInv, OneAdmin, NEW t \in Admin
    PROVE  /\ SlotsOK /\ MountAt(t) /\ AdminOK(t) /\ pc[t] \in PcRec /\ FileInv
           /\ fstab \in [Slot -> FsRec] /\ disk \in [Vol -> Device \cup {Null}]
           /\ opened \in [Device -> Nat]
           /\ \A v \in Vol : disk[v] # Null => (\E s \in Slot : fstab[s].vol = v) \/ Uses(t, v)
           /\ \A d \in Device : opened[d] = Slotted(d) - (IF Opening(t, d) THEN 1 ELSE 0)
                                                       + (IF Formatting(t, d) THEN 1 ELSE 0)
           /\ \A s \in Slot : fstab[s] # NoFs /\ fstab[s].vol = Null =>
                 pc[t].at \in Mounting /\ pc[t].fs = s
<1>0. \A u \in Admin : u = t
  BY DEF OneAdmin
<1>1. /\ SlotsOK /\ MountAt(t) /\ AdminOK(t) /\ pc[t] \in PcRec /\ FileInv
      /\ fstab \in [Slot -> FsRec] /\ disk \in [Vol -> Device \cup {Null}]
      /\ opened \in [Device -> Nat]
  BY AdminFacts DEF MountInv
<1>2. \A v \in Vol : disk[v] # Null => (\E s \in Slot : fstab[s].vol = v) \/ Uses(t, v)
  BY <1>0 DEF MountInv, VolsUsed
<1>3. \A d : /\ (\E u \in Admin : Opening(u, d)) <=> Opening(t, d)
             /\ (\E u \in Admin : Formatting(u, d)) <=> Formatting(t, d)
  BY <1>0
<1>4. \A d \in Device : opened[d] = Slotted(d) - (IF Opening(t, d) THEN 1 ELSE 0)
                                               + (IF Formatting(t, d) THEN 1 ELSE 0)
  BY <1>3 DEF MountInv, OpenedOK
<1>5. \A s \in Slot : fstab[s] # NoFs /\ fstab[s].vol = Null =>
                 pc[t].at \in Mounting /\ pc[t].fs = s
  BY <1>0 DEF DfsInv, SlotInv
<1> QED  BY <1>1, <1>2, <1>4, <1>5

\* The cases of the counts.
LEMMA CountCases ==
    ASSUME NEW t, NEW d
    PROVE  /\ Slotted(d) \in {0, 1}
           /\ pc[t].at # "device" => ~Opening(t, d)
           /\ pc[t].at # "format" => ~Formatting(t, d)
           /\ pc[t].at \notin {"fat", "format"} => \A v : ~Uses(t, v)
BY DEF Slotted, Opening, Formatting, Uses

LEMMA CountCasesNext ==
    ASSUME NEW t, NEW d
    PROVE  /\ Slotted(d)' \in {0, 1}
           /\ pc'[t].at # "device" => ~Opening(t, d)'
           /\ pc'[t].at # "format" => ~Formatting(t, d)'
           /\ pc'[t].at \notin {"fat", "format"} => \A v : ~Uses(t, v)'
BY DEF Slotted, Opening, Formatting, Uses

LEMMA MountMount ==
    ASSUME DfsInv, MountInv, OneAdmin, Careful, NEW t \in Admin, NEW d \in Device, NEW name \in Name,
           dfs_mount(t, d, name)
    PROVE  MountGoal(t)
<1>0. /\ pc[t].at = "user" /\ fstab' = fstab /\ disk' = disk /\ opened' = opened
      /\ \A s \in Slot : fstab[s].dev # d
  BY DEF dfs_mount, At
<1>1. PICK p : Goto(t, [Ready EXCEPT !.at = "register", !.dev = d, !.name = name, !.path = p])
  BY DEF dfs_mount
<1>2. PICK r : r = [Ready EXCEPT !.at = "register", !.dev = d, !.name = name, !.path = p]
  OBVIOUS
<1>3. r.at = "register" /\ r.dev = d
  BY <1>2 DEF Ready
<1>4. pc'[t] = r
  BY <1>1, <1>2, MountKnown, GotoOthers
<1>5. SlotsOK'
  BY <1>0, MountKnown DEF SlotsOK
<1>6. MountAt(t)'
  BY <1>0, <1>3, <1>4 DEF MountAt, Mounting
<1>7. \A v \in Vol : disk'[v] # Null => \E s \in Slot : fstab'[s].vol = v
  BY <1>0, MountKnown, CountCases
<1>8. ASSUME NEW e \in Device
      PROVE  opened'[e] = Slotted(e)' - (IF Opening(t, e)' THEN 1 ELSE 0)
                                      + (IF Formatting(t, e)' THEN 1 ELSE 0)
  <2>1. Slotted(e)' = Slotted(e) /\ ~Opening(t, e) /\ ~Formatting(t, e)
    BY <1>0, CountCases DEF Slotted
  <2>2. ~Opening(t, e)' /\ ~Formatting(t, e)'
    BY <1>3, <1>4, CountCasesNext
  <2>3. opened[e] = Slotted(e) - 0 + 0
    BY <2>1, MountKnown
  <2> QED  BY <1>0, <2>1, <2>2, <2>3
<1> QED  BY <1>5, <1>6, <1>7, <1>8 DEF MountGoal

LEMMA MountMkfs ==
    ASSUME DfsInv, MountInv, OneAdmin, NEW t \in Admin, NEW d \in Device, dfs_mkfs(t, d)
    PROVE  MountGoal(t)
<1>0. pc[t].at = "user" /\ fstab' = fstab
  BY DEF dfs_mkfs, At
<1>1. PICK v : v = get_disk(Null)
  OBVIOUS
<1>2. v \in Vol /\ disk[v] = Null /\ disk' = [disk EXCEPT ![v] = d] /\ v # Null /\ d # Null
  BY <1>1, GetDisk, FdFacts, DfsAssumption DEF dfs_mkfs
<1>3. PICK ok \in BOOLEAN :
          /\ opened' = [opened EXCEPT ![d] = IF ok THEN opened[d] + 1 ELSE opened[d]]
          /\ Goto(t, [Ready EXCEPT !.at = "format", !.dev = d, !.vol = v, !.ok = ok])
  BY <1>1 DEF dfs_mkfs
<1>4. PICK r : r = [Ready EXCEPT !.at = "format", !.dev = d, !.vol = v, !.ok = ok]
  OBVIOUS
<1>5. r.at = "format" /\ r.dev = d /\ r.vol = v /\ r.ok = ok
  BY <1>4 DEF Ready
<1>6. pc'[t] = r
  BY <1>3, <1>4, MountKnown, GotoOthers
<1>7. disk \in [Vol -> Device \cup {Null}] /\ opened \in [Device -> Nat] /\ SlotsOK /\ fstab \in [Slot -> FsRec]
  BY MountKnown
<1>8. \A w \in Vol : disk[w] # d
  <2>1. get_disk(d) = Null
    BY DEF dfs_mkfs
  <2>2. {w \in Vol : disk[w] = d} # {} => Min({w \in Vol : disk[w] = d}) = Null
    BY <2>1 DEF get_disk
  <2>3. {w \in Vol : disk[w] = d} \subseteq Nat
    BY DfsAssumption DEF Vol
  <2>4. {w \in Vol : disk[w] = d} # {} => Min({w \in Vol : disk[w] = d}) \in Vol
    BY <2>3, MinProperties
  <2> QED  BY <2>2, <2>4, FdFacts
<1>9. \A s \in Slot : fstab[s].vol # Null => fstab[s].vol \in Vol /\ fstab[s].vol # v
  BY <1>2, <1>7 DEF SlotsOK, FsRec
<1>10. \A s \in Slot : fstab[s].dev # d
  <2> SUFFICES ASSUME NEW s \in Slot, fstab[s].dev = d PROVE FALSE
    OBVIOUS
  <2>1. fstab[s] # NoFs
    BY <1>2 DEF NoFs
  <2>2. fstab[s].vol # Null
    BY <1>0, <2>1, MountKnown DEF Mounting
  <2> QED  BY <1>7, <1>8, <1>9, <2>2 DEF SlotsOK
<1>11. SlotsOK'
  BY <1>0, <1>2, <1>7, <1>9 DEF SlotsOK
<1>12. MountAt(t)'
  BY <1>0, <1>2, <1>5, <1>6, <1>7, <1>9, <1>10 DEF MountAt, Mounting
<1>13. \A w \in Vol : disk'[w] # Null => (\E s \in Slot : fstab'[s].vol = w) \/ Uses(t, w)'
  <2> SUFFICES ASSUME NEW w \in Vol, disk'[w] # Null
               PROVE  (\E s \in Slot : fstab'[s].vol = w) \/ Uses(t, w)'
    OBVIOUS
  <2>1. CASE w = v
    BY <1>5, <1>6, <2>1 DEF Uses
  <2>2. CASE w # v
    <3>1. disk[w] # Null
      BY <1>2, <1>7, <2>2
    <3> QED  BY <1>0, <3>1, MountKnown, CountCases
  <2> QED  BY <2>1, <2>2
<1>14. ASSUME NEW e \in Device
       PROVE  opened'[e] = Slotted(e)' - (IF Opening(t, e)' THEN 1 ELSE 0)
                                       + (IF Formatting(t, e)' THEN 1 ELSE 0)
  <2>1. Slotted(e)' = Slotted(e) /\ ~Opening(t, e) /\ ~Formatting(t, e)
    BY <1>0, CountCases DEF Slotted
  <2>2. ~Opening(t, e)' /\ (Formatting(t, e)' <=> e = d /\ ok)
    BY <1>5, <1>6 DEF Formatting, Opening
  <2>3. opened[e] = Slotted(e) - 0 + 0 /\ Slotted(e) \in {0, 1}
    BY <2>1, MountKnown, CountCases
  <2>4. opened'[e] = IF e = d /\ ok THEN opened[e] + 1 ELSE opened[e]
    BY <1>3, <1>7
  <2> QED  BY <2>1, <2>2, <2>3, <2>4
<1> QED  BY <1>11, <1>12, <1>13, <1>14 DEF MountGoal

LEMMA MountMkfsDone ==
    ASSUME DfsInv, MountInv, OneAdmin, NEW t \in Admin, MkfsDone(t)
    PROVE  MountGoal(t)
<1>1. PICK v, d : v = pc[t].vol /\ d = pc[t].dev
  OBVIOUS
<1>2. /\ pc[t].at = "format" /\ fstab' = fstab /\ Goto(t, Ready)
      /\ disk' = [disk EXCEPT ![v] = Null] /\ opened' = DeviceClose(d)
  BY <1>1 DEF MkfsDone, At
<1>3. /\ disk \in [Vol -> Device \cup {Null}] /\ opened \in [Device -> Nat] /\ SlotsOK
      /\ fstab \in [Slot -> FsRec]
  BY MountKnown
<1>4. v \in Vol /\ d \in Device /\ v # Null
  BY <1>1, <1>2, MountKnown, FdFacts DEF AdminOK, Mounting
<1>5. \A s \in Slot : fstab[s].dev # d /\ fstab[s].vol # v
  BY <1>1, <1>2, MountKnown DEF MountAt
<1>6. pc'[t] = Ready /\ pc'[t].at = "user"
  BY <1>2, MountKnown, GotoOthers DEF Ready
<1>7. SlotsOK'
  <2>1. \A s \in Slot : fstab[s].vol # Null => fstab[s].vol \in Vol /\ disk'[fstab[s].vol] = disk[fstab[s].vol]
    BY <1>2, <1>3, <1>5 DEF FsRec
  <2> QED  BY <1>2, <1>3, <2>1 DEF SlotsOK
<1>8. MountAt(t)'
  BY <1>6 DEF MountAt, Mounting
<1>9. \A w \in Vol : disk'[w] # Null => \E s \in Slot : fstab'[s].vol = w
  <2> SUFFICES ASSUME NEW w \in Vol, disk'[w] # Null PROVE \E s \in Slot : fstab'[s].vol = w
    OBVIOUS
  <2>1. w # v /\ disk[w] # Null
    BY <1>2, <1>3
  <2>2. ~Uses(t, w)
    BY <1>1, <2>1 DEF Uses
  <2> QED  BY <1>2, <2>1, <2>2, MountKnown
<1>10. ASSUME NEW e \in Device
       PROVE  opened'[e] = Slotted(e)' - (IF Opening(t, e)' THEN 1 ELSE 0)
                                       + (IF Formatting(t, e)' THEN 1 ELSE 0)
  <2>1. Slotted(e)' = Slotted(e) /\ ~Opening(t, e) /\ (Formatting(t, e) <=> e = d /\ pc[t].ok)
    BY <1>1, <1>2 DEF Slotted, Opening, Formatting
  <2>2. ~Opening(t, e)' /\ ~Formatting(t, e)'
    BY <1>6, CountCasesNext
  <2>3. opened[e] = Slotted(e) - 0 + (IF e = d /\ pc[t].ok THEN 1 ELSE 0) /\ Slotted(e) \in {0, 1}
    BY <2>1, MountKnown, CountCases
  <2>4. opened'[e] = IF e = d THEN (IF opened[e] = 0 THEN 0 ELSE opened[e] - 1) ELSE opened[e]
    BY <1>2, <1>3 DEF DeviceClose
  <2>5. e = d => Slotted(e) = 0
    BY <1>5 DEF Slotted
  <2> QED  BY <2>1, <2>2, <2>3, <2>4, <2>5
<1> QED  BY <1>7, <1>8, <1>9, <1>10 DEF MountGoal

LEMMA MountMountRegister ==
    ASSUME DfsInv, MountInv, OneAdmin, NEW t \in Admin, MountRegister(t)
    PROVE  MountGoal(t)
<1> DEFINE free == {s \in Slot : fstab[s] = NoFs}
           taken == \E s \in Slot : fstab[s].path # Null /\ pc[t].name.abs
                                    /\ fstab[s].path = pc[t].name.parts
<1>0. pc[t].at = "register" /\ disk' = disk /\ opened' = opened
  BY DEF MountRegister, At
<1>1. /\ disk \in [Vol -> Device \cup {Null}] /\ opened \in [Device -> Nat] /\ SlotsOK
      /\ fstab \in [Slot -> FsRec] /\ FileInv /\ pc[t] \in PcRec
  BY MountKnown
<1>2. PICK d : d = pc[t].dev
  OBVIOUS
<1>3. d \in Device /\ d # Null /\ \A s \in Slot : fstab[s].dev # d
  <2>1. AdminOK(t) /\ MountAt(t)
    BY MountKnown
  <2> QED  BY <1>0, <1>2, <2>1, DfsAssumption DEF AdminOK, MountAt, Mounting
<1>4. \A w \in Vol : disk[w] # Null => \E s \in Slot : fstab[s].vol = w
  <2>1. \A w : ~Uses(t, w)
    BY <1>0, CountCases
  <2> QED  BY <2>1, MountKnown
<1>5. \A e \in Device : opened[e] = Slotted(e) /\ Slotted(e) \in {0, 1}
  <2> SUFFICES ASSUME NEW e \in Device PROVE opened[e] = Slotted(e) /\ Slotted(e) \in {0, 1}
    OBVIOUS
  <2>1. ~Opening(t, e) /\ ~Formatting(t, e) /\ Slotted(e) \in {0, 1}
    BY <1>0, CountCases
  <2>2. opened[e] = Slotted(e) - 0 + 0
    BY <2>1, MountKnown
  <2> QED  BY <2>1, <2>2
<1>6. CASE free = {} \/ taken
  <2>1. Goto(t, Ready) /\ fstab' = fstab
    BY <1>6 DEF MountRegister
  <2> HIDE DEF free, taken
  <2>2. pc'[t].at = "user"
    BY <1>1, <2>1, GotoOthers DEF Ready
  <2>3. SlotsOK' /\ MountAt(t)'
    BY <1>0, <1>1, <2>1, <2>2 DEF SlotsOK, MountAt, Mounting
  <2>4. \A e \in Device : ~Opening(t, e)' /\ ~Formatting(t, e)' /\ Slotted(e)' = Slotted(e)
    BY <2>1, <2>2 DEF Opening, Formatting, Slotted
  <2>5. \A e \in Device : opened'[e] = Slotted(e)' - (IF Opening(t, e)' THEN 1 ELSE 0)
                                                   + (IF Formatting(t, e)' THEN 1 ELSE 0)
    BY <1>0, <1>5, <2>4
  <2> QED  BY <1>0, <1>4, <2>1, <2>3, <2>5 DEF MountGoal
<1>7. CASE ~(free = {} \/ taken)
  <2>1. PICK x : x = Min(free)
    OBVIOUS
  <2>2. x \in Slot /\ fstab[x] = NoFs
    <3>1. free \subseteq Nat
      BY DfsAssumption DEF Slot
    <3>2. Min(free) \in free
      BY <1>7, <3>1, MinProperties
    <3> QED  BY <2>1, <3>2
  <2>3. PICK e : e = [path |-> pc[t].path, dev |-> pc[t].dev, vol |-> Null]
    OBVIOUS
  <2>4. PICK r : r = AtFs(pc[t], "device", x)
    OBVIOUS
  <2>5. fstab' = [fstab EXCEPT ![x] = e] /\ Goto(t, r)
    BY <1>7, <2>1, <2>3, <2>4 DEF MountRegister, AtFs
  <2> HIDE DEF free, taken
  <2>6. "device" \in Ats
    BY DEF Ats
  <2>7. r.at = "device" /\ r.fs = x
    BY <1>1, <2>2, <2>4, <2>6, PcFs
  <2>8. r.dev = d
    BY <1>1, <1>2, <2>4 DEF AtFs, PcRec
  <2>9. pc'[t] = r
    BY <1>1, <2>5, GotoOthers
  <2>10. fstab'[x] = e /\ \A s \in Slot : s # x => fstab'[s] = fstab[s]
    BY <1>1, <2>2, <2>5
  <2>11. e.dev = d /\ e.vol = Null
    BY <1>2, <2>3
  <2>12. fstab[x].vol = Null /\ fstab[x].dev = Null
    BY <2>2 DEF NoFs
  <2>13. SlotsOK'
    <3>1. \A s \in Slot : fstab'[s].vol = fstab[s].vol /\ (fstab[s].vol # Null => fstab'[s] = fstab[s])
      BY <2>10, <2>11, <2>12
    <3>2. \A s \in Slot : fstab'[s].dev = IF s = x THEN d ELSE fstab[s].dev
      BY <2>10, <2>11
    <3>3. \A s \in Slot : fstab'[s].dev = Null => fstab'[s] = NoFs
      BY <1>1, <1>3, <2>10, <3>2 DEF SlotsOK
    <3>4. \A s \in Slot : fstab'[s].vol # Null => disk'[fstab'[s].vol] = fstab'[s].dev /\ fstab'[s].dev # Null
      BY <1>0, <1>1, <3>1 DEF SlotsOK
    <3>5. \A s, q \in Slot : fstab'[s].vol # Null /\ fstab'[s].vol = fstab'[q].vol => s = q
      BY <1>1, <3>1 DEF SlotsOK
    <3>6. \A s, q \in Slot : fstab'[s].dev # Null /\ fstab'[s].dev = fstab'[q].dev => s = q
      BY <1>1, <1>3, <3>2 DEF SlotsOK
    <3> QED  BY <3>3, <3>4, <3>5, <3>6 DEF SlotsOK
  <2>14. MountAt(t)'
    BY <2>7, <2>8, <2>9, <2>10, <2>11 DEF MountAt
  <2>15. \A w \in Vol : disk'[w] # Null => \E s \in Slot : fstab'[s].vol = w
    <3> SUFFICES ASSUME NEW w \in Vol, disk'[w] # Null PROVE \E s \in Slot : fstab'[s].vol = w
      OBVIOUS
    <3>1. PICK s \in Slot : fstab[s].vol = w
      BY <1>0, <1>4
    <3>2. w # Null
      BY FdFacts
    <3> QED  BY <2>10, <2>12, <3>1, <3>2
  <2>16. ASSUME NEW c \in Device
         PROVE  opened'[c] = Slotted(c)' - (IF Opening(t, c)' THEN 1 ELSE 0)
                                         + (IF Formatting(t, c)' THEN 1 ELSE 0)
    <3>1. (Opening(t, c)' <=> c = d) /\ ~Formatting(t, c)'
      BY <2>7, <2>8, <2>9 DEF Opening, Formatting
    <3>2. CASE c = d
      <4>1. Slotted(c)' = 1 /\ Slotted(c) = 0
        BY <1>3, <2>2, <2>10, <2>11, <3>2 DEF Slotted
      <4> QED  BY <1>0, <1>5, <3>1, <3>2, <4>1
    <3>3. CASE c # d
      <4>0. c # Null
        BY DfsAssumption
      <4>1. Slotted(c)' = Slotted(c)
        BY <2>10, <2>11, <2>12, <3>3, <4>0 DEF Slotted
      <4> QED  BY <1>0, <1>5, <3>1, <3>3, <4>1
    <3> QED  BY <3>2, <3>3
  <2> QED  BY <2>13, <2>14, <2>15, <2>16 DEF MountGoal
<1> QED  BY <1>6, <1>7

\* An entry is cleared: its device has none any more.
LEMMA EntryCleared ==
    ASSUME SlotsOK, fstab \in [Slot -> FsRec], NEW x \in Slot, fstab' = [fstab EXCEPT ![x] = NoFs],
           \A s \in Slot : s # x /\ fstab[s].vol # Null => disk'[fstab[s].vol] = disk[fstab[s].vol]
    PROVE  /\ SlotsOK'
           /\ \A c \in Device : Slotted(c)' = IF c = fstab[x].dev THEN 0 ELSE Slotted(c)
           /\ \A s \in Slot : s # x => fstab'[s] = fstab[s]
           /\ \A s \in Slot : s # x /\ fstab[x].dev # Null => fstab'[s].dev # fstab[x].dev
<1>1. fstab'[x] = NoFs /\ \A s \in Slot : s # x => fstab'[s] = fstab[s]
  OBVIOUS
<1>2. NoFs.vol = Null /\ NoFs.dev = Null
  BY DEF NoFs
<1>3. \A s \in Slot : fstab'[s].dev = Null => fstab'[s] = NoFs
  BY <1>1 DEF SlotsOK
<1>4. \A s \in Slot : fstab'[s].vol # Null => disk'[fstab'[s].vol] = fstab'[s].dev /\ fstab'[s].dev # Null
  BY <1>1, <1>2 DEF SlotsOK
<1>5. \A s, q \in Slot : fstab'[s].vol # Null /\ fstab'[s].vol = fstab'[q].vol => s = q
  BY <1>1, <1>2 DEF SlotsOK
<1>6. \A s, q \in Slot : fstab'[s].dev # Null /\ fstab'[s].dev = fstab'[q].dev => s = q
  BY <1>1, <1>2 DEF SlotsOK
<1>7. \A s \in Slot : s # x /\ fstab[x].dev # Null => fstab'[s].dev # fstab[x].dev
  BY <1>1 DEF SlotsOK
<1>8. ASSUME NEW c \in Device PROVE Slotted(c)' = IF c = fstab[x].dev THEN 0 ELSE Slotted(c)
  <2>0. c # Null
    BY DfsAssumption
  <2>1. CASE c = fstab[x].dev
    <3>1. \A s \in Slot : fstab'[s].dev # c
      BY <1>1, <1>2, <1>7, <2>0, <2>1
    <3> QED  BY <2>1, <3>1 DEF Slotted
  <2>2. CASE c # fstab[x].dev
    <3>1. \A s \in Slot : fstab'[s].dev = c <=> fstab[s].dev = c
      BY <1>1, <1>2, <2>0, <2>2
    <3> QED  BY <2>2, <3>1 DEF Slotted
  <2> QED  BY <2>1, <2>2
<1> QED  BY <1>1, <1>3, <1>4, <1>5, <1>6, <1>7, <1>8 DEF SlotsOK

\* A mount under way.
LEMMA MountingKnown ==
    ASSUME DfsInv, MountInv, OneAdmin, NEW t \in Admin, pc[t].at \in Mounting,
           NEW x, x = pc[t].fs, NEW d, d = pc[t].dev
    PROVE  /\ x \in Slot /\ d \in Device /\ d # Null /\ fstab[x].dev = d /\ fstab[x].vol = Null
           /\ fstab[x] # NoFs /\ Slotted(d) = 1
           /\ \A e \in Device : ~Formatting(t, e) /\ Slotted(e) \in {0, 1}
           /\ \A e \in Device : opened[e] = Slotted(e) - (IF Opening(t, e) THEN 1 ELSE 0)
           /\ \A w \in Vol : disk[w] # Null => (\E s \in Slot : fstab[s].vol = w) \/ Uses(t, w)
<1>1. AdminOK(t) /\ MountAt(t)
  BY MountKnown
<1>2. x \in Slot /\ d \in Device /\ fstab[x].dev = d /\ fstab[x].vol = Null /\ fstab[x] # NoFs
  BY <1>1 DEF AdminOK, MountAt, Mounting
<1>3. d # Null
  BY <1>2, DfsAssumption
<1>4. Slotted(d) = 1
  BY <1>2 DEF Slotted
<1>5. pc[t].at # "format"
  BY DEF Mounting
<1>6. \A e \in Device : ~Formatting(t, e) /\ Slotted(e) \in {0, 1}
  BY <1>5, CountCases
<1>7. ASSUME NEW e \in Device PROVE opened[e] = Slotted(e) - (IF Opening(t, e) THEN 1 ELSE 0)
  <2>1. opened[e] = Slotted(e) - (IF Opening(t, e) THEN 1 ELSE 0)
                               + (IF Formatting(t, e) THEN 1 ELSE 0)
    BY MountKnown
  <2> QED  BY <1>6, <2>1
<1> QED  BY <1>2, <1>3, <1>4, <1>6, <1>7, MountKnown

LEMMA MountMountDevice ==
    ASSUME DfsInv, MountInv, OneAdmin, NEW t \in Admin, MountDevice(t)
    PROVE  MountGoal(t)
<1>0. pc[t].at = "device" /\ disk' = disk
  BY DEF MountDevice, At
<1>1. /\ disk \in [Vol -> Device \cup {Null}] /\ opened \in [Device -> Nat] /\ SlotsOK
      /\ fstab \in [Slot -> FsRec] /\ FileInv /\ pc[t] \in PcRec
  BY MountKnown
<1>2. PICK x, d : x = pc[t].fs /\ d = pc[t].dev
  OBVIOUS
<1>3. pc[t].at \in Mounting
  BY <1>0 DEF Mounting
<1>4. /\ x \in Slot /\ d \in Device /\ d # Null /\ fstab[x].dev = d /\ fstab[x].vol = Null
      /\ Slotted(d) = 1 /\ \A e \in Device : Slotted(e) \in {0, 1}
      /\ \A e \in Device : opened[e] = Slotted(e) - (IF Opening(t, e) THEN 1 ELSE 0)
      /\ \A w \in Vol : disk[w] # Null => (\E s \in Slot : fstab[s].vol = w) \/ Uses(t, w)
  BY <1>2, <1>3, MountingKnown
<1>5. \A w \in Vol : disk[w] # Null => \E s \in Slot : fstab[s].vol = w
  BY <1>0, <1>4 DEF Uses
<1>6. \A e \in Device : opened[e] = IF e = d THEN 0 ELSE Slotted(e)
  BY <1>0, <1>2, <1>4 DEF Opening
<1>7. ASSUME opened' = [opened EXCEPT ![d] = opened[d] + 1],
             Goto(t, [pc[t] EXCEPT !.at = "claim"]), fstab' = fstab
      PROVE  MountGoal(t)
  <2>1. PICK r : r = At1(pc[t], "claim")
    OBVIOUS
  <2>2. Goto(t, r)
    BY <1>7, <2>1 DEF At1
  <2>3. r.at = "claim" /\ r.fs = x /\ r.dev = d
    BY <1>1, <1>2, <2>1 DEF At1, PcRec
  <2>4. pc'[t] = r
    BY <1>1, <2>2, GotoOthers
  <2>5. SlotsOK'
    BY <1>0, <1>1, <1>7 DEF SlotsOK
  <2>6. MountAt(t)'
    BY <1>4, <1>7, <2>3, <2>4 DEF MountAt
  <2>7. \A e \in Device : Slotted(e)' = Slotted(e) /\ ~Opening(t, e)' /\ ~Formatting(t, e)'
    BY <1>7, <2>3, <2>4 DEF Slotted, Opening, Formatting
  <2>8. \A e \in Device : opened'[e] = IF e = d THEN opened[e] + 1 ELSE opened[e]
    BY <1>1, <1>7
  <2>9. \A e \in Device : opened'[e] = Slotted(e)' - (IF Opening(t, e)' THEN 1 ELSE 0)
                                                   + (IF Formatting(t, e)' THEN 1 ELSE 0)
    BY <1>4, <1>6, <2>7, <2>8
  <2> QED  BY <1>0, <1>5, <1>7, <2>5, <2>6, <2>9 DEF MountGoal
<1>8. ASSUME fstab' = [fstab EXCEPT ![x] = NoFs], Goto(t, Ready), opened' = opened
      PROVE  MountGoal(t)
  <2>1. pc'[t].at = "user"
    BY <1>1, <1>8, GotoOthers DEF Ready
  <2>2. /\ SlotsOK' /\ \A c \in Device : Slotted(c)' = IF c = fstab[x].dev THEN 0 ELSE Slotted(c)
        /\ \A s \in Slot : s # x => fstab'[s] = fstab[s]
    BY <1>0, <1>1, <1>4, <1>8, EntryCleared
  <2>3. MountAt(t)'
    BY <2>1 DEF MountAt, Mounting
  <2>4. \A w \in Vol : disk'[w] # Null => \E s \in Slot : fstab'[s].vol = w
    <3> SUFFICES ASSUME NEW w \in Vol, disk'[w] # Null PROVE \E s \in Slot : fstab'[s].vol = w
      OBVIOUS
    <3>1. PICK s \in Slot : fstab[s].vol = w
      BY <1>0, <1>5
    <3>2. w # Null
      BY FdFacts
    <3> QED  BY <1>4, <2>2, <3>1, <3>2
  <2>5. \A e \in Device : ~Opening(t, e)' /\ ~Formatting(t, e)'
    BY <2>1, CountCasesNext
  <2>6. \A e \in Device : opened'[e] = Slotted(e)' - (IF Opening(t, e)' THEN 1 ELSE 0)
                                                   + (IF Formatting(t, e)' THEN 1 ELSE 0)
    BY <1>4, <1>6, <1>8, <2>2, <2>5
  <2> QED  BY <2>2, <2>3, <2>4, <2>6 DEF MountGoal
<1> QED  BY <1>2, <1>7, <1>8 DEF MountDevice

LEMMA MountMountClaim ==
    ASSUME DfsInv, MountInv, OneAdmin, NEW t \in Admin, MountClaim(t)
    PROVE  MountGoal(t)
<1>0. pc[t].at = "claim" /\ disk' = disk /\ opened' = opened /\ fstab' = fstab
  BY DEF MountClaim, At
<1>1. /\ SlotsOK /\ FileInv /\ pc[t] \in PcRec
  BY MountKnown
<1>2. PICK x, d : x = pc[t].fs /\ d = pc[t].dev
  OBVIOUS
<1>3. pc[t].at \in Mounting
  BY <1>0 DEF Mounting
<1>4. /\ fstab[x].dev = d /\ \A e \in Device : Slotted(e) \in {0, 1}
      /\ \A e \in Device : opened[e] = Slotted(e) - (IF Opening(t, e) THEN 1 ELSE 0)
      /\ \A w \in Vol : disk[w] # Null => (\E s \in Slot : fstab[s].vol = w) \/ Uses(t, w)
  BY <1>2, <1>3, MountingKnown
<1>5. \A w \in Vol : disk[w] # Null => \E s \in Slot : fstab[s].vol = w
  BY <1>0, <1>4 DEF Uses
<1>6. \A e \in Device : opened[e] = Slotted(e)
  BY <1>0, <1>4 DEF Opening
<1>7. PICK v : v = get_disk(Null)
  OBVIOUS
<1>8. v # Null => disk[v] = Null
  BY <1>7, GetDisk
<1>9. PICK a : a = IF v = Null THEN "undo" ELSE "install"
  OBVIOUS
<1>10. PICK r : r = AtVol(pc[t], a, v)
  OBVIOUS
<1>11. Goto(t, r)
  BY <1>7, <1>9, <1>10 DEF MountClaim, AtVol
<1>12. r.at = a /\ r.fs = x /\ r.dev = d /\ r.vol = v
  BY <1>1, <1>2, <1>10 DEF AtVol, PcRec
<1>13. pc'[t] = r
  BY <1>1, <1>11, GotoOthers
<1>14. a \in {"undo", "install"} /\ (a = "install" => v # Null)
  BY <1>9
<1>15. SlotsOK'
  BY <1>0, <1>1 DEF SlotsOK
<1>16. MountAt(t)'
  BY <1>0, <1>4, <1>8, <1>12, <1>13, <1>14 DEF MountAt
<1>17. \A e \in Device : Slotted(e)' = Slotted(e) /\ ~Opening(t, e)' /\ ~Formatting(t, e)'
  BY <1>0, <1>12, <1>13, <1>14 DEF Slotted, Opening, Formatting
<1>18. \A e \in Device : opened'[e] = Slotted(e)' - (IF Opening(t, e)' THEN 1 ELSE 0)
                                                  + (IF Formatting(t, e)' THEN 1 ELSE 0)
  BY <1>0, <1>4, <1>6, <1>17
<1> QED  BY <1>0, <1>5, <1>15, <1>16, <1>18 DEF MountGoal

LEMMA MountMountInstall ==
    ASSUME DfsInv, MountInv, OneAdmin, BigSector = {}, NEW t \in Admin, MountInstall(t)
    PROVE  MountGoal(t)
<1>1. PICK x, d, v : x = pc[t].fs /\ d = pc[t].dev /\ v = pc[t].vol
  OBVIOUS
<1>0. pc[t].at = "install" /\ disk' = [disk EXCEPT ![v] = d] /\ opened' = opened /\ fstab' = fstab
  BY <1>1 DEF MountInstall, At
<1>2. /\ SlotsOK /\ FileInv /\ pc[t] \in PcRec /\ disk \in [Vol -> Device \cup {Null}]
      /\ fstab \in [Slot -> FsRec]
  BY MountKnown
<1>3. pc[t].at \in Mounting
  BY <1>0 DEF Mounting
<1>4. /\ d \in Device /\ d # Null /\ fstab[x].dev = d /\ \A e \in Device : Slotted(e) \in {0, 1}
      /\ \A e \in Device : opened[e] = Slotted(e) - (IF Opening(t, e) THEN 1 ELSE 0)
      /\ \A w \in Vol : disk[w] # Null => (\E s \in Slot : fstab[s].vol = w) \/ Uses(t, w)
  BY <1>1, <1>3, MountingKnown
<1>5. v \in Vol /\ v # Null /\ disk[v] = Null
  <2>1. AdminOK(t) /\ MountAt(t)
    BY MountKnown
  <2> QED  BY <1>0, <1>1, <2>1, FdFacts DEF AdminOK, MountAt
<1>6. \A s \in Slot : fstab[s].vol # v
  BY <1>2, <1>5 DEF SlotsOK
<1>7. \A e \in Device : opened[e] = Slotted(e)
  BY <1>0, <1>4 DEF Opening
<1>8. PICK r : r = At1(pc[t], "fat")
  OBVIOUS
<1>9. Goto(t, r)
  BY <1>8 DEF MountInstall, At1
<1>10. r.at = "fat" /\ r.fs = x /\ r.dev = d /\ r.vol = v
  BY <1>1, <1>2, <1>8 DEF At1, PcRec
<1>11. pc'[t] = r
  BY <1>2, <1>9, GotoOthers
<1>12. SlotsOK'
  <2>1. \A s \in Slot : fstab[s].vol # Null => disk'[fstab[s].vol] = disk[fstab[s].vol]
    BY <1>0, <1>2, <1>6 DEF FsRec
  <2> QED  BY <1>0, <1>2, <2>1 DEF SlotsOK
<1>13. MountAt(t)'
  BY <1>0, <1>2, <1>4, <1>5, <1>6, <1>10, <1>11 DEF MountAt
<1>14. \A w \in Vol : disk'[w] # Null => (\E s \in Slot : fstab'[s].vol = w) \/ Uses(t, w)'
  <2> SUFFICES ASSUME NEW w \in Vol, disk'[w] # Null
               PROVE  (\E s \in Slot : fstab'[s].vol = w) \/ Uses(t, w)'
    OBVIOUS
  <2>1. CASE w = v
    BY <1>10, <1>11, <2>1 DEF Uses
  <2>2. CASE w # v
    <3>1. disk[w] # Null
      BY <1>0, <1>2, <2>2
    <3> QED  BY <1>0, <1>4, <3>1 DEF Uses
  <2> QED  BY <2>1, <2>2
<1>15. \A e \in Device : Slotted(e)' = Slotted(e) /\ ~Opening(t, e)' /\ ~Formatting(t, e)'
  BY <1>0, <1>10, <1>11 DEF Slotted, Opening, Formatting
<1>16. \A e \in Device : opened'[e] = Slotted(e)' - (IF Opening(t, e)' THEN 1 ELSE 0)
                                                  + (IF Formatting(t, e)' THEN 1 ELSE 0)
  BY <1>0, <1>4, <1>7, <1>15
<1> QED  BY <1>12, <1>13, <1>14, <1>16 DEF MountGoal

LEMMA MountMountFat ==
    ASSUME DfsInv, MountInv, OneAdmin, NEW t \in Admin, MountFat(t)
    PROVE  MountGoal(t)
<1>1. PICK x, d, v : x = pc[t].fs /\ d = pc[t].dev /\ v = pc[t].vol
  OBVIOUS
<1>0. pc[t].at = "fat" /\ opened' = opened
  BY DEF MountFat, At
<1>2. /\ SlotsOK /\ FileInv /\ pc[t] \in PcRec /\ disk \in [Vol -> Device \cup {Null}]
      /\ fstab \in [Slot -> FsRec]
  BY MountKnown
<1>3. pc[t].at \in Mounting
  BY <1>0 DEF Mounting
<1>4. /\ x \in Slot /\ d \in Device /\ d # Null /\ fstab[x].dev = d /\ fstab[x].vol = Null
      /\ \A e \in Device : Slotted(e) \in {0, 1}
      /\ \A e \in Device : opened[e] = Slotted(e) - (IF Opening(t, e) THEN 1 ELSE 0)
      /\ \A w \in Vol : disk[w] # Null => (\E s \in Slot : fstab[s].vol = w) \/ Uses(t, w)
  BY <1>1, <1>3, MountingKnown
<1>5. v \in Vol /\ v # Null /\ disk[v] = d /\ \A s \in Slot : fstab[s].vol # v
  <2>1. AdminOK(t) /\ MountAt(t)
    BY MountKnown
  <2> QED  BY <1>0, <1>1, <2>1, FdFacts DEF AdminOK, MountAt
<1>6. \A e \in Device : opened[e] = Slotted(e)
  BY <1>0, <1>4 DEF Opening
<1>7. \A w \in Vol : disk[w] # Null => w = v \/ \E s \in Slot : fstab[s].vol = w
  BY <1>1, <1>4 DEF Uses
<1>8. ASSUME fstab' = [fstab EXCEPT ![x].vol = v], Goto(t, Ready), disk' = disk
      PROVE  MountGoal(t)
  <2>1. pc'[t].at = "user"
    BY <1>2, <1>8, GotoOthers DEF Ready
  <2>2. PICK e, b : b = fstab[x] /\ e = [b EXCEPT !.vol = v]
    OBVIOUS
  <2>3. fstab' = [fstab EXCEPT ![x] = e]
    BY <1>8, <2>2
  <2>4. e.vol = v /\ e.dev = d
    <3>1. b \in FsRec /\ b.dev = d
      BY <1>2, <1>4, <2>2
    <3> QED  BY <2>2, <3>1 DEF FsRec
  <2>5. fstab'[x] = e /\ \A s \in Slot : s # x => fstab'[s] = fstab[s]
    BY <1>2, <1>4, <2>3
  <2>6. \A s \in Slot : fstab'[s].dev = fstab[s].dev
    BY <1>4, <2>4, <2>5
  <2>7. SlotsOK'
    <3>1. \A s \in Slot : fstab'[s].dev = Null => fstab'[s] = NoFs
      BY <1>2, <1>4, <2>4, <2>5 DEF SlotsOK
    <3>2. \A s \in Slot : fstab'[s].vol # Null => disk'[fstab'[s].vol] = fstab'[s].dev /\ fstab'[s].dev # Null
      BY <1>2, <1>4, <1>5, <1>8, <2>4, <2>5 DEF SlotsOK
    <3>3. \A s, q \in Slot : fstab'[s].vol # Null /\ fstab'[s].vol = fstab'[q].vol => s = q
      BY <1>2, <1>5, <2>4, <2>5 DEF SlotsOK
    <3>4. \A s, q \in Slot : fstab'[s].dev # Null /\ fstab'[s].dev = fstab'[q].dev => s = q
      BY <1>2, <2>6 DEF SlotsOK
    <3> QED  BY <3>1, <3>2, <3>3, <3>4 DEF SlotsOK
  <2>8. MountAt(t)'
    BY <2>1 DEF MountAt, Mounting
  <2>9. \A w \in Vol : disk'[w] # Null => \E s \in Slot : fstab'[s].vol = w
    <3> SUFFICES ASSUME NEW w \in Vol, disk'[w] # Null PROVE \E s \in Slot : fstab'[s].vol = w
      OBVIOUS
    <3>1. CASE w = v
      BY <1>4, <2>4, <2>5, <3>1
    <3>2. CASE w # v
      <4>1. PICK s \in Slot : fstab[s].vol = w
        BY <1>7, <1>8, <3>2
      <4>2. w # Null
        BY FdFacts
      <4> QED  BY <1>4, <2>5, <4>1, <4>2
    <3> QED  BY <3>1, <3>2
  <2>10. \A c \in Device : Slotted(c)' = Slotted(c) /\ ~Opening(t, c)' /\ ~Formatting(t, c)'
    BY <2>1, <2>6 DEF Slotted, Opening, Formatting
  <2>11. \A c \in Device : opened'[c] = Slotted(c)' - (IF Opening(t, c)' THEN 1 ELSE 0)
                                                    + (IF Formatting(t, c)' THEN 1 ELSE 0)
    BY <1>0, <1>4, <1>6, <2>10
  <2> QED  BY <2>7, <2>8, <2>9, <2>11 DEF MountGoal
<1>9. ASSUME disk' = [disk EXCEPT ![v] = Null], Goto(t, [pc[t] EXCEPT !.at = "undo"]), fstab' = fstab
      PROVE  MountGoal(t)
  <2>1. PICK r : r = At1(pc[t], "undo")
    OBVIOUS
  <2>2. Goto(t, r)
    BY <1>9, <2>1 DEF At1
  <2>3. r.at = "undo" /\ r.fs = x /\ r.dev = d
    BY <1>1, <1>2, <2>1 DEF At1, PcRec
  <2>4. pc'[t] = r
    BY <1>2, <2>2, GotoOthers
  <2>5. SlotsOK'
    <3>1. \A s \in Slot : fstab[s].vol # Null => disk'[fstab[s].vol] = disk[fstab[s].vol]
      BY <1>2, <1>5, <1>9 DEF FsRec
    <3> QED  BY <1>2, <1>9, <3>1 DEF SlotsOK
  <2>6. MountAt(t)'
    BY <1>4, <1>9, <2>3, <2>4 DEF MountAt
  <2>7. \A w \in Vol : disk'[w] # Null => \E s \in Slot : fstab'[s].vol = w
    BY <1>2, <1>7, <1>9
  <2>8. \A c \in Device : Slotted(c)' = Slotted(c) /\ ~Opening(t, c)' /\ ~Formatting(t, c)'
    BY <1>9, <2>3, <2>4 DEF Slotted, Opening, Formatting
  <2>9. \A c \in Device : opened'[c] = Slotted(c)' - (IF Opening(t, c)' THEN 1 ELSE 0)
                                                   + (IF Formatting(t, c)' THEN 1 ELSE 0)
    BY <1>0, <1>4, <1>6, <2>8
  <2> QED  BY <2>5, <2>6, <2>7, <2>9 DEF MountGoal
<1> QED  BY <1>1, <1>8, <1>9 DEF MountFat

LEMMA MountMountUndo ==
    ASSUME DfsInv, MountInv, OneAdmin, NEW t \in Admin, MountUndo(t)
    PROVE  MountGoal(t)
<1>1. PICK x, d : x = pc[t].fs /\ d = pc[t].dev
  OBVIOUS
<1>0. /\ pc[t].at = "undo" /\ disk' = disk /\ opened' = DeviceClose(d)
      /\ fstab' = [fstab EXCEPT ![x] = NoFs] /\ Goto(t, Ready)
  BY <1>1 DEF MountUndo, At
<1>2. /\ SlotsOK /\ FileInv /\ fstab \in [Slot -> FsRec] /\ opened \in [Device -> Nat]
  BY MountKnown
<1>3. pc[t].at \in Mounting
  BY <1>0 DEF Mounting
<1>4. /\ x \in Slot /\ d \in Device /\ fstab[x].dev = d /\ fstab[x].vol = Null /\ Slotted(d) = 1
      /\ \A e \in Device : Slotted(e) \in {0, 1}
      /\ \A e \in Device : opened[e] = Slotted(e) - (IF Opening(t, e) THEN 1 ELSE 0)
      /\ \A w \in Vol : disk[w] # Null => (\E s \in Slot : fstab[s].vol = w) \/ Uses(t, w)
  BY <1>1, <1>3, MountingKnown
<1>5. \A w \in Vol : disk[w] # Null => \E s \in Slot : fstab[s].vol = w
  BY <1>0, <1>4 DEF Uses
<1>6. \A e \in Device : opened[e] = Slotted(e)
  BY <1>0, <1>4 DEF Opening
<1>7. pc'[t].at = "user"
  BY <1>0, <1>2, GotoOthers DEF Ready
<1>8. /\ SlotsOK' /\ \A c \in Device : Slotted(c)' = IF c = d THEN 0 ELSE Slotted(c)
      /\ \A s \in Slot : s # x => fstab'[s] = fstab[s]
  BY <1>0, <1>2, <1>4, EntryCleared
<1>9. MountAt(t)'
  BY <1>7 DEF MountAt, Mounting
<1>10. \A w \in Vol : disk'[w] # Null => \E s \in Slot : fstab'[s].vol = w
  <2> SUFFICES ASSUME NEW w \in Vol, disk'[w] # Null PROVE \E s \in Slot : fstab'[s].vol = w
    OBVIOUS
  <2>1. PICK s \in Slot : fstab[s].vol = w
    BY <1>0, <1>5
  <2>2. w # Null
    BY FdFacts
  <2> QED  BY <1>4, <1>8, <2>1, <2>2
<1>11. \A c \in Device : opened'[c] = IF c = d THEN (IF opened[c] = 0 THEN 0 ELSE opened[c] - 1) ELSE opened[c]
  BY <1>0, <1>2 DEF DeviceClose
<1>12. \A c \in Device : ~Opening(t, c)' /\ ~Formatting(t, c)'
  BY <1>7, CountCasesNext
<1>13. \A c \in Device : opened'[c] = Slotted(c)' - (IF Opening(t, c)' THEN 1 ELSE 0)
                                                  + (IF Formatting(t, c)' THEN 1 ELSE 0)
  BY <1>4, <1>6, <1>8, <1>11, <1>12
<1> QED  BY <1>8, <1>9, <1>10, <1>13 DEF MountGoal

LEMMA MountUnmount ==
    ASSUME DfsInv, MountInv, OneAdmin, Careful, NEW t \in Admin, NEW name \in Name, dfs_unmount(t, name)
    PROVE  MountInv'
<1>0. /\ pc[t].at = "user" /\ pc' = pc
  BY DEF dfs_unmount, At
<1>1. PICK f : f = dfs_normalize_path(name)
  OBVIOUS
<1> DEFINE found == {s \in Slot : f # Null /\ fstab[s].path = f.parts}
<1>2. PICK x : x = Min(found)
  OBVIOUS
<1>3. f # Null /\ found # {}
  BY <1>1 DEF dfs_unmount
<1>4. x \in Slot
  <2>1. found \subseteq Nat
    BY DfsAssumption DEF Slot
  <2>2. Min(found) \in found
    BY <1>3, <2>1, MinProperties
  <2> QED  BY <1>2, <2>2
<1>5. PICK d, v : d = fstab[x].dev /\ v = get_disk(d)
  OBVIOUS
<1>6. \/ fstab[x].vol = Null /\ UNCHANGED <<fstab, disk, opened>>
      \/ /\ fstab[x].vol # Null /\ v # Null
         /\ disk' = [disk EXCEPT ![v] = Null]
         /\ opened' = DeviceClose(d)
         /\ fstab' = [fstab EXCEPT ![x] = NoFs]
  BY <1>1, <1>2, <1>5 DEF dfs_unmount
<1> HIDE DEF found
<1>7. CASE fstab[x].vol = Null /\ UNCHANGED <<fstab, disk, opened>>
  BY <1>0, <1>7, MountInvSame
<1>8. CASE /\ fstab[x].vol # Null /\ v # Null
           /\ disk' = [disk EXCEPT ![v] = Null]
           /\ opened' = DeviceClose(d)
           /\ fstab' = [fstab EXCEPT ![x] = NoFs]
  <2>1. /\ SlotsOK /\ fstab \in [Slot -> FsRec] /\ opened \in [Device -> Nat]
        /\ disk \in [Vol -> Device \cup {Null}]
    BY MountKnown
  <2>2. v \in Vol /\ disk[v] = d
    BY <1>5, <1>8, GetDisk
  <2>3. d \in Device /\ d # Null
    BY <1>4, <1>5, <1>8, <2>1 DEF SlotsOK, FsRec
  <2>4. \A w \in Vol : disk[w] # Null => \E s \in Slot : fstab[s].vol = w
    BY <1>0, MountKnown, CountCases
  <2>5. \A e \in Device : opened[e] = Slotted(e) /\ Slotted(e) \in {0, 1}
    <3> SUFFICES ASSUME NEW e \in Device PROVE opened[e] = Slotted(e) /\ Slotted(e) \in {0, 1}
      OBVIOUS
    <3>1. ~Opening(t, e) /\ ~Formatting(t, e) /\ Slotted(e) \in {0, 1}
      BY <1>0, CountCases
    <3>2. opened[e] = Slotted(e) - 0 + 0
      BY <3>1, MountKnown
    <3> QED  BY <3>1, <3>2
  \* The volume that get_disk finds is the one of the entry.
  <2>6. v = fstab[x].vol
    <3>1. PICK s \in Slot : fstab[s].vol = v
      BY <2>2, <2>3, <2>4
    <3>2. fstab[s].dev = d
      BY <1>8, <2>1, <2>2, <3>1 DEF SlotsOK
    <3>3. s = x
      BY <1>4, <1>5, <2>1, <2>3, <3>2 DEF SlotsOK
    <3> QED  BY <3>1, <3>3
  <2>7. \A s \in Slot : s # x => fstab[s].vol # v
    BY <1>4, <1>8, <2>1, <2>6 DEF SlotsOK
  <2>8. \A s \in Slot : s # x /\ fstab[s].vol # Null => disk'[fstab[s].vol] = disk[fstab[s].vol]
    BY <1>8, <2>1, <2>7 DEF FsRec
  <2>9. /\ SlotsOK' /\ \A c \in Device : Slotted(c)' = IF c = d THEN 0 ELSE Slotted(c)
        /\ \A s \in Slot : s # x => fstab'[s] = fstab[s]
    BY <1>4, <1>5, <1>8, <2>1, <2>8, EntryCleared
  <2>10. MountAt(t)'
    BY <1>0 DEF MountAt, Mounting
  <2>11. \A w \in Vol : disk'[w] # Null => \E s \in Slot : fstab'[s].vol = w
    <3> SUFFICES ASSUME NEW w \in Vol, disk'[w] # Null PROVE \E s \in Slot : fstab'[s].vol = w
      OBVIOUS
    <3>1. w # v /\ disk[w] # Null
      BY <1>8, <2>1
    <3>2. PICK s \in Slot : fstab[s].vol = w
      BY <2>4, <3>1
    <3> QED  BY <2>6, <2>9, <3>1, <3>2
  <2>12. \A c \in Device : opened'[c] = IF c = d THEN (IF opened[c] = 0 THEN 0 ELSE opened[c] - 1) ELSE opened[c]
    BY <1>8, <2>1 DEF DeviceClose
  <2>13. \A c \in Device : ~Opening(t, c)' /\ ~Formatting(t, c)'
    BY <1>0, CountCasesNext
  <2>14. \A c \in Device : opened'[c] = Slotted(c)' - (IF Opening(t, c)' THEN 1 ELSE 0)
                                                    + (IF Formatting(t, c)' THEN 1 ELSE 0)
    <3>1. \A c \in Device : opened'[c] = Slotted(c)'
      BY <2>5, <2>9, <2>12
    <3>2. \A c \in Device : Slotted(c)' \in {0, 1}
      BY CountCasesNext
    <3> QED  BY <2>13, <3>1, <3>2
  <2>15. MountGoal(t)
    BY <2>9, <2>10, <2>11, <2>14 DEF MountGoal
  <2> QED  BY <2>15, MountGoalOK
<1> QED  BY <1>6, <1>7, <1>8

LEMMA MountInvStep ==
    ASSUME DfsInv, MountInv, OneAdmin, Careful, BigSector = {}, [Next]_vars
    PROVE  MountInv'
<1>0. (\A name \in MountNames : name \in Name) /\ FileInv
  BY DfsAssumption DEF DfsInv
<1>1. CASE UNCHANGED vars
  <2>1. fstab' = fstab /\ disk' = disk /\ opened' = opened /\ pc' = pc
    BY <1>1 DEF vars
  <2> QED  BY <2>1, MountInvSame
<1>2. ASSUME NEW t \in Thread, FileStep(t) PROVE MountInv'
  <2>1. UNCHANGED <<fstab, disk, opened>> /\ \A u \in Admin : pc'[u] = pc[u]
    BY <1>0, <1>2, FileStepFrame
  <2> QED  BY <2>1, MountInvSame
<1>3. ASSUME NEW t \in Admin, AdminStep(t) PROVE MountInv'
  <2>1. ASSUME NEW name \in MountNames, dfs_unmount(t, name) PROVE MountInv'
    BY <1>0, <2>1, MountUnmount
  <2>2. ASSUME ~\E name \in MountNames : dfs_unmount(t, name) PROVE MountGoal(t)
    BY <1>0, <1>3, <2>2, MountMount, MountMkfs, MountMountRegister, MountMountDevice, MountMountClaim,
       MountMountInstall, MountMountFat, MountMountUndo, MountMkfsDone DEF AdminStep
  <2> QED  BY <2>1, <2>2, MountGoalOK
<1> QED  BY <1>1, <1>2, <1>3 DEF Next

\* Volumes and open devices belong to the mounted file systems, one each, and to the
\* mount or format under way, through every failure of dfs_mount and dfs_mkfs, for any
\* number of threads, entries, volumes and devices, if one thread administers them and no
\* device has sectors that are too large (elm_mount keeps their volume, see BigSector).
THEOREM MountsAccountedInvariance ==
    ASSUME Careful, OneAdmin, BigSector = {} PROVE Spec => []MountsAccounted
<1>1. ASSUME DfsInv, MountInv, [Next]_vars PROVE MountInv'
  BY <1>1, MountInvStep
<1>2. ASSUME DfsInv, MountInv PROVE MountsAccounted
  BY <1>2, MountInvAccounts
<1> QED  BY <1>1, <1>2, MountInvInit, DfsInvariance, PTL DEF Spec

=============================================================================
