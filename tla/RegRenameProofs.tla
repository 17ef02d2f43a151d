-------------------------- MODULE RegRenameProofs --------------------------
(***************************************************************************)
(* Proofs about RegRename for every number of registers, entries and       *)
(* checkpoints.                                                            *)
(*                                                                         *)
(* A clock edge completes some instructions, retires up to two and renames *)
(* up to two.  The proof takes it apart into those elementary steps: WInv  *)
(* is the inductive invariant written over explicit maps and a window, and *)
(* one lemma shows that each elementary step preserves it.  That slot 1    *)
(* with its bypass equals a second single rename is renamed1_fields.       *)
(***************************************************************************)
EXTENDS RegRename, SequenceTheorems, WellFoundedInduction, TLAPS

-----------------------------------------------------------------------------
(* The parts of the invariant, over a retired map r, a free set fr, ready  *)
(* bits rd, a speculative map m and a window q.                            *)

EntriesOK(q) ==
  /\ q \in Seq(Entry)
  /\ \A i \in 1 .. Len(q) : (q[i].wen <=> q[i].new # 0)
                            /\ (q[i].wen => q[i].rd # 0)

MapsOK(r, fr, rd, m) ==
  /\ r \in [Arch -> Phys] /\ r[0] = 0
  /\ m \in [Arch -> Phys]
  /\ fr \subseteq Phys \ {0}
  /\ rd \subseteq Phys /\ 0 \in rd

Injective(r) == \A a, b \in Arch : a # b => r[a] # r[b]

Covered(r, fr, q) ==
  \A p \in Phys \ {0} : \/ p \in fr
                        \/ \E a \in Arch : r[a] = p
                        \/ \E i \in 1 .. Len(q) : q[i].wen /\ q[i].new = p

Separate(r, fr, q) ==
  /\ \A i, j \in 1 .. Len(q) : q[i].wen /\ q[j].wen /\ i # j
                               => q[i].new # q[j].new
  /\ \A i \in 1 .. Len(q) : q[i].wen => /\ q[i].new \notin fr
                                        /\ \A a \in Arch : q[i].new # r[a]
  /\ \A a \in Arch : r[a] \notin fr

MapOK(r, m, q)  == \A a \in Arch : Names(r, q, Len(q), a, m[a])
SrcOK(r, q)     == \A i \in 1 .. Len(q) : Names(r, q, i - 1, q[i].rs, q[i].psrc)
OldOK(r, q)     == \A i \in 1 .. Len(q) :
                     q[i].wen => Names(r, q, i - 1, q[i].rd, q[i].old)
SnapOK(r, q)    == \A i \in 1 .. Len(q) : q[i].open =>
                     \A a \in Arch : Names(r, q, i, a, q[i].snap[a])
ReadyOK(r, rd, q) ==
  /\ \A i \in 1 .. Len(q) : q[i].wen => (q[i].new \in rd <=> q[i].st = "done")
  /\ \A a \in Arch : r[a] \in rd
SrdyOK(q) == \A i \in 1 .. Len(q) : q[i].srdy =>
               \A j \in 1 .. i - 1 :
                 q[j].wen /\ q[j].new = q[i].psrc => q[j].st = "done"

WInv(r, fr, rd, m, q) ==
  /\ EntriesOK(q) /\ MapsOK(r, fr, rd, m) /\ Injective(r)
  /\ Covered(r, fr, q) /\ Separate(r, fr, q)
  /\ MapOK(r, m, q) /\ SrcOK(r, q) /\ OldOK(r, q) /\ SnapOK(r, q)
  /\ ReadyOK(r, rd, q) /\ SrdyOK(q)

(* The inductive invariant.  While a control event is being recovered only *)
(* the retired map matters.                                                *)
IInv ==
  /\ TypeOK
  /\ Injective(rrat)
  /\ identity_error = FALSE
  /\ ~trap => WInv(rrat, free, ready, rat, rob)

-----------------------------------------------------------------------------
(* Basic facts.                                                            *)

LEMMA LowestMember ==
  ASSUME NEW S, S \subseteq Nat, S # {}
  PROVE  Lowest(S) \in S
<1>1. \E x \in S : \A y \in S : <<y, x>> \notin OpToRel(<, Nat)
  BY NatLessThanWellFounded, WFMin
<1>2. PICK x \in S : \A y \in S : <<y, x>> \notin OpToRel(<, Nat)
  BY <1>1
<1>3. \A y \in S : ~(y < x)
  BY <1>2 DEF OpToRel
<1>4. \A y \in S : x <= y
  BY <1>3
<1> QED BY <1>4 DEF Lowest

LEMMA PhysFacts == /\ Arch \subseteq Phys /\ Phys \subseteq Nat
                   /\ 0 \in Arch /\ 0 \in Phys
  BY SizeAssumption DEF Arch, Phys

(* Names depends only on the destinations of the first k entries.          *)
LEMMA NamesCong ==
  ASSUME NEW r, NEW q1, NEW q2, NEW k \in Nat, NEW a, NEW p,
         \A i \in 1 .. k : /\ q1[i].wen = q2[i].wen /\ q1[i].rd = q2[i].rd
                           /\ q1[i].new = q2[i].new,
         Names(r, q1, k, a, p)
  PROVE  Names(r, q2, k, a, p)
<1>1. \A i \in 1 .. k : Writes(q1, i, a) <=> Writes(q2, i, a)
  BY DEF Writes
<1>2. \A i \in 1 .. k : \A j \in i + 1 .. k : j \in 1 .. k
  OBVIOUS
<1> QED BY <1>1, <1>2 DEF Names

(* Retiring the oldest entry moves its destination into the retired map.   *)
PopMap(r, e) == [a \in Arch |-> IF e.wen /\ e.rd = a THEN e.new ELSE r[a]]

LEMMA NamesPop ==
  ASSUME NEW r, NEW q1, NEW q2, NEW k \in Nat, k >= 1, NEW a \in Arch, NEW p,
         \A i \in 1 .. k - 1 : q2[i] = q1[i + 1],
         Names(r, q1, k, a, p)
  PROVE  Names(PopMap(r, q1[1]), q2, k - 1, a, p)
<1>1. \A i \in 1 .. k - 1 : Writes(q2, i, a) <=> Writes(q1, i + 1, a)
  BY DEF Writes
<1>2. CASE \E i \in 1 .. k : /\ Writes(q1, i, a) /\ p = q1[i].new
                             /\ \A j \in i + 1 .. k : ~Writes(q1, j, a)
  <2>1. PICK i \in 1 .. k : /\ Writes(q1, i, a) /\ p = q1[i].new
                            /\ \A j \in i + 1 .. k : ~Writes(q1, j, a)
    BY <1>2
  <2>2. CASE i = 1
    <3>1. \A j \in 1 .. k - 1 : ~Writes(q2, j, a)
      <4>1. \A j \in 1 .. k - 1 : j + 1 \in i + 1 .. k
        BY <2>2
      <4> QED BY <4>1, <2>1, <1>1
    <3>2. p = PopMap(r, q1[1])[a]
      BY <2>1, <2>2 DEF PopMap, Writes
    <3> QED BY <3>1, <3>2 DEF Names
  <2>3. CASE i > 1
    <3>1. i - 1 \in 1 .. k - 1
      BY <2>3
    <3>2. Writes(q2, i - 1, a) /\ p = q2[i - 1].new
      BY <3>1, <2>1, <1>1
    <3>3. \A j \in (i - 1) + 1 .. k - 1 : ~Writes(q2, j, a)
      <4>1. \A j \in (i - 1) + 1 .. k - 1 : j \in 1 .. k - 1 /\ j + 1 \in i + 1 .. k
        BY <2>3
      <4> QED BY <4>1, <2>1, <1>1
    <3> QED BY <3>1, <3>2, <3>3 DEF Names
  <2> QED BY <2>2, <2>3
<1>3. CASE p = r[a] /\ \A j \in 1 .. k : ~Writes(q1, j, a)
  <2>1. \A j \in 1 .. k - 1 : ~Writes(q2, j, a)
    <3>1. \A j \in 1 .. k - 1 : j + 1 \in 1 .. k
      OBVIOUS
    <3> QED BY <3>1, <1>1, <1>3
  <2>2. p = PopMap(r, q1[1])[a]
    <3>1. ~Writes(q1, 1, a)
      BY <1>3
    <3> QED BY <3>1, <1>3 DEF PopMap, Writes
  <2> QED BY <2>1, <2>2 DEF Names
<1> QED BY <1>2, <1>3 DEF Names

(* A name is the destination of an entry or a retired name.                *)
LEMMA NamesRange ==
  ASSUME NEW r, NEW q, NEW k, NEW a, NEW p, Names(r, q, k, a, p)
  PROVE  (\E i \in 1 .. k : q[i].wen /\ q[i].rd = a /\ p = q[i].new) \/ p = r[a]
  BY DEF Names, Writes

-----------------------------------------------------------------------------
(* The elementary steps.                                                   *)

(* Completion: the entries keep their names; only st changes, and an open  *)
(* branch may close.  Ready bits are set for the normal completions.       *)
SameNames(x, y) ==
  /\ x.wen = y.wen /\ x.rd = y.rd /\ x.new = y.new /\ x.old = y.old
  /\ x.rs = y.rs /\ x.psrc = y.psrc /\ x.srdy = y.srdy

LEMMA CompleteStep ==
  ASSUME NEW r, NEW fr, NEW rd, NEW m, NEW q, WInv(r, fr, rd, m, q),
         NEW q2 \in Seq(Entry), NEW rd2, Len(q2) = Len(q),
         rd \subseteq rd2, rd2 \subseteq Phys,
         \A i \in 1 .. Len(q) :
           /\ SameNames(q2[i], q[i])
           /\ q[i].st = "done" => q2[i].st = "done"
           /\ q2[i].open => q[i].open /\ q2[i].snap = q[i].snap
           /\ q[i].wen => (q[i].new \in rd2 <=> q2[i].st = "done")
  PROVE  WInv(r, fr, rd2, m, q2)
<1> DEFINE n == Len(q)
<1>0. n \in Nat
  BY DEF WInv, EntriesOK
<1>1. EntriesOK(q2)
  BY DEF WInv, EntriesOK, SameNames
<1>2. MapsOK(r, fr, rd2, m) /\ Injective(r)
  BY DEF WInv, MapsOK
<1>3. Covered(r, fr, q2)
  BY DEF WInv, Covered, SameNames
<1>4. Separate(r, fr, q2)
  BY DEF WInv, Separate, SameNames
<1>5. \A k \in 0 .. n : \A a, p : Names(r, q, k, a, p) => Names(r, q2, k, a, p)
  <2> SUFFICES ASSUME NEW k \in 0 .. n, NEW a, NEW p, Names(r, q, k, a, p)
               PROVE  Names(r, q2, k, a, p)
    OBVIOUS
  <2>1. \A i \in 1 .. k : /\ q[i].wen = q2[i].wen /\ q[i].rd = q2[i].rd
                          /\ q[i].new = q2[i].new
    BY <1>0 DEF SameNames
  <2> QED BY <2>1, NamesCong
<1>6. MapOK(r, m, q2)
  BY <1>0, <1>5 DEF WInv, MapOK
<1>7. SrcOK(r, q2)
  <2> SUFFICES ASSUME NEW i \in 1 .. n
               PROVE  Names(r, q2, i - 1, q2[i].rs, q2[i].psrc)
    BY DEF SrcOK
  <2>1. Names(r, q, i - 1, q[i].rs, q[i].psrc)
    BY DEF WInv, SrcOK
  <2>2. i - 1 \in 0 .. n
    BY <1>0
  <2>3. Names(r, q2, i - 1, q[i].rs, q[i].psrc)
    BY <2>1, <2>2, <1>5
  <2> QED BY <2>3 DEF SameNames
<1>8. OldOK(r, q2)
  <2> SUFFICES ASSUME NEW i \in 1 .. n, q2[i].wen
               PROVE  Names(r, q2, i - 1, q2[i].rd, q2[i].old)
    BY DEF OldOK
  <2>1. Names(r, q, i - 1, q[i].rd, q[i].old)
    BY DEF WInv, OldOK, SameNames
  <2>2. i - 1 \in 0 .. n
    BY <1>0
  <2>3. Names(r, q2, i - 1, q[i].rd, q[i].old)
    BY <2>1, <2>2, <1>5
  <2> QED BY <2>3 DEF SameNames
<1>9. SnapOK(r, q2)
  <2> SUFFICES ASSUME NEW i \in 1 .. n, q2[i].open, NEW a \in Arch
               PROVE  Names(r, q2, i, a, q2[i].snap[a])
    BY DEF SnapOK
  <2>1. Names(r, q, i, a, q[i].snap[a])
    BY DEF WInv, SnapOK
  <2>2. i \in 0 .. n
    BY <1>0
  <2>3. Names(r, q2, i, a, q[i].snap[a])
    BY <2>1, <2>2, <1>5
  <2> QED BY <2>3
<1>10. ReadyOK(r, rd2, q2)
  BY DEF WInv, ReadyOK, SameNames
<1>11. SrdyOK(q2)
  <2> SUFFICES ASSUME NEW i \in 1 .. n, q2[i].srdy, NEW j \in 1 .. i - 1,
                      q2[j].wen, q2[j].new = q2[i].psrc
               PROVE  q2[j].st = "done"
    BY DEF SrdyOK
  <2>1. j \in 1 .. n
    BY <1>0
  <2>2. q[j].st = "done"
    BY <2>1 DEF WInv, SrdyOK, SameNames
  <2> QED BY <2>1, <2>2
<1> QED BY <1>1, <1>2, <1>3, <1>4, <1>6, <1>7, <1>8, <1>9, <1>10, <1>11 DEF WInv

(* Retirement of the oldest, completed entry: its destination becomes the  *)
(* retired name and the name it replaces becomes free.                     *)
PopFree(fr, e) == fr \cup ((IF e.wen THEN {e.old} ELSE {}) \ {0})

LEMMA PopStep ==
  ASSUME NEW r, NEW fr, NEW rd, NEW m, NEW q, WInv(r, fr, rd, m, q),
         Len(q) >= 1, q[1].st = "done"
  PROVE  WInv(PopMap(r, q[1]), PopFree(fr, q[1]), rd, m, SubSeq(q, 2, Len(q)))
<1> DEFINE n  == Len(q)
           e  == q[1]
           r2 == PopMap(r, e)
           f2 == PopFree(fr, e)
           q2 == SubSeq(q, 2, n)
<1> USE DEF EntriesOK, MapsOK
<1>1. /\ q \in Seq(Entry) /\ n \in Nat /\ n >= 1
      /\ \A i \in 1 .. n : q[i] \in Entry
  BY DEF WInv
<1>2. /\ q2 \in Seq(Entry) /\ Len(q2) = n - 1
      /\ \A i \in 1 .. n - 1 : q2[i] = q[i + 1]
  <2>1. /\ 2 \in Int /\ n \in Int /\ \A i \in 2 .. n : q[i] \in Entry
    BY <1>1
  <2>2. /\ q2 \in Seq(Entry)
        /\ Len(q2) = IF 2 <= n THEN n - 2 + 1 ELSE 0
        /\ \A i \in 1 .. n - 2 + 1 : q2[i] = q[2 + i - 1]
    BY <2>1, SubSeqProperties
  <2>3. \A i \in 1 .. n - 1 : i \in 1 .. n - 2 + 1 /\ 2 + i - 1 = i + 1
    BY <1>1
  <2>4. Len(q2) = n - 1
    BY <2>2, <1>1
  <2> QED BY <2>2, <2>3, <2>4
<1>3. e \in Entry
  BY <1>1
<1>4. e.wen => e.old = r[e.rd]
  <2>1. e.wen => Names(r, q, 0, e.rd, e.old)
    BY <1>1 DEF WInv, OldOK
  <2> QED BY <2>1 DEF Names
<1>5. /\ e.wen => e.new # 0 /\ e.rd # 0 /\ e.new \in Phys /\ e.rd \in Arch
      /\ e.old \in Phys
  BY <1>1, <1>3 DEF WInv, Entry
<1>6. \A a \in Arch : r2[a] = IF e.wen /\ e.rd = a THEN e.new ELSE r[a]
  BY DEF PopMap
<1>7. EntriesOK(q2)
  <2>1. \A i \in 1 .. n - 1 : i + 1 \in 1 .. n
    BY <1>1
  <2> QED BY <1>1, <1>2, <2>1 DEF WInv
<1>8. MapsOK(r2, f2, rd, m)
  <2>1. r2 \in [Arch -> Phys] /\ r2[0] = 0
    BY <1>5, <1>6, PhysFacts DEF WInv, PopMap
  <2>2. f2 \subseteq Phys \ {0}
    BY <1>5 DEF WInv, PopFree
  <2> QED BY <2>1, <2>2 DEF WInv
<1>9. Injective(r2)
  BY <1>1, <1>5, <1>6 DEF WInv, Injective, Separate
<1>10. Covered(r2, f2, q2)
  <2> SUFFICES ASSUME NEW p \in Phys \ {0}
               PROVE  \/ p \in f2
                      \/ \E a \in Arch : r2[a] = p
                      \/ \E i \in 1 .. Len(q2) : q2[i].wen /\ q2[i].new = p
    BY DEF Covered
  <2>1. CASE p \in fr
    BY <2>1 DEF PopFree
  <2>2. CASE \E a \in Arch : r[a] = p
    <3>1. PICK a \in Arch : r[a] = p
      BY <2>2
    <3>2. CASE e.wen /\ e.rd = a
      BY <3>1, <3>2, <1>4 DEF PopFree
    <3>3. CASE ~(e.wen /\ e.rd = a)
      BY <3>1, <3>3, <1>6
    <3> QED BY <3>2, <3>3
  <2>3. CASE \E i \in 1 .. n : q[i].wen /\ q[i].new = p
    <3>1. PICK i \in 1 .. n : q[i].wen /\ q[i].new = p
      BY <2>3
    <3>2. CASE i = 1
      BY <3>1, <3>2, <1>5, <1>6
    <3>3. CASE i # 1
      <4>1. i - 1 \in 1 .. n - 1 /\ (i - 1) + 1 = i
        BY <3>1, <3>3, <1>1
      <4>2. q2[i - 1] = q[i]
        BY <4>1, <1>2
      <4> QED BY <4>1, <4>2, <3>1, <1>2
    <3> QED BY <3>2, <3>3
  <2> QED BY <2>1, <2>2, <2>3 DEF WInv, Covered
<1>11. Separate(r2, f2, q2)
  <2>1. \A i \in 1 .. n - 1 : i + 1 \in 1 .. n /\ i + 1 # 1
    BY <1>1
  <2>2. ASSUME NEW i \in 1 .. n - 1, NEW j \in 1 .. n - 1,
               q2[i].wen, q2[j].wen, i # j
        PROVE  q2[i].new # q2[j].new
    <3>1. i + 1 # j + 1
      BY <2>2
    <3> QED BY <3>1, <2>1, <2>2, <1>2 DEF WInv, Separate
  <2>3. ASSUME NEW i \in 1 .. n - 1, q2[i].wen
        PROVE  q2[i].new \notin f2 /\ \A a \in Arch : q2[i].new # r2[a]
    <3>1. /\ q[i + 1].wen /\ q[i + 1].new \notin fr
          /\ \A a \in Arch : q[i + 1].new # r[a]
      BY <2>1, <2>3, <1>2 DEF WInv, Separate
    <3>2. q2[i].new \notin f2
      BY <3>1, <1>2, <1>4, <1>5 DEF PopFree
    <3>3. e.wen => q[i + 1].new # e.new
      BY <3>1, <2>1, <1>1 DEF WInv, Separate
    <3> QED BY <3>1, <3>2, <3>3, <1>2, <1>6
  <2>4. ASSUME NEW a \in Arch
        PROVE  r2[a] \notin f2
    <3>1. e.wen => e.new \notin fr /\ \A b \in Arch : e.new # r[b]
      BY <1>1 DEF WInv, Separate
    <3>2. r[a] \notin fr
      BY DEF WInv, Separate
    <3>3. e.wen /\ e.rd # a => r[a] # r[e.rd]
      BY <1>5 DEF WInv, Injective
    <3> QED BY <3>1, <3>2, <3>3, <1>4, <1>5, <1>6 DEF PopFree
  <2> QED BY <2>2, <2>3, <2>4, <1>2 DEF Separate
<1>12. \A k \in 1 .. n : \A a \in Arch : \A p :
         Names(r, q, k, a, p) => Names(r2, q2, k - 1, a, p)
  <2> SUFFICES ASSUME NEW k \in 1 .. n, NEW a \in Arch, NEW p,
                      Names(r, q, k, a, p)
               PROVE  Names(r2, q2, k - 1, a, p)
    OBVIOUS
  <2>1. \A i \in 1 .. k - 1 : q2[i] = q[i + 1]
    BY <1>1, <1>2
  <2>2. k \in Nat /\ k >= 1
    BY <1>1
  <2> QED BY <2>1, <2>2, NamesPop
<1>13. MapOK(r2, m, q2)
  BY <1>1, <1>2, <1>12 DEF WInv, MapOK
<1>14. \A i \in 1 .. n - 1 : /\ i + 1 \in 1 .. n /\ i \in 1 .. n
                            /\ (i + 1) - 1 = i /\ q2[i] = q[i + 1]
                            /\ q[i + 1].rs \in Arch /\ q[i + 1].rd \in Arch
  BY <1>1, <1>2 DEF Entry
<1>15. SrcOK(r2, q2)
  <2> SUFFICES ASSUME NEW i \in 1 .. n - 1
               PROVE  Names(r2, q2, i - 1, q2[i].rs, q2[i].psrc)
    BY <1>2 DEF SrcOK
  <2>1. Names(r, q, i, q[i + 1].rs, q[i + 1].psrc)
    BY <1>14 DEF WInv, SrcOK
  <2> QED BY <2>1, <1>14, <1>12
<1>16. OldOK(r2, q2)
  <2> SUFFICES ASSUME NEW i \in 1 .. n - 1, q2[i].wen
               PROVE  Names(r2, q2, i - 1, q2[i].rd, q2[i].old)
    BY <1>2 DEF OldOK
  <2>1. Names(r, q, i, q[i + 1].rd, q[i + 1].old)
    BY <1>14 DEF WInv, OldOK
  <2> QED BY <2>1, <1>14, <1>12
<1>17. SnapOK(r2, q2)
  <2> SUFFICES ASSUME NEW i \in 1 .. n - 1, q2[i].open, NEW a \in Arch
               PROVE  Names(r2, q2, i, a, q2[i].snap[a])
    BY <1>2 DEF SnapOK
  <2>1. Names(r, q, i + 1, a, q[i + 1].snap[a])
    BY <1>14 DEF WInv, SnapOK
  <2> QED BY <2>1, <1>14, <1>12
<1>18. ReadyOK(r2, rd, q2)
  <2>1. \A i \in 1 .. n - 1 : q2[i].wen => (q2[i].new \in rd <=> q2[i].st = "done")
    BY <1>14 DEF WInv, ReadyOK
  <2>2. \A a \in Arch : r2[a] \in rd
    BY <1>1, <1>6 DEF WInv, ReadyOK
  <2> QED BY <2>1, <2>2, <1>2 DEF ReadyOK
<1>19. SrdyOK(q2)
  <2> SUFFICES ASSUME NEW i \in 1 .. n - 1, q2[i].srdy, NEW j \in 1 .. i - 1,
                      q2[j].wen, q2[j].new = q2[i].psrc
               PROVE  q2[j].st = "done"
    BY <1>2 DEF SrdyOK
  <2>1. j \in 1 .. n - 1 /\ j + 1 \in 1 .. (i + 1) - 1
    BY <1>1
  <2> QED BY <2>1, <1>14 DEF WInv, SrdyOK
<1> QED BY <1>7, <1>8, <1>9, <1>10, <1>11, <1>13, <1>15, <1>16, <1>17, <1>18, <1>19
        DEF WInv

(* Renaming one instruction: it takes a free register and reads its names  *)
(* from the map.                                                           *)
PushFree(fr, e) == fr \ (IF e.wen THEN {e.new} ELSE {})
PushMap(m, e)   == IF e.wen THEN [m EXCEPT ![e.rd] = e.new] ELSE m

LEMMA PushStep ==
  ASSUME NEW r, NEW fr, NEW rd, NEW m, NEW q, WInv(r, fr, rd, m, q),
         NEW e \in Entry,
         e.wen => e.new \in fr /\ e.rd # 0 /\ e.old = m[e.rd],
         ~e.wen => e.new = 0,
         e.psrc = m[e.rs], e.st = "wait",
         e.srdy => e.psrc \in rd,
         e.open => e.snap = PushMap(m, e)
  PROVE  WInv(r, PushFree(fr, e), PushFree(rd, e), PushMap(m, e), Append(q, e))
<1> DEFINE n  == Len(q)
           f2 == PushFree(fr, e)
           d2 == PushFree(rd, e)
           m2 == PushMap(m, e)
           q2 == Append(q, e)
<1> USE DEF EntriesOK, MapsOK
<1>1. /\ q \in Seq(Entry) /\ n \in Nat
      /\ \A i \in 1 .. n : q[i] \in Entry
  BY DEF WInv
<1>2. /\ q2 \in Seq(Entry) /\ Len(q2) = n + 1 /\ q2[n + 1] = e
      /\ \A i \in 1 .. n : q2[i] = q[i]
  BY <1>1
<1>3. /\ e.wen => e.new \in fr /\ e.new # 0 /\ e.new \in Phys /\ e.new \notin rd \ {e.new}
      /\ e.rd \in Arch /\ e.rs \in Arch
  BY DEF WInv, Entry
<1>4. EntriesOK(q2)
  BY <1>1, <1>2, <1>3 DEF WInv
<1>5. MapsOK(r, f2, d2, m2)
  BY <1>3 DEF WInv, PushFree, PushMap
<1>6. Covered(r, f2, q2)
  <2> SUFFICES ASSUME NEW p \in Phys \ {0}
               PROVE  \/ p \in f2
                      \/ \E a \in Arch : r[a] = p
                      \/ \E i \in 1 .. Len(q2) : q2[i].wen /\ q2[i].new = p
    BY DEF Covered
  <2>1. CASE p \in fr
    <3>1. n + 1 \in 1 .. Len(q2)
      BY <1>1, <1>2
    <3> QED BY <3>1, <2>1, <1>2 DEF PushFree
  <2>2. CASE \E i \in 1 .. n : q[i].wen /\ q[i].new = p
    BY <2>2, <1>1, <1>2
  <2> QED BY <2>1, <2>2 DEF WInv, Covered
<1>7. \A i \in 1 .. n + 1 : i \in 1 .. n \/ i = n + 1
  BY <1>1
<1>8. Separate(r, f2, q2)
  <2>1. \A i \in 1 .. n : e.wen /\ q[i].wen => q[i].new # e.new
    BY <1>3 DEF WInv, Separate
  <2>2. \A i, j \in 1 .. n + 1 : q2[i].wen /\ q2[j].wen /\ i # j
                                => q2[i].new # q2[j].new
    BY <1>7, <1>2, <2>1 DEF WInv, Separate
  <2>3. \A i \in 1 .. n + 1 : q2[i].wen => /\ q2[i].new \notin f2
                                           /\ \A a \in Arch : q2[i].new # r[a]
    BY <1>7, <1>2, <1>3 DEF WInv, Separate, PushFree
  <2>4. \A a \in Arch : r[a] \notin f2
    BY DEF WInv, Separate, PushFree
  <2> QED BY <2>2, <2>3, <2>4, <1>2 DEF Separate
<1>9. \A k \in 0 .. n : \A a, p : Names(r, q, k, a, p) => Names(r, q2, k, a, p)
  <2> SUFFICES ASSUME NEW k \in 0 .. n, NEW a, NEW p, Names(r, q, k, a, p)
               PROVE  Names(r, q2, k, a, p)
    OBVIOUS
  <2>1. \A i \in 1 .. k : /\ q[i].wen = q2[i].wen /\ q[i].rd = q2[i].rd
                          /\ q[i].new = q2[i].new
    BY <1>1, <1>2
  <2>2. k \in Nat
    BY <1>1
  <2> HIDE DEF q2
  <2> QED BY <2>1, <2>2, NamesCong
<1>10. \A a \in Arch : Names(r, q2, n + 1, a, m2[a])
  <2> SUFFICES ASSUME NEW a \in Arch
               PROVE  Names(r, q2, n + 1, a, m2[a])
    OBVIOUS
  <2>1. n + 1 \in 1 .. n + 1
    BY <1>1
  <2>2. CASE e.wen /\ e.rd = a
    <3>1. m2[a] = e.new
      BY <2>2 DEF PushMap, WInv
    <3>2. Writes(q2, n + 1, a) /\ m2[a] = q2[n + 1].new
      BY <3>1, <2>2, <1>2 DEF Writes
    <3>3. \A j \in (n + 1) + 1 .. n + 1 : ~Writes(q2, j, a)
      BY <1>1
    <3> QED BY <2>1, <3>2, <3>3 DEF Names
  <2>3. CASE ~(e.wen /\ e.rd = a)
    <3>1. m2[a] = m[a]
      BY <2>3, <1>3 DEF PushMap, WInv
    <3>2. ~Writes(q2, n + 1, a)
      BY <2>3, <1>2 DEF Writes
    <3>3. Names(r, q2, n, a, m[a])
      BY <1>1, <1>9 DEF WInv, MapOK
    <3>4. CASE \E i \in 1 .. n : /\ Writes(q2, i, a) /\ m[a] = q2[i].new
                                /\ \A j \in i + 1 .. n : ~Writes(q2, j, a)
      <4>1. PICK i \in 1 .. n : /\ Writes(q2, i, a) /\ m[a] = q2[i].new
                               /\ \A j \in i + 1 .. n : ~Writes(q2, j, a)
        BY <3>4
      <4>2. i \in 1 .. n + 1
        BY <1>1
      <4>3. \A j \in i + 1 .. n + 1 : ~Writes(q2, j, a)
        <5>1. \A j \in i + 1 .. n + 1 : j \in i + 1 .. n \/ j = n + 1
          BY <1>1
        <5> QED BY <5>1, <4>1, <3>2
      <4> QED BY <4>1, <4>2, <4>3, <3>1 DEF Names
    <3>5. CASE m[a] = r[a] /\ \A j \in 1 .. n : ~Writes(q2, j, a)
      BY <3>5, <3>1, <3>2, <1>7 DEF Names
    <3> QED BY <3>3, <3>4, <3>5 DEF Names
  <2> QED BY <2>2, <2>3
<1>11. MapOK(r, m2, q2)
  BY <1>10, <1>2 DEF MapOK
<1>12. SrcOK(r, q2)
  <2> SUFFICES ASSUME NEW i \in 1 .. n + 1
               PROVE  Names(r, q2, i - 1, q2[i].rs, q2[i].psrc)
    BY <1>2 DEF SrcOK
  <2>1. CASE i \in 1 .. n
    <3>1. Names(r, q, i - 1, q[i].rs, q[i].psrc) /\ i - 1 \in 0 .. n
      BY <2>1, <1>1 DEF WInv, SrcOK
    <3> QED BY <3>1, <2>1, <1>2, <1>9
  <2>2. CASE i = n + 1
    <3>1. Names(r, q, n, e.rs, e.psrc) /\ n \in 0 .. n /\ i - 1 = n
      BY <2>2, <1>1, <1>3 DEF WInv, MapOK
    <3> QED BY <3>1, <2>2, <1>2, <1>9
  <2> QED BY <2>1, <2>2, <1>7
<1>13. OldOK(r, q2)
  <2> SUFFICES ASSUME NEW i \in 1 .. n + 1, q2[i].wen
               PROVE  Names(r, q2, i - 1, q2[i].rd, q2[i].old)
    BY <1>2 DEF OldOK
  <2>1. CASE i \in 1 .. n
    <3>1. Names(r, q, i - 1, q[i].rd, q[i].old) /\ i - 1 \in 0 .. n
      BY <2>1, <1>1, <1>2 DEF WInv, OldOK
    <3> QED BY <3>1, <2>1, <1>2, <1>9
  <2>2. CASE i = n + 1
    <3>1. Names(r, q, n, e.rd, e.old) /\ n \in 0 .. n /\ i - 1 = n
      BY <2>2, <1>1, <1>2, <1>3 DEF WInv, MapOK
    <3> QED BY <3>1, <2>2, <1>2, <1>9
  <2> QED BY <2>1, <2>2, <1>7
<1>14. SnapOK(r, q2)
  <2> SUFFICES ASSUME NEW i \in 1 .. n + 1, q2[i].open, NEW a \in Arch
               PROVE  Names(r, q2, i, a, q2[i].snap[a])
    BY <1>2 DEF SnapOK
  <2>1. CASE i \in 1 .. n
    <3>1. Names(r, q, i, a, q[i].snap[a]) /\ i \in 0 .. n
      BY <2>1, <1>1, <1>2 DEF WInv, SnapOK
    <3> QED BY <3>1, <2>1, <1>2, <1>9
  <2>2. CASE i = n + 1
    BY <2>2, <1>2, <1>10
  <2> QED BY <2>1, <2>2, <1>7
<1>15. ReadyOK(r, d2, q2)
  <2>1. ASSUME NEW i \in 1 .. n + 1, q2[i].wen
        PROVE  q2[i].new \in d2 <=> q2[i].st = "done"
    <3>1. CASE i \in 1 .. n
      <4>1. e.wen => q[i].new # e.new
        BY <3>1, <2>1, <1>2, <1>3 DEF WInv, Separate
      <4> QED BY <4>1, <3>1, <2>1, <1>2 DEF WInv, ReadyOK, PushFree
    <3>2. CASE i = n + 1
      BY <3>2, <2>1, <1>2 DEF PushFree
    <3> QED BY <3>1, <3>2, <1>7
  <2>2. ASSUME NEW a \in Arch
        PROVE  r[a] \in d2
    BY <1>3 DEF WInv, ReadyOK, Separate, PushFree
  <2> QED BY <2>1, <2>2, <1>2 DEF ReadyOK
<1>16. SrdyOK(q2)
  <2> SUFFICES ASSUME NEW i \in 1 .. n + 1, q2[i].srdy, NEW j \in 1 .. i - 1,
                      q2[j].wen, q2[j].new = q2[i].psrc
               PROVE  q2[j].st = "done"
    BY <1>2 DEF SrdyOK
  <2>0. j \in 1 .. n
    BY <1>1
  <2>1. CASE i \in 1 .. n
    BY <2>0, <2>1, <1>2 DEF WInv, SrdyOK
  <2>2. CASE i = n + 1
    <3>1. q[j].wen /\ q[j].new \in rd
      BY <2>0, <2>2, <1>2
    <3> QED BY <3>1, <2>0, <1>2 DEF WInv, ReadyOK
  <2> QED BY <2>1, <2>2, <1>7
<1> QED BY <1>4, <1>5, <1>6, <1>8, <1>11, <1>12, <1>13, <1>14, <1>15, <1>16
        DEF WInv

(* Selective recovery: the window is cut behind branch b, whose snapshot   *)
(* becomes the map; killed are the destinations of the lost entries.       *)
DestsBehind(killed, q, b) ==
  \A p : p \in killed <=> \E i \in b + 1 .. Len(q) : q[i].wen /\ q[i].new = p
Survivors(q2, q, b) ==
  /\ b \in 1 .. Len(q) /\ q[b].open
  /\ q2 \in Seq(Entry) /\ Len(q2) = b
  /\ \A i \in 1 .. b :
       /\ SameNames(q2[i], q[i]) /\ q2[i].st = q[i].st
       /\ q2[i].open => q[i].open /\ q2[i].snap = q[i].snap

LEMMA CutStep ==
  ASSUME NEW r, NEW fr, NEW rd, NEW m, NEW q, WInv(r, fr, rd, m, q),
         NEW b, NEW killed, DestsBehind(killed, q, b),
         NEW q2, Survivors(q2, q, b)
  PROVE  /\ WInv(r, fr \cup killed, rd \ killed, q[b].snap, q2)
         /\ 0 \notin killed
         /\ q[b].snap[0] = 0
         /\ \A a \in Arch : q[b].snap[a] \notin fr \cup killed
                            /\ r[a] \notin killed
         /\ killed \cap fr = {}
<1> DEFINE n == Len(q)
           S == q[b].snap
<1> USE DEF EntriesOK, MapsOK, DestsBehind, Survivors
<1>1. /\ q \in Seq(Entry) /\ n \in Nat /\ b \in Nat /\ b <= n /\ 1 <= b
      /\ \A i \in 1 .. n : q[i] \in Entry
      /\ \A i \in 1 .. b : i \in 1 .. n
      /\ \A i \in b + 1 .. n : i \in 1 .. n /\ i \notin 1 .. b
  BY DEF WInv
<1>2. /\ 0 \notin killed /\ killed \subseteq Phys /\ killed \cap fr = {}
      /\ \A a \in Arch : r[a] \notin killed
      /\ \A i \in 1 .. b : q[i].wen => q[i].new \notin killed
  <2>1. \A i \in b + 1 .. n : q[i].wen => q[i].new # 0 /\ q[i].new \in Phys
    BY <1>1 DEF WInv, Entry
  <2>2. \A i \in b + 1 .. n : \A j \in 1 .. b : q[i].wen /\ q[j].wen => q[i].new # q[j].new
    BY <1>1 DEF WInv, Separate
  <2>3. \A i \in b + 1 .. n : q[i].wen => /\ q[i].new \notin fr
                                         /\ \A a \in Arch : q[i].new # r[a]
    BY <1>1 DEF WInv, Separate
  <2>4. 0 \notin killed /\ killed \subseteq Phys /\ killed \cap fr = {}
    BY <2>1, <2>3
  <2>5. \A a \in Arch : r[a] \notin killed
    BY <2>3
  <2>6. \A i \in 1 .. b : q[i].wen => q[i].new \notin killed
    BY <2>2
  <2> QED BY <2>4, <2>5, <2>6
<1>3. \A a \in Arch : Names(r, q, b, a, S[a])
  BY DEF WInv, SnapOK
<1>4. S \in [Arch -> Phys]
  BY <1>1 DEF Entry
<1>5. S[0] = 0
  <2>1. \A i \in 1 .. b : ~Writes(q, i, 0)
    BY <1>1 DEF WInv, Writes
  <2> QED BY <2>1, <1>3, PhysFacts DEF Names, WInv
<1>6. ASSUME NEW a \in Arch
      PROVE  S[a] \notin fr /\ S[a] \notin killed
  <2>1. (\E i \in 1 .. b : q[i].wen /\ q[i].rd = a /\ S[a] = q[i].new) \/ S[a] = r[a]
    BY <1>3, NamesRange
  <2> QED BY <2>1, <1>1, <1>2 DEF WInv, Separate
<1>7. EntriesOK(q2)
  BY <1>1 DEF WInv, SameNames
<1>8. MapsOK(r, fr \cup killed, rd \ killed, S)
  BY <1>2, <1>4 DEF WInv
<1>9. Covered(r, fr \cup killed, q2)
  <2> SUFFICES ASSUME NEW p \in Phys \ {0}
               PROVE  \/ p \in fr \cup killed
                      \/ \E a \in Arch : r[a] = p
                      \/ \E i \in 1 .. b : q2[i].wen /\ q2[i].new = p
    BY DEF Covered
  <2>1. CASE \E i \in 1 .. n : q[i].wen /\ q[i].new = p
    <3>1. PICK i \in 1 .. n : q[i].wen /\ q[i].new = p
      BY <2>1
    <3>2. i \in 1 .. b \/ i \in b + 1 .. n
      BY <1>1
    <3> QED BY <3>1, <3>2 DEF SameNames
  <2> QED BY <2>1 DEF WInv, Covered
<1>10. Separate(r, fr \cup killed, q2)
  <2>1. \A i, j \in 1 .. b : q2[i].wen /\ q2[j].wen /\ i # j
                            => q2[i].new # q2[j].new
    BY <1>1 DEF WInv, Separate, SameNames
  <2>2. \A i \in 1 .. b : q2[i].wen => /\ q2[i].new \notin fr \cup killed
                                      /\ \A a \in Arch : q2[i].new # r[a]
    BY <1>1, <1>2 DEF WInv, Separate, SameNames
  <2>3. \A a \in Arch : r[a] \notin fr \cup killed
    BY <1>2 DEF WInv, Separate
  <2> QED BY <2>1, <2>2, <2>3 DEF Separate
<1>11. \A k \in 0 .. b : \A a, p : Names(r, q, k, a, p) => Names(r, q2, k, a, p)
  <2> SUFFICES ASSUME NEW k \in 0 .. b, NEW a, NEW p, Names(r, q, k, a, p)
               PROVE  Names(r, q2, k, a, p)
    OBVIOUS
  <2>1. \A i \in 1 .. k : /\ q[i].wen = q2[i].wen /\ q[i].rd = q2[i].rd
                          /\ q[i].new = q2[i].new
    BY <1>1 DEF SameNames
  <2> QED BY <2>1, NamesCong
<1>12. MapOK(r, S, q2)
  BY <1>1, <1>3, <1>11 DEF MapOK
<1>13. SrcOK(r, q2)
  <2> SUFFICES ASSUME NEW i \in 1 .. b
               PROVE  Names(r, q2, i - 1, q2[i].rs, q2[i].psrc)
    BY DEF SrcOK
  <2>1. Names(r, q, i - 1, q[i].rs, q[i].psrc) /\ i - 1 \in 0 .. b
    BY <1>1 DEF WInv, SrcOK
  <2> QED BY <2>1, <1>11 DEF SameNames
<1>14. OldOK(r, q2)
  <2> SUFFICES ASSUME NEW i \in 1 .. b, q2[i].wen
               PROVE  Names(r, q2, i - 1, q2[i].rd, q2[i].old)
    BY DEF OldOK
  <2>1. Names(r, q, i - 1, q[i].rd, q[i].old) /\ i - 1 \in 0 .. b
    BY <1>1 DEF WInv, OldOK, SameNames
  <2> QED BY <2>1, <1>11 DEF SameNames
<1>15. SnapOK(r, q2)
  <2> SUFFICES ASSUME NEW i \in 1 .. b, q2[i].open, NEW a \in Arch
               PROVE  Names(r, q2, i, a, q2[i].snap[a])
    BY DEF SnapOK
  <2>1. Names(r, q, i, a, q[i].snap[a]) /\ i \in 0 .. b
    BY <1>1 DEF WInv, SnapOK
  <2> QED BY <2>1, <1>11
<1>16. ReadyOK(r, rd \ killed, q2)
  BY <1>1, <1>2 DEF WInv, ReadyOK, SameNames
<1>17. SrdyOK(q2)
  <2> SUFFICES ASSUME NEW i \in 1 .. b, q2[i].srdy, NEW j \in 1 .. i - 1,
                      q2[j].wen, q2[j].new = q2[i].psrc
               PROVE  q2[j].st = "done"
    BY DEF SrdyOK
  <2>1. j \in 1 .. b
    BY <1>1
  <2> QED BY <2>1, <1>1 DEF WInv, SrdyOK, SameNames
<1> QED BY <1>2, <1>5, <1>6, <1>7, <1>8, <1>9, <1>10, <1>12, <1>13, <1>14, <1>15,
           <1>16, <1>17 DEF WInv

-----------------------------------------------------------------------------
(* The parts of a clock edge, in terms of the elementary steps.            *)

LEMMA FreeNames ==
  ASSUME free \subseteq Phys \ {0}
  PROVE  /\ free # {} => free_phys0 \in free
         /\ free \ {free_phys0} # {} => free_phys1 \in free \ {free_phys0}
<1>1. free \subseteq Nat
  BY PhysFacts
<1>2. free # {} => free_phys0 \in free
  BY <1>1, LowestMember DEF free_phys0
<1>3. free \ {free_phys0} # {} => free_phys1 \in free \ {free_phys0}
  <2>1. free \ {free_phys0} \subseteq Nat
    BY <1>1
  <2> QED BY <2>1, LowestMember DEF free_phys1
<1> QED BY <1>2, <1>3

(* Completion changes st, open and snap of an entry and nothing else.      *)
LEMMA EntryOps ==
  ASSUME NEW x \in Entry
  PROVE  /\ \A s \in {"exc", "done"} :
              /\ Finished(x, s) \in Entry /\ Finished(x, s).st = s
              /\ SameNames(Finished(x, s), x)
              /\ Finished(x, s).open = x.open /\ Finished(x, s).snap = x.snap
         /\ Closed(x) \in Entry /\ ~Closed(x).open /\ Closed(x).st = x.st
         /\ SameNames(Closed(x), x)
<1>1. NoSnap \in [Arch -> Phys]
  BY PhysFacts DEF NoSnap
<1>2. ASSUME NEW s \in {"exc", "done"}
      PROVE  /\ Finished(x, s) \in Entry /\ Finished(x, s).st = s
             /\ SameNames(Finished(x, s), x)
             /\ Finished(x, s).open = x.open /\ Finished(x, s).snap = x.snap
  BY DEF Entry, Finished, SameNames
<1>3. /\ Closed(x) \in Entry /\ ~Closed(x).open /\ Closed(x).st = x.st
      /\ SameNames(Closed(x), x)
  BY <1>1 DEF Entry, Closed, SameNames
<1> QED BY <1>2, <1>3

(* The completions and wakeups of an edge.                                 *)
LEMMA CompletedStep ==
  ASSUME WInv(rrat, free, ready, rat, rob),
         NEW W \in SUBSET Completable, NEW E \in SUBSET W, NEW M \in SUBSET (W \ E)
  PROVE  /\ WInv(rrat, free, Woken(W, E), rat, Completed(W, E, M))
         /\ Len(Completed(W, E, M)) = Len(rob)
         /\ ready \subseteq Woken(W, E)
<1> DEFINE n  == Len(rob)
           q  == Completed(W, E, M)
           rd == Woken(W, E)
<1>1. /\ rob \in Seq(Entry) /\ n \in Nat /\ DOMAIN rob = 1 .. n
      /\ \A i \in 1 .. n : rob[i] \in Entry
  BY DEF WInv, EntriesOK
<1>2. W \subseteq 1 .. n /\ \A i \in W : rob[i].st = "wait"
  BY <1>1 DEF Completable
<1>3. \A i \in 1 .. n :
        q[i] = IF i \notin W THEN rob[i]
               ELSE IF i \in E THEN Finished(rob[i], "exc")
               ELSE IF i \in M THEN Finished(rob[i], "done")
               ELSE Closed(Finished(rob[i], "done"))
  BY <1>1 DEF Completed
<1>5. \A i \in 1 .. n : q[i] \in Entry
  BY <1>1, <1>3, EntryOps
<1>6. q \in Seq(Entry) /\ Len(q) = n
  <2>1. q \in [1 .. n -> Entry]
    BY <1>1, <1>5 DEF Completed
  <2> HIDE DEF q
  <2> QED BY <2>1, <1>1
<1>7. ready \subseteq rd /\ rd \subseteq Phys
  BY <1>1, <1>2 DEF Woken, WInv, MapsOK, Entry
<1>8. ASSUME NEW i \in 1 .. n
      PROVE  /\ SameNames(q[i], rob[i])
             /\ rob[i].st = "done" => q[i].st = "done"
             /\ q[i].open => rob[i].open /\ q[i].snap = rob[i].snap
             /\ q[i].st = IF i \notin W THEN rob[i].st
                         ELSE IF i \in E THEN "exc" ELSE "done"
  <2>1. rob[i] \in Entry
    BY <1>1
  <2>2. CASE i \notin W
    BY <2>2, <1>3 DEF SameNames
  <2>3. CASE i \in E
    BY <2>1, <2>3, <1>2, <1>3, EntryOps DEF SameNames
  <2>4. CASE i \in W \ E /\ i \in M
    BY <2>1, <2>4, <1>2, <1>3, EntryOps DEF SameNames
  <2>5. CASE i \in W \ E /\ i \notin M
    <3>1. q[i] = Closed(Finished(rob[i], "done"))
      BY <2>5, <1>3
    <3> QED BY <3>1, <2>1, <2>5, <1>2, EntryOps DEF SameNames
  <2> QED BY <2>2, <2>3, <2>4, <2>5
<1>9. ASSUME NEW i \in 1 .. n, rob[i].wen
      PROVE  rob[i].new \in rd <=> q[i].st = "done"
  <2>1. rob[i].new \in ready <=> rob[i].st = "done"
    BY <1>9 DEF WInv, ReadyOK
  <2>2. \A j \in W : rob[j].wen /\ rob[j].new = rob[i].new => j = i
    BY <1>2, <1>9 DEF WInv, Separate
  <2>3. rob[i].new \in rd <=> rob[i].new \in ready \/ i \in W \ E
    BY <2>2, <1>9 DEF Woken
  <2> QED BY <2>1, <2>3, <1>2, <1>8
<1> HIDE DEF q, rd
<1>10. WInv(rrat, free, rd, rat, q)
  BY <1>6, <1>7, <1>8, <1>9, CompleteStep
<1> QED BY <1>6, <1>7, <1>10 DEF q, rd

(* The retirements of an edge are zero, one or two pops.                   *)
RetireMap(q, c) == [a \in Arch |-> Retired(q, c, a)]

LEMMA RetireStep ==
  ASSUME NEW q, NEW rd, WInv(rrat, free, rd, rat, q),
         NEW c \in 0 .. 2, c <= Len(q), \A i \in 1 .. c : q[i].st = "done"
  PROVE  /\ WInv(RetireMap(q, c), free \cup Released(q, c), rd, rat,
                 SubSeq(q, c + 1, Len(q)))
         /\ Len(SubSeq(q, c + 1, Len(q))) = Len(q) - c
         /\ SubSeq(q, c + 1, Len(q)) \in Seq(Entry)
<1> DEFINE n == Len(q)
<1>1. /\ q \in Seq(Entry) /\ n \in Nat
      /\ \A i \in 1 .. n : q[i] \in Entry
      /\ rrat \in [Arch -> Phys]
  BY DEF WInv, EntriesOK, MapsOK
<1>n. n \in Nat
  BY <1>1
<1>2. CASE c = 0
  <2>1. RetireMap(q, c) = rrat
    BY <1>1, <1>2 DEF RetireMap, Retired
  <2>2. SubSeq(q, c + 1, n) = q
    BY <1>1, <1>2, SubSeqFull
  <2>3. Released(q, c) = {}
    <3>1. SubSeq(q, 1, c) = << >>
      BY <1>2, SubSeqEmpty
    <3> QED BY <3>1 DEF Released, Olds
  <2>4. free \cup Released(q, c) = free
    BY <2>3
  <2>5. Len(q) - c = Len(q)
    BY <1>1, <1>2
  <2> QED BY <1>1, <2>1, <2>2, <2>4, <2>5
<1>3. CASE c >= 1
  <2> DEFINE q1 == SubSeq(q, 2, n)
             r1 == PopMap(rrat, q[1])
             f1 == PopFree(free, q[1])
  <2>1. q[1].st = "done" /\ n >= 1
    BY <1>1, <1>3
  <2>2. WInv(r1, f1, rd, rat, q1)
    BY <2>1, PopStep
  <2>3. /\ q1 \in Seq(Entry) /\ Len(q1) = n - 1
        /\ \A i \in 1 .. n - 1 : q1[i] = q[i + 1]
    <3>1. /\ 2 \in Int /\ n \in Int /\ \A i \in 2 .. n : q[i] \in Entry
      BY <1>1
    <3>2. /\ q1 \in Seq(Entry)
          /\ Len(q1) = IF 2 <= n THEN n - 2 + 1 ELSE 0
          /\ \A i \in 1 .. n - 2 + 1 : q1[i] = q[2 + i - 1]
      BY <3>1, SubSeqProperties
    <3>3. \A i \in 1 .. n - 1 : i \in 1 .. n - 2 + 1 /\ 2 + i - 1 = i + 1
      BY <1>1
    <3> HIDE DEF q1
    <3>4. Len(q1) = n - 1
      <4>1. n = 1 \/ 2 <= n
        <5> HIDE DEF n
        <5> QED BY <1>n, <2>1
      <4> QED BY <3>2, <1>n, <4>1
    <3> QED BY <3>2, <3>3, <3>4
  <2>4. CASE c = 1
    <3>1. RetireMap(q, c) = r1
      BY <2>4 DEF RetireMap, Retired, PopMap
    <3>2. free \cup Released(q, c) = f1
      <4>1. /\ SubSeq(q, 1, 1) \in Seq(Entry) /\ Len(SubSeq(q, 1, 1)) = 1
            /\ SubSeq(q, 1, 1)[1] = q[1]
        <5>1. /\ 1 \in Int /\ \A i \in 1 .. 1 : q[i] \in Entry
          BY <1>1, <2>1
        <5>2. /\ SubSeq(q, 1, 1) \in Seq(Entry)
              /\ Len(SubSeq(q, 1, 1)) = IF 1 <= 1 THEN 1 - 1 + 1 ELSE 0
              /\ \A i \in 1 .. 1 - 1 + 1 : SubSeq(q, 1, 1)[i] = q[1 + i - 1]
          BY <5>1, SubSeqProperties
        <5> QED BY <5>2
      <4>2. DOMAIN SubSeq(q, 1, 1) = 1 .. 1
        BY <4>1
      <4>3. Olds(SubSeq(q, 1, 1)) = IF q[1].wen THEN {q[1].old} ELSE {}
        BY <4>1, <4>2 DEF Olds
      <4> QED BY <4>3, <2>4 DEF Released, PopFree
    <3>3. SubSeq(q, c + 1, n) = q1 /\ n - c = n - 1
      BY <2>4
    <3> HIDE DEF q1, r1, f1
    <3> QED BY <3>1, <3>2, <3>3, <2>2, <2>3, <2>4, <1>1
  <2>5. CASE c = 2
    <3>1. n >= 2 /\ q1[1] = q[2] /\ q1[1].st = "done" /\ Len(q1) >= 1
      BY <2>5, <2>3, <1>1
    <3> DEFINE q2 == SubSeq(q1, 2, Len(q1))
               r2 == PopMap(r1, q1[1])
               f2 == PopFree(f1, q1[1])
    <3>2. WInv(r2, f2, rd, rat, q2)
      <4> HIDE DEF q1, r1, f1
      <4> QED BY <2>2, <3>1, PopStep
    <3>3. RetireMap(q, c) = r2
      BY <2>5, <3>1 DEF RetireMap, Retired, PopMap
    <3>4. q2 = SubSeq(q, c + 1, n) /\ q2 \in Seq(Entry) /\ Len(q2) = n - 2
      <4>1. /\ 2 \in Int /\ Len(q1) \in Int
            /\ \A i \in 2 .. Len(q1) : q1[i] \in Entry
        BY <2>3, <1>1
      <4>2. /\ q2 \in Seq(Entry)
            /\ Len(q2) = IF 2 <= Len(q1) THEN Len(q1) - 2 + 1 ELSE 0
            /\ \A i \in 1 .. Len(q1) - 2 + 1 : q2[i] = q1[2 + i - 1]
        <5> HIDE DEF q1
        <5> QED BY <4>1, SubSeqProperties
      <4>3. Len(q2) = n - 2
        <5>1. Len(q1) = n - 1 /\ (n = 2 \/ 3 <= n)
          <6> HIDE DEF n
          <6> QED BY <2>3, <3>1, <1>n
        <5> HIDE DEF q1, q2
        <5> QED BY <5>1, <4>2, <1>1
      <4>4. \A i \in 1 .. n - 2 : q2[i] = q[i + 2]
        <5>1. \A i \in 1 .. n - 2 : /\ i \in 1 .. Len(q1) - 2 + 1
                                    /\ 2 + i - 1 = i + 1
                                    /\ i + 1 \in 1 .. n - 1
                                    /\ (i + 1) + 1 = i + 2
          BY <2>3, <1>1
        <5> HIDE DEF q1, q2
        <5> QED BY <5>1, <4>2, <2>3
      <4>5. /\ 3 \in Int /\ n \in Int /\ \A i \in 3 .. n : q[i] \in Entry
        BY <1>1
      <4>6. /\ SubSeq(q, 3, n) \in Seq(Entry)
            /\ Len(SubSeq(q, 3, n)) = IF 3 <= n THEN n - 3 + 1 ELSE 0
            /\ \A i \in 1 .. n - 3 + 1 : SubSeq(q, 3, n)[i] = q[3 + i - 1]
        BY <4>5, SubSeqProperties
      <4>7. Len(SubSeq(q, 3, n)) = n - 2
        <5>1. n = 2 \/ 3 <= n
          <6> HIDE DEF n
          <6> QED BY <3>1, <1>n
        <5> QED BY <5>1, <4>6, <1>1
      <4>8. \A i \in 1 .. n - 2 : SubSeq(q, 3, n)[i] = q[i + 2]
        <5>1. \A i \in 1 .. n - 2 : i \in 1 .. n - 3 + 1 /\ 3 + i - 1 = i + 2
          BY <1>1
        <5> QED BY <5>1, <4>6
      <4>9. q2 = SubSeq(q, 3, n)
        <5> DEFINE qq == SubSeq(q, 3, n)
        <5>1. qq \in Seq(Entry) /\ Len(qq) = n - 2 /\ \A i \in 1 .. n - 2 : qq[i] = q[i + 2]
          BY <4>6, <4>7, <4>8
        <5> HIDE DEF q2, qq
        <5>2. q2 = qq
          BY <5>1, <4>2, <4>3, <4>4, SeqEqual
        <5> QED BY <5>2 DEF qq
      <4> QED BY <4>2, <4>3, <4>9, <2>5
    <3>5. free \cup Released(q, c) = f2
      <4> DEFINE h == SubSeq(q, 1, 2)
      <4>1. h \in Seq(Entry) /\ Len(h) = 2 /\ h[1] = q[1] /\ h[2] = q[2]
        <5>1. /\ 1 \in Int /\ 2 \in Int /\ \A i \in 1 .. 2 : q[i] \in Entry
          BY <1>1, <3>1
        <5>2. /\ h \in Seq(Entry)
              /\ Len(h) = IF 1 <= 2 THEN 2 - 1 + 1 ELSE 0
              /\ \A i \in 1 .. 2 - 1 + 1 : h[i] = q[1 + i - 1]
          BY <5>1, SubSeqProperties
        <5> QED BY <5>2
      <4>2. DOMAIN h = {1, 2}
        <5>1. DOMAIN h = 1 .. 2
          BY <4>1
        <5> QED BY <5>1
      <4> HIDE DEF h
      <4>3. Olds(h) = (IF q[1].wen THEN {q[1].old} ELSE {})
                      \cup (IF q[2].wen THEN {q[2].old} ELSE {})
        BY <4>1, <4>2 DEF Olds
      <4> QED BY <4>3, <2>5, <3>1 DEF Released, PopFree, h
    <3> QED BY <3>2, <3>3, <3>4, <3>5, <2>5
  <2> QED BY <2>4, <2>5, <1>3
<1> QED BY <1>2, <1>3

-----------------------------------------------------------------------------
(* The renamed instructions are pushes.                                    *)

LEMMA MapAfterIsPush ==
  ASSUME NEW mm, NEW u, NEW e, e.wen = needs_phys(u), e.rd = u.rd
  PROVE  MapAfter(mm, u, e.new) = PushMap(mm, e)
BY DEF MapAfter, PushMap

LEMMA renamed0_fields ==
  ASSUME WInv(rrat, free, ready, rat, rob), NEW u0 \in Uops,
         EnoughFree(needs_phys(u0), FALSE)
  PROVE  LET e == renamed0(u0) IN
         /\ e \in Entry /\ e.st = "wait"
         /\ e.wen = needs_phys(u0) /\ e.rd = u0.rd /\ e.new = new0(u0)
         /\ e.wen => e.new \in free /\ e.rd # 0 /\ e.old = rat[e.rd]
         /\ ~e.wen => e.new = 0
         /\ e.psrc = rat[e.rs]
         /\ e.srdy => e.psrc \in ready
         /\ e.open => e.snap = PushMap(rat, e)
<1> DEFINE e == renamed0(u0)
           x == IF needs_phys(u0) THEN rat[u0.rd] ELSE 0
<1> USE DEF EntriesOK, MapsOK
<1>1. /\ u0.kind \in Kinds /\ u0.rd \in Arch /\ u0.rs \in Arch
      /\ needs_phys(u0) \in BOOLEAN
  BY UopAssumption DEF Uop, needs_phys
<1>2. /\ rat \in [Arch -> Phys] /\ free \subseteq Phys \ {0} /\ rrat[0] = 0
      /\ ready \subseteq Phys /\ 0 \in ready
  BY DEF WInv
<1>3. needs_phys(u0) => new0(u0) \in free /\ u0.rd # 0
  BY <1>2, FreeNames DEF new0, EnoughFree, needs_phys
<1>4. ~needs_phys(u0) => new0(u0) = 0
  BY DEF new0
<1>5. new0(u0) \in Phys /\ x \in Phys /\ rat[u0.rs] \in Phys
  BY <1>1, <1>2, <1>3, <1>4, PhysFacts
<1>6. map0(u0) \in [Arch -> Phys] /\ SnapFor(u0, map0(u0)) \in [Arch -> Phys]
  BY <1>1, <1>2, <1>5, PhysFacts DEF map0, MapAfter, SnapFor, NoSnap
<1>7. source_ready(u0.rs, rat[u0.rs]) \in BOOLEAN
  BY DEF source_ready
<1>8. /\ e.kind = u0.kind /\ e.rd = u0.rd /\ e.wen = needs_phys(u0)
      /\ e.new = new0(u0) /\ e.old = x /\ e.rs = u0.rs
      /\ e.psrc = rat[u0.rs] /\ e.srdy = source_ready(u0.rs, rat[u0.rs])
      /\ e.st = "wait" /\ e.open = (u0.kind = "bru")
      /\ e.snap = SnapFor(u0, map0(u0))
  BY DEF renamed0, Renamed
<1>9. e \in Entry
  BY <1>1, <1>5, <1>6, <1>7 DEF renamed0, Renamed, Entry
<1>10. rat[0] = 0
  <2>1. \A i \in 1 .. Len(rob) : ~Writes(rob, i, 0)
    BY DEF WInv, Writes
  <2>2. Names(rrat, rob, Len(rob), 0, rat[0])
    BY PhysFacts DEF WInv, MapOK
  <2> QED BY <2>1, <2>2, <1>2 DEF Names
<1>11. e.srdy => e.psrc \in ready
  BY <1>2, <1>8, <1>10 DEF source_ready
<1>12. e.open => e.snap = PushMap(rat, e)
  <2>1. e.open => e.snap = map0(u0)
    BY <1>8 DEF SnapFor
  <2>2. map0(u0) = PushMap(rat, e)
    <3> HIDE DEF e
    <3> QED BY <1>8, MapAfterIsPush DEF map0
  <2> QED BY <2>1, <2>2
<1> HIDE DEF e
<1>13. /\ e.wen => e.new \in free /\ e.rd # 0 /\ e.old = rat[e.rd]
       /\ ~e.wen => e.new = 0
       /\ e.psrc = rat[e.rs]
  BY <1>3, <1>4, <1>8
<1> QED BY <1>8, <1>9, <1>11, <1>12, <1>13 DEF e

(* Slot 1 is what a second single rename would produce from slot 0's map   *)
(* and remaining free registers: this is what the bypass is for.           *)
LEMMA renamed1_fields ==
  ASSUME WInv(rrat, free, ready, rat, rob), NEW u0 \in Uops, NEW u1 \in Uops,
         EnoughFree(needs_phys(u0), needs_phys(u1))
  PROVE  LET e == renamed1(u0, u1) IN
         /\ e \in Entry /\ e.st = "wait"
         /\ e.wen = needs_phys(u1) /\ e.rd = u1.rd /\ e.new = new1(u0, u1)
         /\ e.wen => /\ e.new \in PushFree(free, renamed0(u0)) /\ e.rd # 0
                     /\ e.old = map0(u0)[e.rd]
         /\ ~e.wen => e.new = 0
         /\ e.psrc = map0(u0)[e.rs]
         /\ e.srdy => e.psrc \in PushFree(ready, renamed0(u0))
         /\ e.open => e.snap = PushMap(map0(u0), e)
<1> DEFINE e == renamed1(u0, u1)
           x == IF Bypass(u0, u1.rd) THEN new0(u0)
                ELSE IF needs_phys(u1) THEN rat[u1.rd] ELSE 0
           y == IF Bypass(u0, u1.rs) THEN new0(u0) ELSE rat[u1.rs]
           z == ~Bypass(u0, u1.rs) /\ source_ready(u1.rs, rat[u1.rs])
<1> USE DEF EntriesOK, MapsOK
<1>0. EnoughFree(needs_phys(u0), FALSE)
  BY DEF EnoughFree
<1>1. /\ u1.kind \in Kinds /\ u1.rd \in Arch /\ u1.rs \in Arch
      /\ needs_phys(u1) \in BOOLEAN /\ u0.rd \in Arch
  BY UopAssumption DEF Uop, needs_phys
<1>2. /\ rat \in [Arch -> Phys] /\ free \subseteq Phys \ {0} /\ rrat[0] = 0
      /\ ready \subseteq Phys /\ 0 \in ready
  BY DEF WInv
<1>3. /\ renamed0(u0).wen = needs_phys(u0) /\ renamed0(u0).new = new0(u0)
      /\ needs_phys(u0) => new0(u0) \in free /\ u0.rd # 0
      /\ ~needs_phys(u0) => new0(u0) = 0
  BY <1>0, renamed0_fields
<1>4. needs_phys(u1) => /\ new1(u0, u1) \in PushFree(free, renamed0(u0))
                        /\ u1.rd # 0
  <2>1. CASE needs_phys(u0) /\ needs_phys(u1)
    <3>1. free_phys1 \in free \ {free_phys0}
      BY <2>1, <1>2, FreeNames DEF EnoughFree
    <3> QED BY <3>1, <2>1, <1>3 DEF new1, new0, PushFree, needs_phys
  <2>2. CASE ~needs_phys(u0) /\ needs_phys(u1)
    <3>1. free_phys0 \in free
      BY <2>2, <1>2, FreeNames DEF EnoughFree
    <3> QED BY <3>1, <2>2, <1>3 DEF new1, PushFree, needs_phys
  <2> QED BY <2>1, <2>2
<1>5. ~needs_phys(u1) => new1(u0, u1) = 0
  BY DEF new1
<1>6. new0(u0) \in Phys /\ new1(u0, u1) \in Phys /\ x \in Phys /\ y \in Phys
  BY <1>1, <1>2, <1>3, <1>4, <1>5, PhysFacts DEF PushFree
<1>7. map0(u0) \in [Arch -> Phys]
  BY <1>2, <1>6 DEF map0, MapAfter
<1>8. map1(u0, u1) \in [Arch -> Phys] /\ SnapFor(u1, map1(u0, u1)) \in [Arch -> Phys]
  BY <1>1, <1>6, <1>7, PhysFacts DEF map1, MapAfter, SnapFor, NoSnap
<1>9. z \in BOOLEAN
  BY DEF source_ready
<1>10. /\ e.kind = u1.kind /\ e.rd = u1.rd /\ e.wen = needs_phys(u1)
       /\ e.new = new1(u0, u1) /\ e.old = x /\ e.rs = u1.rs
       /\ e.psrc = y /\ e.srdy = z
       /\ e.st = "wait" /\ e.open = (u1.kind = "bru")
       /\ e.snap = SnapFor(u1, map1(u0, u1))
  BY DEF renamed1, Renamed
<1>11. e \in Entry
  BY <1>1, <1>6, <1>8, <1>9 DEF renamed1, Renamed, Entry
<1>12. \A a \in Arch : map0(u0)[a] = IF Bypass(u0, a) THEN new0(u0) ELSE rat[a]
  <2>1. CASE needs_phys(u0)
    BY <2>1, <1>1, <1>2, <1>3 DEF map0, MapAfter, Bypass
  <2>2. CASE ~needs_phys(u0)
    BY <2>2 DEF map0, MapAfter, Bypass
  <2> QED BY <2>1, <2>2
<1>13. rat[0] = 0 /\ \A a \in Arch : rat[a] \notin free
  <2>1. \A i \in 1 .. Len(rob) : ~Writes(rob, i, 0)
    BY DEF WInv, Writes
  <2>2. \A a \in Arch : Names(rrat, rob, Len(rob), a, rat[a])
    BY DEF WInv, MapOK
  <2>3. rat[0] = 0
    BY <2>1, <2>2, <1>2, PhysFacts DEF Names
  <2>4. ASSUME NEW a \in Arch
        PROVE  rat[a] \notin free
    <3>1. \/ \E i \in 1 .. Len(rob) : rob[i].wen /\ rob[i].rd = a /\ rat[a] = rob[i].new
          \/ rat[a] = rrat[a]
      BY <2>2, NamesRange
    <3> QED BY <3>1 DEF WInv, Separate
  <2> QED BY <2>3, <2>4
<1>14. z => y \in PushFree(ready, renamed0(u0))
  <2> SUFFICES ASSUME z PROVE y \in PushFree(ready, renamed0(u0))
    OBVIOUS
  <2>1. y = rat[u1.rs] /\ rat[u1.rs] \in ready
    BY <1>2, <1>13 DEF source_ready
  <2>2. needs_phys(u0) => rat[u1.rs] # new0(u0)
    BY <1>1, <1>3, <1>13
  <2> QED BY <2>1, <2>2, <1>3 DEF PushFree
<1>15. e.open => e.snap = PushMap(map0(u0), e)
  <2>1. e.open => e.snap = map1(u0, u1)
    BY <1>10 DEF SnapFor
  <2>2. map1(u0, u1) = PushMap(map0(u0), e)
    <3> HIDE DEF e
    <3> QED BY <1>10, MapAfterIsPush DEF map1
  <2> QED BY <2>1, <2>2
<1>16. needs_phys(u1) => x = map0(u0)[u1.rd]
  BY <1>1, <1>12
<1>17. y = map0(u0)[u1.rs]
  BY <1>1, <1>12
<1> HIDE DEF e, x, y, z
<1>18. /\ e.wen => /\ e.new \in PushFree(free, renamed0(u0)) /\ e.rd # 0
                   /\ e.old = map0(u0)[e.rd]
       /\ ~e.wen => e.new = 0
       /\ e.psrc = map0(u0)[e.rs]
       /\ e.srdy => e.psrc \in PushFree(ready, renamed0(u0))
  BY <1>4, <1>5, <1>10, <1>14, <1>16, <1>17
<1> QED BY <1>10, <1>11, <1>15, <1>18 DEF e

-----------------------------------------------------------------------------
(* Whole edges.                                                            *)

(* What the invariant over a window says of the types.                     *)
LEMMA WInvTypes ==
  ASSUME NEW r, NEW fr, NEW rd, NEW m, NEW q, WInv(r, fr, rd, m, q)
  PROVE  /\ m \in [Arch -> Phys] /\ r \in [Arch -> Phys]
         /\ m[0] = 0 /\ r[0] = 0
         /\ rd \in SUBSET Phys /\ 0 \in rd
         /\ fr \in SUBSET (Phys \ {0})
         /\ q \in Seq(Entry)
         /\ DOMAIN q = 1 .. Len(q)
         /\ \A i \in DOMAIN q : (q[i].wen <=> q[i].new # 0)
         /\ \A i \in DOMAIN q : (q[i].wen => q[i].rd # 0)
<1>1. m[0] = 0
  <2>1. \A i \in 1 .. Len(q) : ~Writes(q, i, 0)
    BY DEF WInv, EntriesOK, Writes
  <2>2. Names(r, q, Len(q), 0, m[0]) /\ r[0] = 0
    BY PhysFacts DEF WInv, MapOK, MapsOK
  <2> QED BY <2>1, <2>2 DEF Names
<1>2. q \in Seq(Entry) /\ DOMAIN q = 1 .. Len(q)
  BY DEF WInv, EntriesOK
<1> QED BY <1>1, <1>2 DEF WInv, EntriesOK, MapsOK

LEMMA Establish ==
  ASSUME WInv(rrat, free, ready, rat, rob), Len(rob) <= NRob,
         identity_error = FALSE, trap \in BOOLEAN
  PROVE  IInv
<1>0. /\ rat \in [Arch -> Phys] /\ rrat \in [Arch -> Phys]
      /\ rat[0] = 0 /\ rrat[0] = 0
      /\ ready \in SUBSET Phys /\ 0 \in ready
      /\ free \in SUBSET (Phys \ {0})
      /\ rob \in Seq(Entry)
      /\ \A i \in DOMAIN rob : rob[i].wen <=> rob[i].new # 0
      /\ \A i \in DOMAIN rob : rob[i].wen => rob[i].rd # 0
  BY WInvTypes
<1>1. TypeOK
  BY <1>0 DEF TypeOK
<1>2. Injective(rrat)
  BY DEF WInv
<1> QED BY <1>1, <1>2 DEF IInv

LEMMA EstablishNext ==
  ASSUME WInv(rrat', free', ready', rat', rob'), Len(rob') <= NRob,
         identity_error' = FALSE, trap' \in BOOLEAN
  PROVE  IInv'
<1>0. /\ rat' \in [Arch -> Phys] /\ rrat' \in [Arch -> Phys]
      /\ rat'[0] = 0 /\ rrat'[0] = 0
      /\ ready' \in SUBSET Phys /\ 0 \in ready'
      /\ free' \in SUBSET (Phys \ {0})
      /\ rob' \in Seq(Entry)
      /\ \A i \in DOMAIN rob' : rob'[i].wen <=> rob'[i].new # 0
      /\ \A i \in DOMAIN rob' : rob'[i].wen => rob'[i].rd # 0
  BY WInvTypes
<1>1. TypeOK'
  BY <1>0 DEF TypeOK
<1>2. Injective(rrat')
  BY DEF WInv
<1> QED BY <1>1, <1>2 DEF IInv, Injective

(* The empty window.                                                       *)
LEMMA EmptyWindow ==
  ASSUME NEW r \in [Arch -> Phys], r[0] = 0, Injective(r),
         NEW fr, NEW rd, rd \subseteq Phys, 0 \in rd,
         fr = Phys \ {r[a] : a \in Arch}, \A a \in Arch : r[a] \in rd
  PROVE  WInv(r, fr, rd, r, << >>)
<1>1. /\ << >> \in Seq(Entry) /\ Len(<< >>) = 0
      /\ \A i \in 1 .. 0 : FALSE
  OBVIOUS
<1>2. fr \subseteq Phys \ {0}
  BY PhysFacts
<1>3. \A a \in Arch : Names(r, << >>, 0, a, r[a])
  BY <1>1 DEF Names
<1>4. EntriesOK(<< >>) /\ MapsOK(r, fr, rd, r)
  BY <1>1, <1>2 DEF EntriesOK, MapsOK
<1>5. Covered(r, fr, << >>) /\ Separate(r, fr, << >>)
  BY <1>1 DEF Covered, Separate
<1>6. MapOK(r, r, << >>)
  BY <1>1, <1>3 DEF MapOK
<1>7. /\ SrcOK(r, << >>) /\ OldOK(r, << >>) /\ SnapOK(r, << >>)
      /\ ReadyOK(r, rd, << >>) /\ SrdyOK(<< >>)
  BY <1>1 DEF SrcOK, OldOK, SnapOK, ReadyOK, SrdyOK
<1> QED BY <1>4, <1>5, <1>6, <1>7 DEF WInv

LEMMA InitIInv == Init => IInv
<1> SUFFICES ASSUME Init PROVE IInv
  OBVIOUS
<1>1. rrat \in [Arch -> Phys] /\ rrat[0] = 0 /\ Injective(rrat)
  BY PhysFacts DEF Init, Injective
<1>2. {rrat[a] : a \in Arch} = Arch
  BY DEF Init
<1>3. WInv(rrat, Phys \ Arch, Arch, rrat, << >>)
  BY <1>1, <1>2, PhysFacts, EmptyWindow DEF Init
<1>4. WInv(rrat, free, ready, rat, rob)
  BY <1>3 DEF Init
<1>5. Len(rob) <= NRob
  BY SizeAssumption DEF Init
<1> QED BY <1>4, <1>5, Establish DEF Init

(* The destinations of zero, one and two renamed instructions.             *)
LEMMA DestsShort ==
  ASSUME NEW e \in Entry, NEW f \in Entry, NEW q \in Seq(Entry), NEW S
  PROVE  /\ S \ Dests(<< >>) = S
         /\ S \ Dests(<<e>>) = PushFree(S, e)
         /\ S \ Dests(<<e, f>>) = PushFree(PushFree(S, e), f)
         /\ q \o << >> = q
         /\ q \o <<e>> = Append(q, e)
         /\ q \o <<e, f>> = Append(Append(q, e), f)
<1>1. Dests(<< >>) = {}
  BY DEF Dests
<1>2. Dests(<<e>>) = IF e.wen THEN {e.new} ELSE {}
  BY DEF Dests
<1>3. Dests(<<e, f>>) = (IF e.wen THEN {e.new} ELSE {})
                        \cup (IF f.wen THEN {f.new} ELSE {})
  <2>1. DOMAIN <<e, f>> = {1, 2} /\ <<e, f>>[1] = e /\ <<e, f>>[2] = f
    OBVIOUS
  <2> QED BY <2>1 DEF Dests
<1>4. q \o << >> = q
  BY ConcatEmptySeq
<1>5. q \o <<e>> = Append(q, e)
  OBVIOUS
<1>6. q \o <<e, f>> = Append(Append(q, e), f)
  OBVIOUS
<1> QED BY <1>1, <1>2, <1>3, <1>4, <1>5, <1>6 DEF PushFree

(* An ordinary edge: completions, retirements, then the renamed slots.     *)
LEMMA EdgeBase ==
  ASSUME IInv, ~trap,
         NEW W \in SUBSET Completable, NEW E \in SUBSET W, NEW M \in SUBSET (W \ E),
         NEW c \in 0 .. 2, Retirable(Completed(W, E, M), c)
  PROVE  LET q == Completed(W, E, M)
             s == SubSeq(q, c + 1, Len(q))
         IN  /\ WInv(RetireMap(q, c), free \cup Released(q, c), Woken(W, E), rat, s)
             /\ s \in Seq(Entry) /\ Len(s) + c = Len(rob)
             /\ ready \subseteq Woken(W, E)
<1> DEFINE q == Completed(W, E, M)
           s == SubSeq(q, c + 1, Len(q))
<1>1. WInv(rrat, free, ready, rat, rob) /\ rob \in Seq(Entry)
  BY DEF IInv, TypeOK
<1>2. /\ WInv(rrat, free, Woken(W, E), rat, q) /\ Len(q) = Len(rob)
      /\ ready \subseteq Woken(W, E)
  BY <1>1, CompletedStep
<1>3. c <= Len(q) /\ \A i \in 1 .. c : q[i].st = "done"
  BY DEF Retirable
<1>4. /\ WInv(RetireMap(q, c), free \cup Released(q, c), Woken(W, E), rat, s)
      /\ s \in Seq(Entry) /\ Len(s) = Len(q) - c
  <2> HIDE DEF q
  <2> QED BY <1>2, <1>3, RetireStep
<1>5. Len(s) + c = Len(rob)
  <2>1. Len(rob) \in Nat /\ c \in Int
    BY <1>1
  <2> HIDE DEF q, s
  <2> QED BY <2>1, <1>2, <1>4
<1> QED BY <1>2, <1>4, <1>5

(* A step of Advance whose result satisfies the window invariant.          *)
LEMMA AdvanceResult ==
  ASSUME IInv, ~trap, NEW q, NEW w, NEW c, NEW news, NEW map,
         Advance(q, w, c, news, map),
         WInv(RetireMap(q, c), (free \cup Released(q, c)) \ Dests(news),
              w \ Dests(news), map, SubSeq(q, c + 1, Len(q)) \o news),
         Len(SubSeq(q, c + 1, Len(q)) \o news) <= NRob
  PROVE  IInv'
<1>1. /\ rat' = map /\ rrat' = RetireMap(q, c)
      /\ ready' = w \ Dests(news)
      /\ free' = (free \cup Released(q, c)) \ Dests(news)
      /\ rob' = SubSeq(q, c + 1, Len(q)) \o news
      /\ identity_error' = FALSE /\ trap' \in BOOLEAN
  BY DEF Advance, RetireMap, IInv, TypeOK
<1>2. WInv(rrat', free', ready', rat', rob') /\ Len(rob') <= NRob
  BY <1>1
<1> QED BY <1>1, <1>2, EstablishNext

LEMMA NoneStep ==
  ASSUME IInv, ~trap,
         NEW W \in SUBSET Completable, NEW E \in SUBSET W, NEW M \in SUBSET (W \ E),
         NEW c \in 0 .. 2,
         DispatchNone(Completed(W, E, M), Woken(W, E), c)
  PROVE  IInv'
<1> DEFINE q == Completed(W, E, M)
           w == Woken(W, E)
           s == SubSeq(q, c + 1, Len(q))
<1>1. Advance(q, w, c, << >>, rat) /\ Retirable(q, c)
  BY DEF DispatchNone, Advance
<1>2. /\ WInv(RetireMap(q, c), free \cup Released(q, c), w, rat, s)
      /\ s \in Seq(Entry) /\ Len(s) + c = Len(rob)
  BY <1>1, EdgeBase
<1> HIDE DEF q, w, s
<1>3. /\ s \o << >> = s
      /\ \A S : S \ Dests(<< >>) = S
  <2>1. Dests(<< >>) = {}
    BY DEF Dests
  <2> QED BY <2>1, <1>2, ConcatEmptySeq
<1>4. Len(s) <= NRob
  <2>1. Len(s) \in Nat /\ Len(rob) <= NRob
    BY <1>2 DEF IInv, TypeOK
  <2> QED BY <2>1, <1>2, SizeAssumption
<1>5. WInv(RetireMap(q, c), (free \cup Released(q, c)) \ Dests(<< >>),
           w \ Dests(<< >>), rat, s \o << >>)
  BY <1>2, <1>3
<1>6. Len(s \o << >>) <= NRob
  BY <1>3, <1>4
<1> QED BY <1>1, <1>5, <1>6, AdvanceResult DEF s

LEMMA OneStep ==
  ASSUME IInv, ~trap,
         NEW W \in SUBSET Completable, NEW E \in SUBSET W, NEW M \in SUBSET (W \ E),
         NEW c \in 0 .. 2,
         DispatchOne(Completed(W, E, M), Woken(W, E), c)
  PROVE  IInv'
<1> DEFINE q == Completed(W, E, M)
           w == Woken(W, E)
           s == SubSeq(q, c + 1, Len(q))
           r == RetireMap(q, c)
           f == free \cup Released(q, c)
<1>1. PICK u0 \in Uops :
        /\ Capacity(1) /\ EnoughFree(needs_phys(u0), FALSE)
        /\ Advance(q, w, c, <<renamed0(u0)>>, map0(u0))
  BY DEF DispatchOne, slot0_offer
<1> DEFINE e == renamed0(u0)
<1>2. /\ WInv(r, f, w, rat, s)
      /\ s \in Seq(Entry) /\ Len(s) + c = Len(rob) /\ ready \subseteq w
  <2>1. Retirable(q, c)
    BY <1>1 DEF Advance
  <2> QED BY <2>1, EdgeBase
<1>3. WInv(rrat, free, ready, rat, rob)
  BY DEF IInv
<1>4. /\ e \in Entry /\ e.st = "wait"
      /\ e.wen = needs_phys(u0) /\ e.rd = u0.rd /\ e.new = new0(u0)
      /\ e.wen => e.new \in free /\ e.rd # 0 /\ e.old = rat[e.rd]
      /\ ~e.wen => e.new = 0
      /\ e.psrc = rat[e.rs]
      /\ e.srdy => e.psrc \in ready
      /\ e.open => e.snap = PushMap(rat, e)
  BY <1>1, <1>3, renamed0_fields
<1>5. free \subseteq f
  OBVIOUS
<1> HIDE DEF q, w, s, r, f, e
<1>6. WInv(r, PushFree(f, e), PushFree(w, e), PushMap(rat, e), Append(s, e))
  <2>1. /\ e.wen => e.new \in f /\ e.rd # 0 /\ e.old = rat[e.rd]
        /\ e.srdy => e.psrc \in w
    BY <1>2, <1>4, <1>5
  <2> QED BY <2>1, <1>2, <1>4, PushStep
<1>7. map0(u0) = PushMap(rat, e)
  BY <1>4, MapAfterIsPush DEF map0
<1>8. /\ s \o <<e>> = Append(s, e)
      /\ f \ Dests(<<e>>) = PushFree(f, e) /\ w \ Dests(<<e>>) = PushFree(w, e)
  BY <1>2, <1>4, DestsShort
<1>9. Len(s \o <<e>>) <= NRob
  <2>1. Len(Append(s, e)) = Len(s) + 1 /\ Len(s) \in Nat
    BY <1>2
  <2>2. Len(rob) + 1 <= NRob /\ Len(rob) \in Nat
    BY <1>1 DEF Capacity, IInv, TypeOK
  <2> QED BY <2>1, <2>2, <1>2, <1>8, SizeAssumption
<1>10. WInv(r, f \ Dests(<<e>>), w \ Dests(<<e>>), map0(u0), s \o <<e>>)
  BY <1>6, <1>7, <1>8
<1>11. Advance(q, w, c, <<e>>, map0(u0))
  BY <1>1 DEF e
<1> QED BY <1>9, <1>10, <1>11, AdvanceResult DEF s, r, f

LEMMA TwoStep ==
  ASSUME IInv, ~trap,
         NEW W \in SUBSET Completable, NEW E \in SUBSET W, NEW M \in SUBSET (W \ E),
         NEW c \in 0 .. 2,
         DispatchTwo(Completed(W, E, M), Woken(W, E), c)
  PROVE  IInv'
<1> DEFINE q == Completed(W, E, M)
           w == Woken(W, E)
           s == SubSeq(q, c + 1, Len(q))
           r == RetireMap(q, c)
           f == free \cup Released(q, c)
<1>1. PICK u0 \in Uops, u1 \in Uops :
        /\ Capacity(2) /\ EnoughFree(needs_phys(u0), FALSE)
        /\ EnoughFree(needs_phys(u0), needs_phys(u1))
        /\ Advance(q, w, c, <<renamed0(u0), renamed1(u0, u1)>>, map1(u0, u1))
  BY DEF DispatchTwo, slot1_offer, slot0_offer
<1> DEFINE e == renamed0(u0)
           g == renamed1(u0, u1)
           m == map0(u0)
<1>2. /\ WInv(r, f, w, rat, s)
      /\ s \in Seq(Entry) /\ Len(s) + c = Len(rob) /\ ready \subseteq w
  <2>1. Retirable(q, c)
    BY <1>1 DEF Advance
  <2> QED BY <2>1, EdgeBase
<1>3. WInv(rrat, free, ready, rat, rob)
  BY DEF IInv
<1>4. /\ e \in Entry /\ e.st = "wait"
      /\ e.wen = needs_phys(u0) /\ e.rd = u0.rd /\ e.new = new0(u0)
      /\ e.wen => e.new \in free /\ e.rd # 0 /\ e.old = rat[e.rd]
      /\ ~e.wen => e.new = 0
      /\ e.psrc = rat[e.rs]
      /\ e.srdy => e.psrc \in ready
      /\ e.open => e.snap = PushMap(rat, e)
  BY <1>1, <1>3, renamed0_fields
<1>5. /\ g \in Entry /\ g.st = "wait"
      /\ g.wen = needs_phys(u1) /\ g.rd = u1.rd /\ g.new = new1(u0, u1)
      /\ g.wen => g.new \in PushFree(free, e) /\ g.rd # 0 /\ g.old = m[g.rd]
      /\ ~g.wen => g.new = 0
      /\ g.psrc = m[g.rs]
      /\ g.srdy => g.psrc \in PushFree(ready, e)
      /\ g.open => g.snap = PushMap(m, g)
  BY <1>1, <1>3, renamed1_fields
<1>6. free \subseteq f /\ ready \subseteq w
  BY <1>2
<1>7. map1(u0, u1) = PushMap(m, g)
  <2> HIDE DEF g, m
  <2> QED BY <1>5, MapAfterIsPush DEF map1, m
<1>8. m = PushMap(rat, e)
  <2> HIDE DEF e
  <2> QED BY <1>4, MapAfterIsPush DEF map0
<1> HIDE DEF q, w, s, r, f, e, g, m
<1>9. WInv(r, PushFree(f, e), PushFree(w, e), m, Append(s, e))
  <2>1. /\ e.wen => e.new \in f /\ e.rd # 0 /\ e.old = rat[e.rd]
        /\ e.srdy => e.psrc \in w
    BY <1>4, <1>6
  <2> QED BY <2>1, <1>2, <1>4, <1>8, PushStep
<1>10. WInv(r, PushFree(PushFree(f, e), g), PushFree(PushFree(w, e), g),
            PushMap(m, g), Append(Append(s, e), g))
  <2>1. PushFree(free, e) \subseteq PushFree(f, e)
        /\ PushFree(ready, e) \subseteq PushFree(w, e)
    BY <1>6 DEF PushFree
  <2>2. /\ g.wen => g.new \in PushFree(f, e) /\ g.rd # 0 /\ g.old = m[g.rd]
        /\ g.srdy => g.psrc \in PushFree(w, e)
    BY <2>1, <1>5
  <2> QED BY <2>2, <1>5, <1>9, PushStep
<1>11. /\ s \o <<e, g>> = Append(Append(s, e), g)
       /\ f \ Dests(<<e, g>>) = PushFree(PushFree(f, e), g)
       /\ w \ Dests(<<e, g>>) = PushFree(PushFree(w, e), g)
  <2>1. e \in Entry /\ g \in Entry /\ s \in Seq(Entry)
    BY <1>2, <1>4, <1>5
  <2>2. s \o <<e, g>> = Append(Append(s, e), g)
    BY <2>1, DestsShort
  <2>3. DOMAIN <<e, g>> = {1, 2} /\ <<e, g>>[1] = e /\ <<e, g>>[2] = g
    OBVIOUS
  <2>4. Dests(<<e, g>>) = (IF e.wen THEN {e.new} ELSE {})
                          \cup (IF g.wen THEN {g.new} ELSE {})
    BY <2>3 DEF Dests
  <2> QED BY <2>2, <2>4 DEF PushFree
<1>12. Len(s \o <<e, g>>) <= NRob
  <2>1. Len(Append(Append(s, e), g)) = Len(s) + 2 /\ Len(s) \in Nat
    BY <1>2, <1>4, <1>5
  <2>2. Len(rob) + 2 <= NRob /\ Len(rob) \in Nat
    BY <1>1 DEF Capacity, IInv, TypeOK
  <2> QED BY <2>1, <2>2, <1>2, <1>11, SizeAssumption
<1>13. WInv(r, f \ Dests(<<e, g>>), w \ Dests(<<e, g>>), map1(u0, u1),
            s \o <<e, g>>)
  BY <1>7, <1>10, <1>11
<1>14. Advance(q, w, c, <<e, g>>, map1(u0, u1))
  BY <1>1 DEF e, g
<1> QED BY <1>12, <1>13, <1>14, AdvanceResult DEF s, r, f

(* Selective recovery.                                                     *)
LEMMA RestoreStep ==
  ASSUME IInv, SelectiveRestore
  PROVE  IInv'
<1>1. PICK b \in Mispredicted(rob) : \E W \in SUBSET Completable :
        \E E \in SUBSET W : RestoreBehind(b, W, E)
  BY DEF SelectiveRestore
<1>a. PICK W \in SUBSET Completable : \E E \in SUBSET W : RestoreBehind(b, W, E)
  BY <1>1
<1>b. PICK E \in SUBSET W : RestoreBehind(b, W, E) /\ ~trap
  BY <1>a DEF SelectiveRestore
<1> DEFINE q == Completed(W, E, {})
           n == Len(q)
           w == Woken(W, E)
           killed == Dests(SubSeq(q, b + 1, n))
           S == q[b].snap
           ok == identity_ok(S, killed)
           q2 == [SubSeq(q, 1, b) EXCEPT ![b] = Closed(q[b])]
<1>2. WInv(rrat, free, ready, rat, rob) /\ rob \in Seq(Entry)
  BY <1>b DEF IInv, TypeOK, RestoreBehind
<1>3. WInv(rrat, free, w, rat, q) /\ n = Len(rob) /\ q \in Seq(Entry)
  <2>1. {} \in SUBSET (W \ E)
    OBVIOUS
  <2>2. WInv(rrat, free, w, rat, q) /\ n = Len(rob)
    BY <1>2, <2>1, CompletedStep
  <2> HIDE DEF q, n, w
  <2> QED BY <2>2 DEF WInv, EntriesOK
<1>4. b \in 1 .. n /\ q[b] = rob[b] /\ q[b].open
  <2>1. b \in DOMAIN rob /\ rob[b].open /\ DOMAIN rob = 1 .. Len(rob) /\ b \notin W
    BY <1>b, <1>2 DEF RestoreBehind, Mispredicted, OpenBranches
  <2>2. q[b] = rob[b]
    BY <2>1 DEF Completed
  <2> HIDE DEF q, n
  <2> QED BY <2>1, <2>2, <1>3
<1>5. /\ identity_error' = (identity_error \/ ~ok)
      /\ rat'   = IF ok THEN [S EXCEPT ![0] = 0] ELSE rat
      /\ ready' = IF ok THEN w \ killed ELSE ready
      /\ free'  = IF ok THEN free \cup killed ELSE free
      /\ rob'   = IF ok THEN q2 ELSE rob
      /\ rrat' = rrat /\ trap' = trap /\ ~trap
  BY <1>b DEF RestoreBehind
<1> HIDE DEF q, w, ok
<1>6. /\ n \in Nat /\ b \in Nat /\ 1 <= b /\ b <= n
      /\ \A i \in 1 .. n : q[i] \in Entry
  BY <1>3, <1>4
<1>7. /\ SubSeq(q, 1, b) \in Seq(Entry) /\ Len(SubSeq(q, 1, b)) = b
      /\ \A i \in 1 .. b : SubSeq(q, 1, b)[i] = q[i]
  <2>1. 1 \in Int /\ b \in Int /\ \A i \in 1 .. b : q[i] \in Entry
    BY <1>6
  <2>2. /\ SubSeq(q, 1, b) \in Seq(Entry)
        /\ Len(SubSeq(q, 1, b)) = IF 1 <= b THEN b - 1 + 1 ELSE 0
        /\ \A i \in 1 .. b - 1 + 1 : SubSeq(q, 1, b)[i] = q[1 + i - 1]
    BY <2>1, SubSeqProperties
  <2>3. b - 1 + 1 = b /\ \A i \in 1 .. b : 1 + i - 1 = i
    BY <1>6
  <2> QED BY <2>2, <2>3, <1>6
<1>8. /\ q2 \in Seq(Entry) /\ Len(q2) = b
      /\ \A i \in 1 .. b : q2[i] = IF i = b THEN Closed(q[b]) ELSE q[i]
  <2>1. Closed(q[b]) \in Entry
    BY <1>4, <1>6, EntryOps
  <2> DEFINE s == SubSeq(q, 1, b)
  <2>2. s \in Seq(Entry) /\ Len(s) = b /\ \A i \in 1 .. b : s[i] = q[i]
    BY <1>7
  <2>3. q2 = [s EXCEPT ![b] = Closed(q[b])]
    OBVIOUS
  <2> HIDE DEF s, q2
  <2> QED BY <2>1, <2>2, <2>3, <1>6
<1>9. \A p : p \in killed <=> \E i \in b + 1 .. n : q[i].wen /\ q[i].new = p
  <2> DEFINE s == SubSeq(q, b + 1, n)
  <2>1. /\ s \in Seq(Entry)
        /\ Len(s) = IF b + 1 <= n THEN n - (b + 1) + 1 ELSE 0
        /\ \A i \in 1 .. n - (b + 1) + 1 : s[i] = q[b + 1 + i - 1]
    <3>1. b + 1 \in Int /\ n \in Int /\ \A i \in b + 1 .. n : q[i] \in Entry
      BY <1>6
    <3> HIDE DEF n
    <3> QED BY <3>1, SubSeqProperties
  <2>2. Len(s) = n - b /\ \A i \in 1 .. n - b : s[i] = q[b + i]
    <3>1. n - (b + 1) + 1 = n - b /\ (b + 1 <= n \/ n - b = 0)
          /\ \A i \in 1 .. n - b : b + 1 + i - 1 = b + i
      <4> HIDE DEF n
      <4> QED BY <1>6
    <3> HIDE DEF s, n
    <3> QED BY <2>1, <3>1, <1>6
  <2>3. DOMAIN s = 1 .. n - b
    <3> HIDE DEF s, n
    <3> QED BY <2>1, <2>2
  <2>4. killed = {s[i].new : i \in {j \in 1 .. n - b : s[j].wen}}
    <3>1. killed = Dests(s)
      OBVIOUS
    <3> HIDE DEF killed, s, n
    <3> QED BY <3>1, <2>3 DEF Dests
  <2>5. /\ \A i \in 1 .. n - b : b + i \in b + 1 .. n
        /\ \A i \in b + 1 .. n : i - b \in 1 .. n - b /\ b + (i - b) = i
    <3> HIDE DEF n
    <3> QED BY <1>6
  <2> HIDE DEF s, killed, n
  <2> QED BY <2>2, <2>4, <2>5
<1>10. \A i \in 1 .. b :
         /\ SameNames(q2[i], q[i]) /\ q2[i].st = q[i].st
         /\ q2[i].open => q[i].open /\ q2[i].snap = q[i].snap
  <2>1. /\ SameNames(Closed(q[b]), q[b]) /\ Closed(q[b]).st = q[b].st
        /\ ~Closed(q[b]).open
    BY <1>4, <1>6, EntryOps
  <2> HIDE DEF q2
  <2> QED BY <2>1, <1>8 DEF SameNames
<1> HIDE DEF q2, killed
<1>11. /\ WInv(rrat, free \cup killed, w \ killed, S, q2)
       /\ 0 \notin killed
       /\ S[0] = 0
       /\ \A a \in Arch : S[a] \notin free \cup killed /\ rrat[a] \notin killed
       /\ killed \cap free = {}
  <2> HIDE DEF n
  <2>1. DestsBehind(killed, q, b)
    BY <1>9 DEF n, DestsBehind
  <2>2. Survivors(q2, q, b)
    BY <1>4, <1>8, <1>10 DEF n, Survivors
  <2>3. WInv(rrat, free, w, rat, q)
    BY <1>3
  <2> HIDE DEF S
  <2>4. WInv(rrat, free \cup killed, w \ killed, q[b].snap, q2)
    BY <2>1, <2>2, <2>3, CutStep
  <2>5. 0 \notin killed /\ q[b].snap[0] = 0 /\ killed \cap free = {}
    BY <2>1, <2>2, <2>3, CutStep
  <2>6. \A a \in Arch : q[b].snap[a] \notin free \cup killed
                        /\ rrat[a] \notin killed
    BY <2>1, <2>2, <2>3, CutStep
  <2> QED BY <2>4, <2>5, <2>6 DEF S
<1> HIDE DEF S
<1>12. ok
  BY <1>11 DEF ok, identity_ok
<1>13. [S EXCEPT ![0] = 0] = S
  <2>1. S \in [Arch -> Phys]
    BY <1>11 DEF WInv, MapsOK
  <2> QED BY <2>1, <1>11
<1>14. /\ WInv(rrat', free', ready', rat', rob')
       /\ identity_error' = FALSE /\ trap' \in BOOLEAN
  <2>1. /\ rat' = S /\ ready' = w \ killed /\ free' = free \cup killed
        /\ rob' = q2 /\ rrat' = rrat
    BY <1>5, <1>12, <1>13
  <2>2. identity_error' = FALSE /\ trap' \in BOOLEAN
    BY <1>5, <1>12 DEF IInv, TypeOK
  <2> QED BY <2>1, <2>2, <1>11
<1>15. Len(rob') <= NRob
  <2>1. rob' = q2 /\ n <= NRob
    BY <1>3, <1>5, <1>12 DEF IInv, TypeOK
  <2> HIDE DEF n
  <2> QED BY <2>1, <1>6, <1>8, SizeAssumption
<1> QED BY <1>14, <1>15, EstablishNext

LEMMA ClockEdgeStep ==
  ASSUME IInv, ClockEdge
  PROVE  IInv'
<1>1. PICK W \in SUBSET Completable : \E E \in SUBSET W :
        \E M \in SUBSET (W \ E) : \E c \in 0 .. 2 :
          \/ DispatchNone(Completed(W, E, M), Woken(W, E), c)
          \/ DispatchOne(Completed(W, E, M), Woken(W, E), c)
          \/ DispatchTwo(Completed(W, E, M), Woken(W, E), c)
  BY DEF ClockEdge
<1>2. PICK E \in SUBSET W : \E M \in SUBSET (W \ E) : \E c \in 0 .. 2 :
          \/ DispatchNone(Completed(W, E, M), Woken(W, E), c)
          \/ DispatchOne(Completed(W, E, M), Woken(W, E), c)
          \/ DispatchTwo(Completed(W, E, M), Woken(W, E), c)
  BY <1>1
<1>3. PICK M \in SUBSET (W \ E), c \in 0 .. 2 :
          \/ DispatchNone(Completed(W, E, M), Woken(W, E), c)
          \/ DispatchOne(Completed(W, E, M), Woken(W, E), c)
          \/ DispatchTwo(Completed(W, E, M), Woken(W, E), c)
  BY <1>2
<1>4. ~trap
  BY DEF ClockEdge
<1>5. CASE DispatchNone(Completed(W, E, M), Woken(W, E), c)
  BY <1>4, <1>5, NoneStep
<1>6. CASE DispatchOne(Completed(W, E, M), Woken(W, E), c)
  BY <1>4, <1>6, OneStep
<1>7. CASE DispatchTwo(Completed(W, E, M), Woken(W, E), c)
  BY <1>4, <1>7, TwoStep
<1> QED BY <1>3, <1>5, <1>6, <1>7

LEMMA RecoveryWaitStep ==
  ASSUME IInv, RecoveryWait
  PROVE  IInv'
<1>1. PICK W \in SUBSET Completable : \E E \in SUBSET W :
          DispatchNone(Completed(W, E, {}), Woken(W, E), 0)
  BY DEF RecoveryWait
<1>2. PICK E \in SUBSET W : DispatchNone(Completed(W, E, {}), Woken(W, E), 0)
  BY <1>1
<1>3. ~trap /\ {} \in SUBSET (W \ E) /\ 0 \in 0 .. 2
  BY DEF RecoveryWait
<1> QED BY <1>2, <1>3, NoneStep

(* A control event: only the retired map, injective, matters until the     *)
(* global recovery rebuilds everything from it.                            *)
LEMMA RetireControlStep ==
  ASSUME IInv, RetireControl
  PROVE  IInv'
<1> DEFINE n == Len(rob)
<1>1. /\ ~trap /\ rob # << >> /\ rob' = Tail(rob) /\ trap' = TRUE
      /\ rat' = rat /\ ready' = ready /\ identity_error' = identity_error
  BY DEF RetireControl
<1>2. /\ WInv(rrat, free, ready, rat, rob) /\ TypeOK /\ identity_error = FALSE
      /\ rob \in Seq(Entry)
  BY <1>1 DEF IInv, TypeOK
<1>3. /\ rob' \in Seq(Entry) /\ Len(rob') = n - 1 /\ n \in Nat /\ n >= 1
      /\ \A i \in 1 .. n - 1 : rob'[i] = rob[i + 1]
  BY <1>1, <1>2
<1>4. /\ Len(rob') <= NRob
      /\ \A i \in DOMAIN rob' : rob'[i].wen <=> rob'[i].new # 0
      /\ \A i \in DOMAIN rob' : rob'[i].wen => rob'[i].rd # 0
  <2>1. \A i \in 1 .. n - 1 : i + 1 \in 1 .. n
    BY <1>3
  <2>2. DOMAIN rob' = 1 .. n - 1
    <3>1. DOMAIN rob' = 1 .. Len(rob') /\ Len(rob') = n - 1
      BY <1>3
    <3> HIDE DEF n
    <3> QED BY <3>1
  <2>3. \A i \in 1 .. n : (rob[i].wen <=> rob[i].new # 0)
                          /\ (rob[i].wen => rob[i].rd # 0)
    BY <1>2 DEF WInv, EntriesOK
  <2>4. Len(rob') <= NRob
    <3>1. n <= NRob /\ n \in Nat /\ Len(rob') = n - 1
      BY <1>2, <1>3 DEF TypeOK
    <3> HIDE DEF n
    <3> QED BY <3>1, SizeAssumption
  <2> HIDE DEF n
  <2> QED BY <2>1, <2>2, <2>3, <2>4, <1>3
<1>5. /\ rrat' \in [Arch -> Phys] /\ rrat'[0] = 0 /\ Injective(rrat')
      /\ free' \in SUBSET (Phys \ {0})
  <2>1. CASE UNCHANGED <<rrat, free>>
    BY <2>1, <1>2 DEF WInv, TypeOK
  <2>2. CASE /\ Head(rob).st = "done" /\ Head(rob).kind = "sys"
             /\ rrat' = [a \in Arch |-> Retired(rob, 1, a)]
             /\ free' = free \cup Released(rob, 1)
    <3>1. rob[1].st = "done" /\ \A i \in 1 .. 1 : rob[i].st = "done"
      BY <2>2, <1>2, <1>3
    <3>2. 1 \in 0 .. 2 /\ 1 <= Len(rob)
      BY <1>3
    <3>3. WInv(RetireMap(rob, 1), free \cup Released(rob, 1), ready, rat,
               SubSeq(rob, 2, Len(rob)))
      <4>1. WInv(RetireMap(rob, 1), free \cup Released(rob, 1), ready, rat,
                 SubSeq(rob, 1 + 1, Len(rob)))
        BY <1>2, <3>1, <3>2, RetireStep
      <4> QED BY <4>1
    <3>4. rrat' = RetireMap(rob, 1)
      BY <2>2 DEF RetireMap
    <3> QED BY <2>2, <3>3, <3>4 DEF WInv, MapsOK
  <2> QED BY <2>1, <2>2 DEF RetireControl
<1>6. TypeOK'
  BY <1>1, <1>2, <1>3, <1>4, <1>5 DEF TypeOK
<1>7. Injective(rrat)'
  BY <1>5 DEF Injective
<1> QED BY <1>1, <1>2, <1>6, <1>7 DEF IInv

LEMMA GlobalRecoverStep ==
  ASSUME IInv, GlobalRecover
  PROVE  IInv'
<1>1. rrat \in [Arch -> Phys] /\ rrat[0] = 0 /\ Injective(rrat)
  BY DEF IInv, TypeOK
<1> DEFINE live == {rrat[a] : a \in Arch}
<1>2. [rrat EXCEPT ![0] = 0] = rrat /\ live \cup {0} = live
  BY <1>1, PhysFacts
<1>3. /\ rat' = rrat /\ rrat' = rrat /\ ready' = live /\ free' = Phys \ live
      /\ rob' = << >> /\ identity_error' = FALSE /\ trap' = FALSE
  BY <1>2 DEF GlobalRecover
<1>4. live \subseteq Phys /\ 0 \in live
  BY <1>1, PhysFacts
<1>5. WInv(rrat, Phys \ live, live, rrat, << >>)
  BY <1>1, <1>4, EmptyWindow
<1>6. WInv(rrat', free', ready', rat', rob') /\ Len(rob') <= NRob
  BY <1>3, <1>5, SizeAssumption
<1> QED BY <1>3, <1>6, EstablishNext

LEMMA StutterStep ==
  ASSUME IInv, UNCHANGED vars
  PROVE  IInv'
<1>1. /\ rat' = rat /\ rrat' = rrat /\ ready' = ready /\ free' = free
      /\ identity_error' = identity_error /\ rob' = rob /\ trap' = trap
  BY DEF vars
<1>2. TypeOK'
  BY <1>1 DEF IInv, TypeOK
<1>3. Injective(rrat)' /\ identity_error' = FALSE
  BY <1>1 DEF IInv, Injective
<1>4. (~trap => WInv(rrat, free, ready, rat, rob))'
  BY <1>1 DEF IInv
<1> QED BY <1>2, <1>3, <1>4 DEF IInv

LEMMA NextStep ==
  ASSUME IInv, [Next]_vars
  PROVE  IInv'
BY ClockEdgeStep, RecoveryWaitStep, RestoreStep, RetireControlStep,
   GlobalRecoverStep, StutterStep DEF Next

-----------------------------------------------------------------------------
(* The theorems.                                                           *)

(* The invariant holds in every reachable state, for every number of       *)
(* registers, reorder-buffer entries and checkpoints and every set of      *)
(* instructions.                                                           *)
THEOREM Inductive == Spec => []IInv
<1>1. Init => IInv
  BY InitIInv
<1>2. IInv /\ [Next]_vars => IInv'
  BY NextStep
<1> QED BY <1>1, <1>2, PTL DEF Spec

(* Every variable keeps its type and the window never overflows.           *)
THEOREM TypeCorrect == Spec => []TypeOK
<1>1. IInv => TypeOK
  BY DEF IInv
<1> QED BY <1>1, Inductive, PTL

(* No physical register is lost or held twice.                             *)
THEOREM Conservation == Spec => []PhysConservation
<1>1. IInv => PhysConservation
  <2> SUFFICES ASSUME IInv, ~trap
               PROVE  /\ Phys \ {0} \subseteq free \cup {rrat[a] : a \in Arch} \cup Dests(rob)
                      /\ \A i, j \in DOMAIN rob : rob[i].wen /\ rob[j].wen /\ i # j
                                                  => rob[i].new # rob[j].new
                      /\ \A a, b \in Arch : a # b => rrat[a] # rrat[b]
                      /\ \A i \in DOMAIN rob : rob[i].wen =>
                           /\ rob[i].new \notin free
                           /\ \A a \in Arch : rob[i].new # rrat[a]
                      /\ \A a \in Arch : rrat[a] \notin free
    BY DEF PhysConservation
  <2>1. DOMAIN rob = 1 .. Len(rob)
    BY DEF IInv, TypeOK
  <2>2. Phys \ {0} \subseteq free \cup {rrat[a] : a \in Arch} \cup Dests(rob)
    BY <2>1 DEF IInv, WInv, Covered, Dests
  <2> QED BY <2>1, <2>2 DEF IInv, WInv, Separate, Injective
<1> QED BY <1>1, Inductive, PTL

(* The speculative map names the youngest writer of every register.        *)
THEOREM MapIsYoungest == Spec => []RatIsYoungest
<1>1. IInv => RatIsYoungest
  BY DEF IInv, WInv, MapOK, RatIsYoungest
<1> QED BY <1>1, Inductive, PTL

(* Every operand is read under the name of its program-order producer.     *)
THEOREM SourcesInOrder == Spec => []SourceIsProgramOrder
<1>1. IInv => SourceIsProgramOrder
  <2>1. IInv => DOMAIN rob = 1 .. Len(rob)
    BY DEF IInv, TypeOK
  <2> QED BY <2>1 DEF IInv, WInv, SrcOK, SourceIsProgramOrder
<1> QED BY <1>1, Inductive, PTL

(* What retirement releases is the name just before the instruction.       *)
THEOREM OldsInOrder == Spec => []OldIsPrevious
<1>1. IInv => OldIsPrevious
  <2>1. IInv => DOMAIN rob = 1 .. Len(rob)
    BY DEF IInv, TypeOK
  <2> QED BY <2>1 DEF IInv, WInv, OldOK, OldIsPrevious
<1> QED BY <1>1, Inductive, PTL

(* A checkpoint is the map right behind its branch.                        *)
THEOREM SnapshotsExact == Spec => []SnapshotExact
<1>1. IInv => SnapshotExact
  <2>1. IInv => DOMAIN rob = 1 .. Len(rob)
    BY DEF IInv, TypeOK
  <2> QED BY <2>1 DEF IInv, WInv, SnapOK, SnapshotExact, OpenBranches
<1> QED BY <1>1, Inductive, PTL

(* Ready bits follow the results.                                          *)
THEOREM ReadyFollowsResults == Spec => []ReadyIffWritten
<1>1. IInv => ReadyIffWritten
  <2>1. IInv => DOMAIN rob = 1 .. Len(rob)
    BY DEF IInv, TypeOK
  <2> QED BY <2>1 DEF IInv, WInv, ReadyOK, ReadyIffWritten
<1> QED BY <1>1, Inductive, PTL

(* An instruction is renamed as ready only when its operand is written.    *)
THEOREM RenamedReadyIsWritten == Spec => []SrcReadyIsWritten
<1>1. IInv => SrcReadyIsWritten
  <2>1. IInv => DOMAIN rob = 1 .. Len(rob)
    BY DEF IInv, TypeOK
  <2> QED BY <2>1 DEF IInv, WInv, SrdyOK, SrcReadyIsWritten
<1> QED BY <1>1, Inductive, PTL

(* A selective restore is never refused and no free register is mapped.    *)
THEOREM NeverRefused == Spec => []NoConservationError
<1>1. IInv => NoConservationError
  <2> SUFFICES ASSUME IInv, ~trap
               PROVE  /\ ~identity_error
                      /\ \A a \in Arch : rat[a] \notin free /\ rrat[a] \notin free
    BY DEF NoConservationError
  <2>1. ASSUME NEW a \in Arch PROVE rat[a] \notin free
    <3>1. Names(rrat, rob, Len(rob), a, rat[a])
      BY DEF IInv, WInv, MapOK
    <3>2. \/ \E i \in 1 .. Len(rob) : rob[i].wen /\ rob[i].rd = a /\ rat[a] = rob[i].new
          \/ rat[a] = rrat[a]
      BY <3>1, NamesRange
    <3> QED BY <3>2 DEF IInv, WInv, Separate
  <2> QED BY <2>1 DEF IInv, WInv, Separate
<1> QED BY <1>1, Inductive, PTL

=============================================================================
