---------------------------- MODULE ClassLinkProofs ----------------------------
(***************************************************************************)
(* Proofs about ClassLink: the tables of every linked type are in order,   *)
(* so that linking the next one over them finds what it relies on.         *)
(***************************************************************************)
EXTENDS ClassLink, WellFoundedInduction, FiniteSetTheorems, TLAPS

\* A nonempty set of natural numbers has a least element.
LEMMA NatMin ==
    ASSUME NEW T, T \subseteq Nat, T /= {}
    PROVE  \E x \in T : \A y \in T : x <= y
<1>0. PICK R : R = OpToRel(<, Nat)
  OBVIOUS
<1>1. IsWellFoundedOn(R, Nat)
  BY <1>0, NatLessThanWellFounded
<1>2. \A x \in Nat, y \in Nat : <<y, x>> \in R <=> y < x
  BY <1>0 DEF OpToRel
<1>3. \E x \in T : \A y \in T : ~(<<y, x>> \in R)
  BY <1>1, WFMin
<1>4. PICK x \in T : \A y \in T : ~(<<y, x>> \in R)
  BY <1>3
<1>5. \A y \in T : x <= y
  <2> TAKE y \in T
  <2>1. x \in Nat /\ y \in Nat
    OBVIOUS
  <2>2. ~(y < x)
    BY <1>2, <1>4, <2>1
  <2> QED BY <2>1, <2>2
<1> QED BY <1>5

\* What holds of 0 and passes from n to n + 1 up to N holds of all of 0..N.
LEMMA SetInduction ==
    ASSUME NEW N \in Nat, NEW T,
           0 \in T, \A n \in 0..N - 1 : n \in T => n + 1 \in T
    PROVE  0..N \subseteq T
<1>1. PICK U : U = {n \in 0..N : n \notin T}
  OBVIOUS
<1>2. SUFFICES ASSUME U /= {} PROVE FALSE
  BY <1>1
<1>3. U \subseteq Nat
  BY <1>1
<1>4. PICK x \in U : \A y \in U : x <= y
  BY <1>2, <1>3, NatMin
<1>5. x /= 0 /\ x \in 0..N /\ x \notin T
  BY <1>1
<1>6. x - 1 \in 0..N - 1 /\ x - 1 \notin U
  BY <1>4, <1>5
<1>7. x - 1 \in T
  BY <1>6, <1>1
<1> QED BY <1>5, <1>6, <1>7

\* Min is the least element of a nonempty set of natural numbers.
LEMMA MinIs ==
    ASSUME NEW T, T \subseteq Nat, T /= {}
    PROVE  Min(T) \in T /\ \A y \in T : Min(T) <= y
  BY NatMin DEF Min

\* Max is the greatest element of a nonempty set of numbers up to N.
LEMMA MaxIs ==
    ASSUME NEW N \in Nat, NEW T, T \subseteq 0..N, T /= {}
    PROVE  Max(T) \in T /\ \A y \in T : y <= Max(T)
<1>1. PICK U : U = {n \in 0..N : N - n \in T}
  OBVIOUS
<1>2. U \subseteq Nat /\ U /= {}
  <2>1. PICK t \in T : TRUE
    OBVIOUS
  <2>2. N - t \in 0..N /\ N - (N - t) = t
    BY <2>1
  <2>3. N - t \in U
    BY <1>1, <2>1, <2>2
  <2>4. U \subseteq Nat
    BY <1>1
  <2> QED BY <2>3, <2>4
<1>3. PICK x \in U : \A y \in U : x <= y
  BY <1>2, NatMin
<1>4. N - x \in T /\ \A y \in T : y <= N - x
  <2>1. \A y \in T : N - y \in U
    <3>1. \A y \in T : N - (N - y) = y /\ N - y \in 0..N
      OBVIOUS
    <3> QED BY <3>1, <1>1
  <2> QED BY <2>1, <1>1, <1>3
<1> QED BY <1>4 DEF Max

\* f holds the tables of AddMissing.
AddSteps(f, table, list) ==
    /\ DOMAIN f = 0..Len(list) /\ f[0] = table
    /\ \A n \in 1..Len(list) : f[n] = AddOne(f[n - 1], list[n])
\* AddMissing is the last of its tables.
LEMMA AddMissingRec ==
    ASSUME NEW table, NEW list, Len(list) \in Nat
    PROVE  \E f : AddSteps(f, table, list) /\ AddMissing(table, list) = f[Len(list)]
<1>0. PICK b : b = table
  OBVIOUS
<1>1. PICK N \in Nat : N = Len(list)
  OBVIOUS
<1>2. PICK T : T = {m \in 0..N : \E f : /\ DOMAIN f = 0..m /\ f[0] = b
                                        /\ \A n \in 1..m : f[n] = AddOne(f[n - 1], list[n])}
  OBVIOUS
<1>3. 0 \in T
  <2>1. PICK f : f = [x \in 0..0 |-> b]
    OBVIOUS
  <2>2. DOMAIN f = 0..0 /\ f[0] = b /\ \A n \in 1..0 : f[n] = AddOne(f[n - 1], list[n])
    BY <2>1
  <2> QED BY <2>2, <1>1, <1>2
<1>4. \A m \in 0..N - 1 : m \in T => m + 1 \in T
  <2> SUFFICES ASSUME NEW m \in 0..N - 1, m \in T PROVE m + 1 \in T
    OBVIOUS
  <2>1. PICK f : /\ DOMAIN f = 0..m /\ f[0] = b
                 /\ \A n \in 1..m : f[n] = AddOne(f[n - 1], list[n])
    BY <1>2
  <2>2. PICK e : e = AddOne(f[m], list[(m + 1)])
    OBVIOUS
  <2>3. PICK g : g = [n \in 0..m + 1 |-> IF n = m + 1 THEN e ELSE f[n]]
    OBVIOUS
  <2>4. \A n \in 0..m : g[n] = f[n]
    BY <1>1, <2>3
  <2>5. DOMAIN g = 0..m + 1 /\ g[0] = b
    BY <1>1, <2>1, <2>3, <2>4
  <2>6. \A n \in 1..m + 1 : g[n] = AddOne(g[n - 1], list[n])
    <3> TAKE n \in 1..m + 1
    <3>1. CASE n = m + 1
      <4>1. g[n] = e /\ g[n - 1] = f[m]
        BY <1>1, <2>3, <2>4, <3>1
      <4> QED BY <4>1, <3>1, <2>2
    <3>2. CASE n \in 1..m
      <4>1. g[n] = f[n] /\ g[n - 1] = f[n - 1]
        BY <1>1, <2>4, <3>2
      <4> QED BY <4>1, <3>2, <2>1
    <3> QED BY <1>1, <3>1, <3>2
  <2>7. m + 1 \in 0..N
    BY <1>1
  <2> QED BY <2>5, <2>6, <2>7, <1>2
<1>5. N \in T
  <2>1. 0..N \subseteq T
    BY <1>3, <1>4, SetInduction
  <2> QED BY <2>1
<1>6. PICK g : /\ DOMAIN g = 0..N /\ g[0] = b
               /\ \A n \in 1..N : g[n] = AddOne(g[n - 1], list[n])
  BY <1>2, <1>5
<1>7. PICK w : w = [n \in 0..N |-> IF n = 0 THEN b ELSE AddOne(g[n - 1], list[n])]
  OBVIOUS
<1>8. \A n \in 0..N : w[n] = g[n]
  BY <1>1, <1>6, <1>7
<1>9. w = [n \in 0..Len(list) |-> IF n = 0 THEN table ELSE AddOne(w[n - 1], list[n])]
  <2>1. \A n \in 0..N : n /= 0 => w[n - 1] = g[n - 1]
    BY <1>1, <1>8
  <2> QED BY <1>0, <1>1, <1>7, <2>1
<1>10. PICK f : f = CHOOSE w0 : w0 = [n \in 0..Len(list) |-> IF n = 0 THEN table ELSE AddOne(w0[n - 1], list[n])]
  OBVIOUS
<1>11. f = [n \in 0..Len(list) |-> IF n = 0 THEN table ELSE AddOne(f[n - 1], list[n])]
  BY <1>9, <1>10
<1>12. AddMissing(table, list) = f[Len(list)]
  BY <1>10 DEF AddMissing
<1>13. DOMAIN f = 0..Len(list) /\ f[0] = table
  BY <1>11, <1>1
<1>14. \A n \in 1..Len(list) : f[n] = AddOne(f[n - 1], list[n])
  <2> TAKE n \in 1..Len(list)
  <2>1. n \in 0..Len(list) /\ n /= 0
    BY <1>1
  <2> QED BY <2>1, <1>11
<1>15. AddSteps(f, table, list)
  BY <1>13, <1>14 DEF AddSteps
<1> QED BY <1>12, <1>15

\* f holds the tables of FillIfTable.
FillSteps(f, table, list) ==
    /\ DOMAIN f = 0..Len(list) /\ f[0] = table
    /\ \A n \in 1..Len(list) : f[n] = FillOne(f[n - 1], list[n])
\* FillIfTable is the last of its tables.
LEMMA FillIfTableRec ==
    ASSUME NEW table, NEW list, Len(list) \in Nat
    PROVE  \E f : FillSteps(f, table, list) /\ FillIfTable(table, list) = f[Len(list)]
<1>0. PICK b : b = table
  OBVIOUS
<1>1. PICK N \in Nat : N = Len(list)
  OBVIOUS
<1>2. PICK T : T = {m \in 0..N : \E f : /\ DOMAIN f = 0..m /\ f[0] = b
                                        /\ \A n \in 1..m : f[n] = FillOne(f[n - 1], list[n])}
  OBVIOUS
<1>3. 0 \in T
  <2>1. PICK f : f = [x \in 0..0 |-> b]
    OBVIOUS
  <2>2. DOMAIN f = 0..0 /\ f[0] = b /\ \A n \in 1..0 : f[n] = FillOne(f[n - 1], list[n])
    BY <2>1
  <2> QED BY <2>2, <1>1, <1>2
<1>4. \A m \in 0..N - 1 : m \in T => m + 1 \in T
  <2> SUFFICES ASSUME NEW m \in 0..N - 1, m \in T PROVE m + 1 \in T
    OBVIOUS
  <2>1. PICK f : /\ DOMAIN f = 0..m /\ f[0] = b
                 /\ \A n \in 1..m : f[n] = FillOne(f[n - 1], list[n])
    BY <1>2
  <2>2. PICK e : e = FillOne(f[m], list[(m + 1)])
    OBVIOUS
  <2>3. PICK g : g = [n \in 0..m + 1 |-> IF n = m + 1 THEN e ELSE f[n]]
    OBVIOUS
  <2>4. \A n \in 0..m : g[n] = f[n]
    BY <1>1, <2>3
  <2>5. DOMAIN g = 0..m + 1 /\ g[0] = b
    BY <1>1, <2>1, <2>3, <2>4
  <2>6. \A n \in 1..m + 1 : g[n] = FillOne(g[n - 1], list[n])
    <3> TAKE n \in 1..m + 1
    <3>1. CASE n = m + 1
      <4>1. g[n] = e /\ g[n - 1] = f[m]
        BY <1>1, <2>3, <2>4, <3>1
      <4> QED BY <4>1, <3>1, <2>2
    <3>2. CASE n \in 1..m
      <4>1. g[n] = f[n] /\ g[n - 1] = f[n - 1]
        BY <1>1, <2>4, <3>2
      <4> QED BY <4>1, <3>2, <2>1
    <3> QED BY <1>1, <3>1, <3>2
  <2>7. m + 1 \in 0..N
    BY <1>1
  <2> QED BY <2>5, <2>6, <2>7, <1>2
<1>5. N \in T
  <2>1. 0..N \subseteq T
    BY <1>3, <1>4, SetInduction
  <2> QED BY <2>1
<1>6. PICK g : /\ DOMAIN g = 0..N /\ g[0] = b
               /\ \A n \in 1..N : g[n] = FillOne(g[n - 1], list[n])
  BY <1>2, <1>5
<1>7. PICK w : w = [n \in 0..N |-> IF n = 0 THEN b ELSE FillOne(g[n - 1], list[n])]
  OBVIOUS
<1>8. \A n \in 0..N : w[n] = g[n]
  BY <1>1, <1>6, <1>7
<1>9. w = [n \in 0..Len(list) |-> IF n = 0 THEN table ELSE FillOne(w[n - 1], list[n])]
  <2>1. \A n \in 0..N : n /= 0 => w[n - 1] = g[n - 1]
    BY <1>1, <1>8
  <2> QED BY <1>0, <1>1, <1>7, <2>1
<1>10. PICK f : f = CHOOSE w0 : w0 = [n \in 0..Len(list) |-> IF n = 0 THEN table ELSE FillOne(w0[n - 1], list[n])]
  OBVIOUS
<1>11. f = [n \in 0..Len(list) |-> IF n = 0 THEN table ELSE FillOne(f[n - 1], list[n])]
  BY <1>9, <1>10
<1>12. FillIfTable(table, list) = f[Len(list)]
  BY <1>10 DEF FillIfTable
<1>13. DOMAIN f = 0..Len(list) /\ f[0] = table
  BY <1>11, <1>1
<1>14. \A n \in 1..Len(list) : f[n] = FillOne(f[n - 1], list[n])
  <2> TAKE n \in 1..Len(list)
  <2>1. n \in 0..Len(list) /\ n /= 0
    BY <1>1
  <2> QED BY <2>1, <1>11
<1>15. FillSteps(f, table, list)
  BY <1>13, <1>14 DEF FillSteps
<1> QED BY <1>12, <1>15

\* f holds what the search for a default method has found, interface by interface.
SearchSteps(f, s, t) ==
    /\ DOMAIN f = 0..Len(t) /\ f[0] = [res |-> "abstract", m |-> NoMethod]
    /\ \A n \in 1..Len(t) : f[n] = SearchInterface(s, t, f[n - 1], Len(t) + 1 - n)
\* The search is over when the table is read.
LEMMA SearchRec ==
    ASSUME NEW s, NEW t, Len(t) \in Nat
    PROVE  \E f : SearchSteps(f, s, t) /\ FindDefaultMethodImplementation(s, t) = f[Len(t)]
<1>0. PICK b : b = [res |-> "abstract", m |-> NoMethod]
  OBVIOUS
<1>1. PICK N \in Nat : N = Len(t)
  OBVIOUS
<1>2. PICK T : T = {m \in 0..N : \E f : /\ DOMAIN f = 0..m /\ f[0] = b
                                        /\ \A n \in 1..m : f[n] = SearchInterface(s, t, f[n - 1], Len(t) + 1 - n)}
  OBVIOUS
<1>3. 0 \in T
  <2>1. PICK f : f = [x \in 0..0 |-> b]
    OBVIOUS
  <2>2. DOMAIN f = 0..0 /\ f[0] = b /\ \A n \in 1..0 : f[n] = SearchInterface(s, t, f[n - 1], Len(t) + 1 - n)
    BY <2>1
  <2> QED BY <2>2, <1>1, <1>2
<1>4. \A m \in 0..N - 1 : m \in T => m + 1 \in T
  <2> SUFFICES ASSUME NEW m \in 0..N - 1, m \in T PROVE m + 1 \in T
    OBVIOUS
  <2>1. PICK f : /\ DOMAIN f = 0..m /\ f[0] = b
                 /\ \A n \in 1..m : f[n] = SearchInterface(s, t, f[n - 1], Len(t) + 1 - n)
    BY <1>2
  <2>2. PICK e : e = SearchInterface(s, t, f[m], Len(t) + 1 - (m + 1))
    OBVIOUS
  <2>3. PICK g : g = [n \in 0..m + 1 |-> IF n = m + 1 THEN e ELSE f[n]]
    OBVIOUS
  <2>4. \A n \in 0..m : g[n] = f[n]
    BY <1>1, <2>3
  <2>5. DOMAIN g = 0..m + 1 /\ g[0] = b
    BY <1>1, <2>1, <2>3, <2>4
  <2>6. \A n \in 1..m + 1 : g[n] = SearchInterface(s, t, g[n - 1], Len(t) + 1 - n)
    <3> TAKE n \in 1..m + 1
    <3>1. CASE n = m + 1
      <4>1. g[n] = e /\ g[n - 1] = f[m]
        BY <1>1, <2>3, <2>4, <3>1
      <4> QED BY <4>1, <3>1, <2>2
    <3>2. CASE n \in 1..m
      <4>1. g[n] = f[n] /\ g[n - 1] = f[n - 1]
        BY <1>1, <2>4, <3>2
      <4> QED BY <4>1, <3>2, <2>1
    <3> QED BY <1>1, <3>1, <3>2
  <2>7. m + 1 \in 0..N
    BY <1>1
  <2> QED BY <2>5, <2>6, <2>7, <1>2
<1>5. N \in T
  <2>1. 0..N \subseteq T
    BY <1>3, <1>4, SetInduction
  <2> QED BY <2>1
<1>6. PICK g : /\ DOMAIN g = 0..N /\ g[0] = b
               /\ \A n \in 1..N : g[n] = SearchInterface(s, t, g[n - 1], Len(t) + 1 - n)
  BY <1>2, <1>5
<1>7. PICK w : w = [n \in 0..N |-> IF n = 0 THEN b ELSE SearchInterface(s, t, g[n - 1], Len(t) + 1 - n)]
  OBVIOUS
<1>8. \A n \in 0..N : w[n] = g[n]
  BY <1>1, <1>6, <1>7
<1>9. w = [n \in 0..Len(t) |-> IF n = 0 THEN [res |-> "abstract", m |-> NoMethod] ELSE SearchInterface(s, t, w[n - 1], Len(t) + 1 - n)]
  <2>1. \A n \in 0..N : n /= 0 => w[n - 1] = g[n - 1]
    BY <1>1, <1>8
  <2> QED BY <1>0, <1>1, <1>7, <2>1
<1>10. PICK f : f = CHOOSE w0 : w0 = [n \in 0..Len(t) |-> IF n = 0 THEN [res |-> "abstract", m |-> NoMethod] ELSE SearchInterface(s, t, w0[n - 1], Len(t) + 1 - n)]
  OBVIOUS
<1>11. f = [n \in 0..Len(t) |-> IF n = 0 THEN [res |-> "abstract", m |-> NoMethod] ELSE SearchInterface(s, t, f[n - 1], Len(t) + 1 - n)]
  BY <1>9, <1>10
<1>12. FindDefaultMethodImplementation(s, t) = f[Len(t)]
  BY <1>10 DEF FindDefaultMethodImplementation
<1>13. DOMAIN f = 0..Len(t) /\ f[0] = [res |-> "abstract", m |-> NoMethod]
  BY <1>11, <1>1
<1>14. \A n \in 1..Len(t) : f[n] = SearchInterface(s, t, f[n - 1], Len(t) + 1 - n)
  <2> TAKE n \in 1..Len(t)
  <2>1. n \in 0..Len(t) /\ n /= 0
    BY <1>1
  <2> QED BY <2>1, <1>11
<1>15. SearchSteps(f, s, t)
  BY <1>13, <1>14 DEF SearchSteps
<1> QED BY <1>12, <1>15

\* f holds the hash tables, method by method.
HashSteps(f, decl) ==
    /\ DOMAIN f = 0..Len(decl) /\ f[0] = [x \in 0..3 * Len(decl) |-> Invalid]
    /\ \A n \in 1..Len(decl) : f[n] = HashAdd(f[n - 1], Hash[decl[n].sig], n)
\* HashTable is the last of them.
LEMMA HashTableRec ==
    ASSUME NEW decl, Len(decl) \in Nat
    PROVE  \E f : HashSteps(f, decl) /\ HashTable(decl) = f[Len(decl)]
<1>0. PICK b : b = [x \in 0..3 * Len(decl) |-> Invalid]
  OBVIOUS
<1>1. PICK N \in Nat : N = Len(decl)
  OBVIOUS
<1>2. PICK T : T = {m \in 0..N : \E f : /\ DOMAIN f = 0..m /\ f[0] = b
                                        /\ \A n \in 1..m : f[n] = HashAdd(f[n - 1], Hash[decl[n].sig], n)}
  OBVIOUS
<1>3. 0 \in T
  <2>1. PICK f : f = [x \in 0..0 |-> b]
    OBVIOUS
  <2>2. DOMAIN f = 0..0 /\ f[0] = b /\ \A n \in 1..0 : f[n] = HashAdd(f[n - 1], Hash[decl[n].sig], n)
    BY <2>1
  <2> QED BY <2>2, <1>1, <1>2
<1>4. \A m \in 0..N - 1 : m \in T => m + 1 \in T
  <2> SUFFICES ASSUME NEW m \in 0..N - 1, m \in T PROVE m + 1 \in T
    OBVIOUS
  <2>1. PICK f : /\ DOMAIN f = 0..m /\ f[0] = b
                 /\ \A n \in 1..m : f[n] = HashAdd(f[n - 1], Hash[decl[n].sig], n)
    BY <1>2
  <2>2. PICK e : e = HashAdd(f[m], Hash[decl[(m + 1)].sig], (m + 1))
    OBVIOUS
  <2>3. PICK g : g = [n \in 0..m + 1 |-> IF n = m + 1 THEN e ELSE f[n]]
    OBVIOUS
  <2>4. \A n \in 0..m : g[n] = f[n]
    BY <1>1, <2>3
  <2>5. DOMAIN g = 0..m + 1 /\ g[0] = b
    BY <1>1, <2>1, <2>3, <2>4
  <2>6. \A n \in 1..m + 1 : g[n] = HashAdd(g[n - 1], Hash[decl[n].sig], n)
    <3> TAKE n \in 1..m + 1
    <3>1. CASE n = m + 1
      <4>1. g[n] = e /\ g[n - 1] = f[m]
        BY <1>1, <2>3, <2>4, <3>1
      <4> QED BY <4>1, <3>1, <2>2
    <3>2. CASE n \in 1..m
      <4>1. g[n] = f[n] /\ g[n - 1] = f[n - 1]
        BY <1>1, <2>4, <3>2
      <4> QED BY <4>1, <3>2, <2>1
    <3> QED BY <1>1, <3>1, <3>2
  <2>7. m + 1 \in 0..N
    BY <1>1
  <2> QED BY <2>5, <2>6, <2>7, <1>2
<1>5. N \in T
  <2>1. 0..N \subseteq T
    BY <1>3, <1>4, SetInduction
  <2> QED BY <2>1
<1>6. PICK g : /\ DOMAIN g = 0..N /\ g[0] = b
               /\ \A n \in 1..N : g[n] = HashAdd(g[n - 1], Hash[decl[n].sig], n)
  BY <1>2, <1>5
<1>7. PICK w : w = [n \in 0..N |-> IF n = 0 THEN b ELSE HashAdd(g[n - 1], Hash[decl[n].sig], n)]
  OBVIOUS
<1>8. \A n \in 0..N : w[n] = g[n]
  BY <1>1, <1>6, <1>7
<1>9. w = [n \in 0..Len(decl) |-> IF n = 0 THEN [x \in 0..3 * Len(decl) |-> Invalid] ELSE HashAdd(w[n - 1], Hash[decl[n].sig], n)]
  <2>1. \A n \in 0..N : n /= 0 => w[n - 1] = g[n - 1]
    BY <1>1, <1>8
  <2> QED BY <1>0, <1>1, <1>7, <2>1
<1>10. PICK f : f = CHOOSE w0 : w0 = [n \in 0..Len(decl) |-> IF n = 0 THEN [x \in 0..3 * Len(decl) |-> Invalid] ELSE HashAdd(w0[n - 1], Hash[decl[n].sig], n)]
  OBVIOUS
<1>11. f = [n \in 0..Len(decl) |-> IF n = 0 THEN [x \in 0..3 * Len(decl) |-> Invalid] ELSE HashAdd(f[n - 1], Hash[decl[n].sig], n)]
  BY <1>9, <1>10
<1>12. HashTable(decl) = f[Len(decl)]
  BY <1>10 DEF HashTable
<1>13. DOMAIN f = 0..Len(decl) /\ f[0] = [x \in 0..3 * Len(decl) |-> Invalid]
  BY <1>11, <1>1
<1>14. \A n \in 1..Len(decl) : f[n] = HashAdd(f[n - 1], Hash[decl[n].sig], n)
  <2> TAKE n \in 1..Len(decl)
  <2>1. n \in 0..Len(decl) /\ n /= 0
    BY <1>1
  <2> QED BY <2>1, <1>11
<1>15. HashSteps(f, decl)
  BY <1>13, <1>14 DEF HashSteps
<1> QED BY <1>12, <1>15

\* f holds the state of LinkVirtualMethods, entry by entry.
OverrideSteps(f, k, decl, t, vtable) ==
    /\ DOMAIN f = 0..Len(vtable) /\ f[0] = [vtable |-> vtable, hash |-> HashTable(decl), trans |-> NoTranslations, err |-> "none"]
    /\ \A n \in 1..Len(vtable) : f[n] = OverrideEntry(k, decl, t, f[n - 1], n)
\* OverrideEntries is the last of them.
LEMMA OverrideRec ==
    ASSUME NEW k, NEW decl, NEW t, NEW vtable, Len(vtable) \in Nat
    PROVE  \E f : OverrideSteps(f, k, decl, t, vtable) /\ OverrideEntries(k, decl, t, vtable) = f[Len(vtable)]
<1>0. PICK b : b = [vtable |-> vtable, hash |-> HashTable(decl), trans |-> NoTranslations, err |-> "none"]
  OBVIOUS
<1>1. PICK N \in Nat : N = Len(vtable)
  OBVIOUS
<1>2. PICK T : T = {m \in 0..N : \E f : /\ DOMAIN f = 0..m /\ f[0] = b
                                        /\ \A n \in 1..m : f[n] = OverrideEntry(k, decl, t, f[n - 1], n)}
  OBVIOUS
<1>3. 0 \in T
  <2>1. PICK f : f = [x \in 0..0 |-> b]
    OBVIOUS
  <2>2. DOMAIN f = 0..0 /\ f[0] = b /\ \A n \in 1..0 : f[n] = OverrideEntry(k, decl, t, f[n - 1], n)
    BY <2>1
  <2> QED BY <2>2, <1>1, <1>2
<1>4. \A m \in 0..N - 1 : m \in T => m + 1 \in T
  <2> SUFFICES ASSUME NEW m \in 0..N - 1, m \in T PROVE m + 1 \in T
    OBVIOUS
  <2>1. PICK f : /\ DOMAIN f = 0..m /\ f[0] = b
                 /\ \A n \in 1..m : f[n] = OverrideEntry(k, decl, t, f[n - 1], n)
    BY <1>2
  <2>2. PICK e : e = OverrideEntry(k, decl, t, f[m], (m + 1))
    OBVIOUS
  <2>3. PICK g : g = [n \in 0..m + 1 |-> IF n = m + 1 THEN e ELSE f[n]]
    OBVIOUS
  <2>4. \A n \in 0..m : g[n] = f[n]
    BY <1>1, <2>3
  <2>5. DOMAIN g = 0..m + 1 /\ g[0] = b
    BY <1>1, <2>1, <2>3, <2>4
  <2>6. \A n \in 1..m + 1 : g[n] = OverrideEntry(k, decl, t, g[n - 1], n)
    <3> TAKE n \in 1..m + 1
    <3>1. CASE n = m + 1
      <4>1. g[n] = e /\ g[n - 1] = f[m]
        BY <1>1, <2>3, <2>4, <3>1
      <4> QED BY <4>1, <3>1, <2>2
    <3>2. CASE n \in 1..m
      <4>1. g[n] = f[n] /\ g[n - 1] = f[n - 1]
        BY <1>1, <2>4, <3>2
      <4> QED BY <4>1, <3>2, <2>1
    <3> QED BY <1>1, <3>1, <3>2
  <2>7. m + 1 \in 0..N
    BY <1>1
  <2> QED BY <2>5, <2>6, <2>7, <1>2
<1>5. N \in T
  <2>1. 0..N \subseteq T
    BY <1>3, <1>4, SetInduction
  <2> QED BY <2>1
<1>6. PICK g : /\ DOMAIN g = 0..N /\ g[0] = b
               /\ \A n \in 1..N : g[n] = OverrideEntry(k, decl, t, g[n - 1], n)
  BY <1>2, <1>5
<1>7. PICK w : w = [n \in 0..N |-> IF n = 0 THEN b ELSE OverrideEntry(k, decl, t, g[n - 1], n)]
  OBVIOUS
<1>8. \A n \in 0..N : w[n] = g[n]
  BY <1>1, <1>6, <1>7
<1>9. w = [n \in 0..Len(vtable) |-> IF n = 0 THEN [vtable |-> vtable, hash |-> HashTable(decl), trans |-> NoTranslations, err |-> "none"] ELSE OverrideEntry(k, decl, t, w[n - 1], n)]
  <2>1. \A n \in 0..N : n /= 0 => w[n - 1] = g[n - 1]
    BY <1>1, <1>8
  <2> QED BY <1>0, <1>1, <1>7, <2>1
<1>10. PICK f : f = CHOOSE w0 : w0 = [n \in 0..Len(vtable) |-> IF n = 0 THEN [vtable |-> vtable, hash |-> HashTable(decl), trans |-> NoTranslations, err |-> "none"] ELSE OverrideEntry(k, decl, t, w0[n - 1], n)]
  OBVIOUS
<1>11. f = [n \in 0..Len(vtable) |-> IF n = 0 THEN [vtable |-> vtable, hash |-> HashTable(decl), trans |-> NoTranslations, err |-> "none"] ELSE OverrideEntry(k, decl, t, f[n - 1], n)]
  BY <1>9, <1>10
<1>12. OverrideEntries(k, decl, t, vtable) = f[Len(vtable)]
  BY <1>10 DEF OverrideEntries
<1>13. DOMAIN f = 0..Len(vtable) /\ f[0] = [vtable |-> vtable, hash |-> HashTable(decl), trans |-> NoTranslations, err |-> "none"]
  BY <1>11, <1>1
<1>14. \A n \in 1..Len(vtable) : f[n] = OverrideEntry(k, decl, t, f[n - 1], n)
  <2> TAKE n \in 1..Len(vtable)
  <2>1. n \in 0..Len(vtable) /\ n /= 0
    BY <1>1
  <2> QED BY <2>1, <1>11
<1>15. OverrideSteps(f, k, decl, t, vtable)
  BY <1>13, <1>14 DEF OverrideSteps
<1> QED BY <1>12, <1>15

\* f holds the helper, method by method of the i-th interface.
MethodSteps(f, k, d, v, t, h, i) ==
    /\ DOMAIN f = 0..Len(cls[t[i]].decl) /\ f[0] = h
    /\ \A n \in 1..Len(cls[t[i]].decl) : f[n] = LinkInterfaceMethod(k, d, v, t, f[n - 1], i, n)
\* LinkInterface is the last of them.
LEMMA LinkInterfaceRec ==
    ASSUME NEW k, NEW d, NEW v, NEW t, NEW h, NEW i, Len(cls[t[i]].decl) \in Nat
    PROVE  \E f : MethodSteps(f, k, d, v, t, h, i) /\ LinkInterface(k, d, v, t, h, i) = f[Len(cls[t[i]].decl)]
<1>0. PICK b : b = h
  OBVIOUS
<1>1. PICK N \in Nat : N = Len(cls[t[i]].decl)
  OBVIOUS
<1>2. PICK T : T = {m \in 0..N : \E f : /\ DOMAIN f = 0..m /\ f[0] = b
                                        /\ \A n \in 1..m : f[n] = LinkInterfaceMethod(k, d, v, t, f[n - 1], i, n)}
  OBVIOUS
<1>3. 0 \in T
  <2>1. PICK f : f = [x \in 0..0 |-> b]
    OBVIOUS
  <2>2. DOMAIN f = 0..0 /\ f[0] = b /\ \A n \in 1..0 : f[n] = LinkInterfaceMethod(k, d, v, t, f[n - 1], i, n)
    BY <2>1
  <2> QED BY <2>2, <1>1, <1>2
<1>4. \A m \in 0..N - 1 : m \in T => m + 1 \in T
  <2> SUFFICES ASSUME NEW m \in 0..N - 1, m \in T PROVE m + 1 \in T
    OBVIOUS
  <2>1. PICK f : /\ DOMAIN f = 0..m /\ f[0] = b
                 /\ \A n \in 1..m : f[n] = LinkInterfaceMethod(k, d, v, t, f[n - 1], i, n)
    BY <1>2
  <2>2. PICK e : e = LinkInterfaceMethod(k, d, v, t, f[m], i, (m + 1))
    OBVIOUS
  <2>3. PICK g : g = [n \in 0..m + 1 |-> IF n = m + 1 THEN e ELSE f[n]]
    OBVIOUS
  <2>4. \A n \in 0..m : g[n] = f[n]
    BY <1>1, <2>3
  <2>5. DOMAIN g = 0..m + 1 /\ g[0] = b
    BY <1>1, <2>1, <2>3, <2>4
  <2>6. \A n \in 1..m + 1 : g[n] = LinkInterfaceMethod(k, d, v, t, g[n - 1], i, n)
    <3> TAKE n \in 1..m + 1
    <3>1. CASE n = m + 1
      <4>1. g[n] = e /\ g[n - 1] = f[m]
        BY <1>1, <2>3, <2>4, <3>1
      <4> QED BY <4>1, <3>1, <2>2
    <3>2. CASE n \in 1..m
      <4>1. g[n] = f[n] /\ g[n - 1] = f[n - 1]
        BY <1>1, <2>4, <3>2
      <4> QED BY <4>1, <3>2, <2>1
    <3> QED BY <1>1, <3>1, <3>2
  <2>7. m + 1 \in 0..N
    BY <1>1
  <2> QED BY <2>5, <2>6, <2>7, <1>2
<1>5. N \in T
  <2>1. 0..N \subseteq T
    BY <1>3, <1>4, SetInduction
  <2> QED BY <2>1
<1>6. PICK g : /\ DOMAIN g = 0..N /\ g[0] = b
               /\ \A n \in 1..N : g[n] = LinkInterfaceMethod(k, d, v, t, g[n - 1], i, n)
  BY <1>2, <1>5
<1>7. PICK w : w = [n \in 0..N |-> IF n = 0 THEN b ELSE LinkInterfaceMethod(k, d, v, t, g[n - 1], i, n)]
  OBVIOUS
<1>8. \A n \in 0..N : w[n] = g[n]
  BY <1>1, <1>6, <1>7
<1>9. w = [n \in 0..Len(cls[t[i]].decl) |-> IF n = 0 THEN h ELSE LinkInterfaceMethod(k, d, v, t, w[n - 1], i, n)]
  <2>1. \A n \in 0..N : n /= 0 => w[n - 1] = g[n - 1]
    BY <1>1, <1>8
  <2> QED BY <1>0, <1>1, <1>7, <2>1
<1>10. PICK f : f = CHOOSE w0 : w0 = [n \in 0..Len(cls[t[i]].decl) |-> IF n = 0 THEN h ELSE LinkInterfaceMethod(k, d, v, t, w0[n - 1], i, n)]
  OBVIOUS
<1>11. f = [n \in 0..Len(cls[t[i]].decl) |-> IF n = 0 THEN h ELSE LinkInterfaceMethod(k, d, v, t, f[n - 1], i, n)]
  BY <1>9, <1>10
<1>12. LinkInterface(k, d, v, t, h, i) = f[Len(cls[t[i]].decl)]
  BY <1>10 DEF LinkInterface
<1>13. DOMAIN f = 0..Len(cls[t[i]].decl) /\ f[0] = h
  BY <1>11, <1>1
<1>14. \A n \in 1..Len(cls[t[i]].decl) : f[n] = LinkInterfaceMethod(k, d, v, t, f[n - 1], i, n)
  <2> TAKE n \in 1..Len(cls[t[i]].decl)
  <2>1. n \in 0..Len(cls[t[i]].decl) /\ n /= 0
    BY <1>1
  <2> QED BY <2>1, <1>11
<1>15. MethodSteps(f, k, d, v, t, h, i)
  BY <1>13, <1>14 DEF MethodSteps
<1> QED BY <1>12, <1>15

\* f holds the helper, interface by interface.
LoopSteps(f, k, d, v, t) ==
    /\ DOMAIN f = 0..Len(t) /\ f[0] = NewHelper(d, t)
    /\ \A n \in 1..Len(t) : f[n] = LinkInterface(k, d, v, t, f[n - 1], Len(t) + 1 - n)
\* LinkInterfaceMethodsLoop is the last of them.
LEMMA LoopRec ==
    ASSUME NEW k, NEW d, NEW v, NEW t, Len(t) \in Nat
    PROVE  \E f : LoopSteps(f, k, d, v, t) /\ LinkInterfaceMethodsLoop(k, d, v, t) = f[Len(t)]
<1>0. PICK b : b = NewHelper(d, t)
  OBVIOUS
<1>1. PICK N \in Nat : N = Len(t)
  OBVIOUS
<1>2. PICK T : T = {m \in 0..N : \E f : /\ DOMAIN f = 0..m /\ f[0] = b
                                        /\ \A n \in 1..m : f[n] = LinkInterface(k, d, v, t, f[n - 1], Len(t) + 1 - n)}
  OBVIOUS
<1>3. 0 \in T
  <2>1. PICK f : f = [x \in 0..0 |-> b]
    OBVIOUS
  <2>2. DOMAIN f = 0..0 /\ f[0] = b /\ \A n \in 1..0 : f[n] = LinkInterface(k, d, v, t, f[n - 1], Len(t) + 1 - n)
    BY <2>1
  <2> QED BY <2>2, <1>1, <1>2
<1>4. \A m \in 0..N - 1 : m \in T => m + 1 \in T
  <2> SUFFICES ASSUME NEW m \in 0..N - 1, m \in T PROVE m + 1 \in T
    OBVIOUS
  <2>1. PICK f : /\ DOMAIN f = 0..m /\ f[0] = b
                 /\ \A n \in 1..m : f[n] = LinkInterface(k, d, v, t, f[n - 1], Len(t) + 1 - n)
    BY <1>2
  <2>2. PICK e : e = LinkInterface(k, d, v, t, f[m], Len(t) + 1 - (m + 1))
    OBVIOUS
  <2>3. PICK g : g = [n \in 0..m + 1 |-> IF n = m + 1 THEN e ELSE f[n]]
    OBVIOUS
  <2>4. \A n \in 0..m : g[n] = f[n]
    BY <1>1, <2>3
  <2>5. DOMAIN g = 0..m + 1 /\ g[0] = b
    BY <1>1, <2>1, <2>3, <2>4
  <2>6. \A n \in 1..m + 1 : g[n] = LinkInterface(k, d, v, t, g[n - 1], Len(t) + 1 - n)
    <3> TAKE n \in 1..m + 1
    <3>1. CASE n = m + 1
      <4>1. g[n] = e /\ g[n - 1] = f[m]
        BY <1>1, <2>3, <2>4, <3>1
      <4> QED BY <4>1, <3>1, <2>2
    <3>2. CASE n \in 1..m
      <4>1. g[n] = f[n] /\ g[n - 1] = f[n - 1]
        BY <1>1, <2>4, <3>2
      <4> QED BY <4>1, <3>2, <2>1
    <3> QED BY <1>1, <3>1, <3>2
  <2>7. m + 1 \in 0..N
    BY <1>1
  <2> QED BY <2>5, <2>6, <2>7, <1>2
<1>5. N \in T
  <2>1. 0..N \subseteq T
    BY <1>3, <1>4, SetInduction
  <2> QED BY <2>1
<1>6. PICK g : /\ DOMAIN g = 0..N /\ g[0] = b
               /\ \A n \in 1..N : g[n] = LinkInterface(k, d, v, t, g[n - 1], Len(t) + 1 - n)
  BY <1>2, <1>5
<1>7. PICK w : w = [n \in 0..N |-> IF n = 0 THEN b ELSE LinkInterface(k, d, v, t, g[n - 1], Len(t) + 1 - n)]
  OBVIOUS
<1>8. \A n \in 0..N : w[n] = g[n]
  BY <1>1, <1>6, <1>7
<1>9. w = [n \in 0..Len(t) |-> IF n = 0 THEN NewHelper(d, t) ELSE LinkInterface(k, d, v, t, w[n - 1], Len(t) + 1 - n)]
  <2>1. \A n \in 0..N : n /= 0 => w[n - 1] = g[n - 1]
    BY <1>1, <1>8
  <2> QED BY <1>0, <1>1, <1>7, <2>1
<1>10. PICK f : f = CHOOSE w0 : w0 = [n \in 0..Len(t) |-> IF n = 0 THEN NewHelper(d, t) ELSE LinkInterface(k, d, v, t, w0[n - 1], Len(t) + 1 - n)]
  OBVIOUS
<1>11. f = [n \in 0..Len(t) |-> IF n = 0 THEN NewHelper(d, t) ELSE LinkInterface(k, d, v, t, f[n - 1], Len(t) + 1 - n)]
  BY <1>9, <1>10
<1>12. LinkInterfaceMethodsLoop(k, d, v, t) = f[Len(t)]
  BY <1>10 DEF LinkInterfaceMethodsLoop
<1>13. DOMAIN f = 0..Len(t) /\ f[0] = NewHelper(d, t)
  BY <1>11, <1>1
<1>14. \A n \in 1..Len(t) : f[n] = LinkInterface(k, d, v, t, f[n - 1], Len(t) + 1 - n)
  <2> TAKE n \in 1..Len(t)
  <2>1. n \in 0..Len(t) /\ n /= 0
    BY <1>1
  <2> QED BY <2>1, <1>11
<1>15. LoopSteps(f, k, d, v, t)
  BY <1>13, <1>14 DEF LoopSteps
<1> QED BY <1>12, <1>15

\* f holds the classes that FindSuperImt looks at.
SuperSteps(f, d) ==
    /\ DOMAIN f = 0..Len(Order) /\ f[0] = d.super
    /\ \A n \in 1..Len(Order) : f[n] = InstOrSuper(f[n - 1])
\* The class whose IMT FindSuperImt takes is the last of them.
LEMMA SuperImtRec ==
    ASSUME NEW d, Len(Order) \in Nat
    PROVE  \E f : SuperSteps(f, d) /\ LastSuper(d) = f[Len(Order)]
<1>0. PICK b : b = d.super
  OBVIOUS
<1>1. PICK N \in Nat : N = Len(Order)
  OBVIOUS
<1>2. PICK T : T = {m \in 0..N : \E f : /\ DOMAIN f = 0..m /\ f[0] = b
                                        /\ \A n \in 1..m : f[n] = InstOrSuper(f[n - 1])}
  OBVIOUS
<1>3. 0 \in T
  <2>1. PICK f : f = [x \in 0..0 |-> b]
    OBVIOUS
  <2>2. DOMAIN f = 0..0 /\ f[0] = b /\ \A n \in 1..0 : f[n] = InstOrSuper(f[n - 1])
    BY <2>1
  <2> QED BY <2>2, <1>1, <1>2
<1>4. \A m \in 0..N - 1 : m \in T => m + 1 \in T
  <2> SUFFICES ASSUME NEW m \in 0..N - 1, m \in T PROVE m + 1 \in T
    OBVIOUS
  <2>1. PICK f : /\ DOMAIN f = 0..m /\ f[0] = b
                 /\ \A n \in 1..m : f[n] = InstOrSuper(f[n - 1])
    BY <1>2
  <2>2. PICK e : e = InstOrSuper(f[m])
    OBVIOUS
  <2>3. PICK g : g = [n \in 0..m + 1 |-> IF n = m + 1 THEN e ELSE f[n]]
    OBVIOUS
  <2>4. \A n \in 0..m : g[n] = f[n]
    BY <1>1, <2>3
  <2>5. DOMAIN g = 0..m + 1 /\ g[0] = b
    BY <1>1, <2>1, <2>3, <2>4
  <2>6. \A n \in 1..m + 1 : g[n] = InstOrSuper(g[n - 1])
    <3> TAKE n \in 1..m + 1
    <3>1. CASE n = m + 1
      <4>1. g[n] = e /\ g[n - 1] = f[m]
        BY <1>1, <2>3, <2>4, <3>1
      <4> QED BY <4>1, <3>1, <2>2
    <3>2. CASE n \in 1..m
      <4>1. g[n] = f[n] /\ g[n - 1] = f[n - 1]
        BY <1>1, <2>4, <3>2
      <4> QED BY <4>1, <3>2, <2>1
    <3> QED BY <1>1, <3>1, <3>2
  <2>7. m + 1 \in 0..N
    BY <1>1
  <2> QED BY <2>5, <2>6, <2>7, <1>2
<1>5. N \in T
  <2>1. 0..N \subseteq T
    BY <1>3, <1>4, SetInduction
  <2> QED BY <2>1
<1>6. PICK g : /\ DOMAIN g = 0..N /\ g[0] = b
               /\ \A n \in 1..N : g[n] = InstOrSuper(g[n - 1])
  BY <1>2, <1>5
<1>7. PICK w : w = [n \in 0..N |-> IF n = 0 THEN b ELSE InstOrSuper(g[n - 1])]
  OBVIOUS
<1>8. \A n \in 0..N : w[n] = g[n]
  BY <1>1, <1>6, <1>7
<1>9. w = [n \in 0..Len(Order) |-> IF n = 0 THEN d.super ELSE InstOrSuper(w[n - 1])]
  <2>1. \A n \in 0..N : n /= 0 => w[n - 1] = g[n - 1]
    BY <1>1, <1>8
  <2> QED BY <1>0, <1>1, <1>7, <2>1
<1>10. PICK f : f = CHOOSE w0 : w0 = [n \in 0..Len(Order) |-> IF n = 0 THEN d.super ELSE InstOrSuper(w0[n - 1])]
  OBVIOUS
<1>11. f = [n \in 0..Len(Order) |-> IF n = 0 THEN d.super ELSE InstOrSuper(f[n - 1])]
  BY <1>9, <1>10
<1>12. LastSuper(d) = f[Len(Order)]
  BY <1>10 DEF LastSuper
<1>13. DOMAIN f = 0..Len(Order) /\ f[0] = d.super
  BY <1>11, <1>1
<1>14. \A n \in 1..Len(Order) : f[n] = InstOrSuper(f[n - 1])
  <2> TAKE n \in 1..Len(Order)
  <2>1. n \in 0..Len(Order) /\ n /= 0
    BY <1>1
  <2> QED BY <2>1, <1>11
<1>15. SuperSteps(f, d)
  BY <1>13, <1>14 DEF SuperSteps
<1> QED BY <1>12, <1>15

----------------------------------------------------------------------------
\* Sequences that grow.

Prefix(t, u) == Len(t) <= Len(u) /\ \A x \in 1..Len(t) : u[x] = t[x]
\* u is t and behind it those elements of E that t lacks.
Added(S, t, E, u) ==
    /\ t \in Seq(S) /\ u \in Seq(S) /\ Prefix(t, u)
    /\ Range(u) = Range(t) \union E
    /\ \A x \in DOMAIN u : x > Len(t) => u[x] \in E /\ u[x] \notin Range(t)

\* A sequence has its own elements.
LEMMA SeqFacts ==
    ASSUME NEW S, NEW t \in Seq(S)
    PROVE  /\ Len(t) \in Nat /\ DOMAIN t = 1..Len(t) /\ Range(t) \subseteq S
           /\ \A x \in 1..Len(t) : t[x] \in S /\ t[x] \in Range(t)
           /\ \A e \in Range(t) : \E x \in 1..Len(t) : t[x] = e
<1>1. Len(t) \in Nat /\ DOMAIN t = 1..Len(t) /\ \A x \in 1..Len(t) : t[x] \in S
  OBVIOUS
<1> QED BY <1>1 DEF Range

\* What Append adds.
LEMMA AppendFacts ==
    ASSUME NEW S, NEW t \in Seq(S), NEW e \in S
    PROVE  /\ Append(t, e) \in Seq(S) /\ Len(Append(t, e)) = Len(t) + 1
           /\ Prefix(t, Append(t, e)) /\ Append(t, e)[Len(t) + 1] = e
           /\ Range(Append(t, e)) = Range(t) \union {e}
<1>2. PICK u : u = Append(t, e)
  OBVIOUS
<1>3. u \in Seq(S) /\ Len(u) = Len(t) + 1 /\ DOMAIN u = 1..Len(t) + 1 /\ DOMAIN t = 1..Len(t) /\ Len(t) \in Nat
  BY <1>2
<1>4. u[Len(t) + 1] = e /\ \A x \in 1..Len(t) : u[x] = t[x]
  BY <1>2
<1>5. Range(u) = Range(t) \union {e}
  BY <1>3, <1>4 DEF Range
<1> QED BY <1>2, <1>3, <1>4, <1>5 DEF Prefix

\* AddOne appends what is not there yet.
LEMMA AddOneIs ==
    ASSUME NEW S, NEW t \in Seq(S), NEW e \in S
    PROVE  Added(S, t, {e}, AddOne(t, e))
<1>1. CASE e \in Range(t)
  <2>1. AddOne(t, e) = t
    BY <1>1 DEF AddOne
  <2> QED BY <1>1, <2>1 DEF Prefix, Added
<1>2. CASE e \notin Range(t)
  <2>1. AddOne(t, e) = Append(t, e)
    BY <1>2 DEF AddOne
  <2>2. PICK u : u = Append(t, e)
    OBVIOUS
  <2>3. u \in Seq(S) /\ Len(u) = Len(t) + 1 /\ Prefix(t, u) /\ u[Len(t) + 1] = e /\ Range(u) = Range(t) \union {e}
    BY <2>2, AppendFacts
  <2>4. \A x \in DOMAIN u : x > Len(t) => x = Len(t) + 1
    BY <2>3
  <2> QED BY <1>2, <2>1, <2>2, <2>3, <2>4 DEF Added
<1> QED BY <1>1, <1>2

\* Adding to what was added.
LEMMA AddedTrans ==
    ASSUME NEW S, NEW t, NEW u, NEW w, NEW E, NEW F, Added(S, t, E, u), Added(S, u, F, w)
    PROVE  Added(S, t, E \union F, w)
<1>1. /\ t \in Seq(S) /\ u \in Seq(S) /\ w \in Seq(S)
      /\ Prefix(t, u) /\ Prefix(u, w)
      /\ Range(u) = Range(t) \union E /\ Range(w) = Range(u) \union F
  BY DEF Added
<1>2. Prefix(t, w)
  BY <1>1 DEF Prefix
<1>3. \A x \in DOMAIN w : x > Len(t) => w[x] \in E \union F /\ w[x] \notin Range(t)
  <2> SUFFICES ASSUME NEW x \in DOMAIN w, x > Len(t) PROVE w[x] \in E \union F /\ w[x] \notin Range(t)
    OBVIOUS
  <2>1. CASE x > Len(u)
    <3>1. w[x] \in F /\ w[x] \notin Range(u)
      BY <2>1 DEF Added
    <3> QED BY <3>1, <1>1
  <2>2. CASE x \in 1..Len(u)
    <3>1. w[x] = u[x] /\ x \in DOMAIN u
      BY <2>2, <1>1 DEF Prefix
    <3>2. u[x] \in E /\ u[x] \notin Range(t)
      BY <3>1 DEF Added
    <3> QED BY <3>1, <3>2
  <2> QED BY <2>1, <2>2, <1>1
<1>4. Range(w) = Range(t) \union (E \union F)
  BY <1>1
<1> QED BY <1>1, <1>2, <1>3, <1>4 DEF Added

\* AddMissing keeps the table and adds exactly what it lacks.
LEMMA AddMissingIs ==
    ASSUME NEW S, NEW t \in Seq(S), NEW list \in Seq(S)
    PROVE  Added(S, t, Range(list), AddMissing(t, list))
<1>1. Len(list) \in Nat /\ DOMAIN list = 1..Len(list) /\ \A x \in 1..Len(list) : list[x] \in S
  BY SeqFacts
<1>2. PICK f : AddSteps(f, t, list) /\ AddMissing(t, list) = f[Len(list)]
  BY <1>1, AddMissingRec
<1>3. PICK T : T = {n \in 0..Len(list) : Added(S, t, {list[x] : x \in 1..n}, f[n])}
  OBVIOUS
<1>4. 0 \in T
  <2>1. f[0] = t
    BY <1>2 DEF AddSteps
  <2>2. Added(S, t, {list[x] : x \in 1..0}, t)
    BY DEF Added, Prefix
  <2> QED BY <1>1, <1>3, <2>1, <2>2
<1>5. \A n \in 0..Len(list) - 1 : n \in T => n + 1 \in T
  <2> SUFFICES ASSUME NEW n \in 0..Len(list) - 1, n \in T PROVE n + 1 \in T
    OBVIOUS
  <2>1. Added(S, t, {list[x] : x \in 1..n}, f[n])
    BY <1>3
  <2>5. n + 1 \in 1..Len(list) /\ list[n + 1] \in S /\ (n + 1) - 1 = n
    BY <1>1
  <2>6. f[n + 1] = AddOne(f[n], list[n + 1])
    BY <1>2, <2>5 DEF AddSteps
  <2>7. f[n] \in Seq(S)
    BY <2>1 DEF Added
  <2>8. Added(S, f[n], {list[n + 1]}, f[n + 1])
    BY <2>5, <2>6, <2>7, AddOneIs
  <2>9. Added(S, t, {list[x] : x \in 1..n} \union {list[n + 1]}, f[n + 1])
    BY <2>1, <2>8, AddedTrans
  <2>10. {list[x] : x \in 1..n + 1} = {list[x] : x \in 1..n} \union {list[n + 1]}
    OBVIOUS
  <2>13. n + 1 \in 0..Len(list)
    BY <1>1
  <2> QED BY <2>9, <2>10, <2>13, <1>3
<1>6. Len(list) \in T
  <2>1. 0..Len(list) \subseteq T
    BY <1>1, <1>4, <1>5, SetInduction
  <2> QED BY <1>1, <2>1
<1>8. {list[x] : x \in 1..Len(list)} = Range(list)
  BY <1>1 DEF Range
<1> QED BY <1>2, <1>3, <1>6, <1>8

----------------------------------------------------------------------------
\* The interface table.

Linked(C) == {c \in DOMAIN C : C[c].ok}
\* A table of interfaces holds each once, with and after its superinterfaces.
TableOrdered(C, t) ==
    /\ t \in Seq(Names)
    /\ \A i \in Range(t) : i \in Linked(C) /\ C[i].iface /\ Range(C[i].iftable) \subseteq Range(t)
    /\ \A x, y \in DOMAIN t : x < y => t[x] /= t[y] /\ t[y] \notin Range(C[t[x]].iftable)
\* An interface that may be added to a table.
Interface(C, i) == /\ i \in Linked(C) /\ i \in Names /\ C[i].iface
                   /\ i \notin Range(C[i].iftable) /\ TableOrdered(C, C[i].iftable)

\* An interface goes behind a table that holds its superinterfaces.
LEMMA AppendOrdered ==
    ASSUME NEW C, NEW t, TableOrdered(C, t), NEW i, Interface(C, i),
           Range(C[i].iftable) \subseteq Range(t), i \notin Range(t)
    PROVE  TableOrdered(C, Append(t, i))
<1>1. t \in Seq(Names) /\ i \in Names /\ i \in Linked(C) /\ C[i].iface
  BY DEF TableOrdered, Interface
<1>2. PICK u : u = Append(t, i)
  OBVIOUS
<1>3. /\ u \in Seq(Names) /\ Len(u) = Len(t) + 1 /\ Prefix(t, u) /\ u[Len(t) + 1] = i
      /\ Range(u) = Range(t) \union {i}
  BY <1>1, <1>2, AppendFacts
<1>4. DOMAIN u = 1..Len(t) + 1 /\ Len(t) \in Nat /\ DOMAIN t = 1..Len(t)
  BY <1>1, <1>3
<1>5. \A j \in Range(u) : j \in Linked(C) /\ C[j].iface /\ Range(C[j].iftable) \subseteq Range(u)
  BY <1>1, <1>3 DEF TableOrdered
<1>6. \A x, y \in DOMAIN u : x < y => u[x] /= u[y] /\ u[y] \notin Range(C[u[x]].iftable)
  <2> SUFFICES ASSUME NEW x \in DOMAIN u, NEW y \in DOMAIN u, x < y
               PROVE  u[x] /= u[y] /\ u[y] \notin Range(C[u[x]].iftable)
    OBVIOUS
  <2>1. x \in DOMAIN t /\ u[x] = t[x] /\ t[x] \in Range(t)
    BY <1>3, <1>4 DEF Prefix, Range
  <2>2. CASE y \in DOMAIN t
    <3>1. u[y] = t[y]
      BY <2>2, <1>3, <1>4 DEF Prefix
    <3> QED BY <3>1, <2>1, <2>2 DEF TableOrdered
  <2>3. CASE y = Len(t) + 1
    <3>1. u[y] = i
      BY <2>3, <1>3
    <3>2. Range(C[t[x]].iftable) \subseteq Range(t)
      BY <2>1 DEF TableOrdered
    <3> QED BY <3>1, <3>2, <2>1
  <2> QED BY <2>2, <2>3, <1>4
<1>7. TableOrdered(C, u)
  BY <1>3, <1>5, <1>6 DEF TableOrdered
<1> QED BY <1>2, <1>7

\* An ordered table of interfaces is added to another one in order.
LEMMA AddMissingOrdered ==
    ASSUME NEW C, NEW t, TableOrdered(C, t), NEW list, TableOrdered(C, list),
           \A i \in Range(list) : Interface(C, i)
    PROVE  TableOrdered(C, AddMissing(t, list))
<1>0. t \in Seq(Names) /\ list \in Seq(Names)
  BY DEF TableOrdered
<1>1. Len(list) \in Nat /\ DOMAIN list = 1..Len(list)
  BY <1>0
<1>2. PICK f : AddSteps(f, t, list) /\ AddMissing(t, list) = f[Len(list)]
  BY <1>1, AddMissingRec
<1>3. PICK T : T = {n \in 0..Len(list) : TableOrdered(C, f[n]) /\ {list[x] : x \in 1..n} \subseteq Range(f[n])}
  OBVIOUS
<1>4. 0 \in T
  <2>1. f[0] = t
    BY <1>2 DEF AddSteps
  <2> QED BY <1>1, <1>3, <2>1
<1>5. \A n \in 0..Len(list) - 1 : n \in T => n + 1 \in T
  <2> SUFFICES ASSUME NEW n \in 0..Len(list) - 1, n \in T PROVE n + 1 \in T
    OBVIOUS
  <2>1. n + 1 \in 1..Len(list) /\ (n + 1) - 1 = n /\ n + 1 \in 0..Len(list)
    BY <1>1
  <2>2. PICK u : u = f[n]
    OBVIOUS
  <2>3. PICK e : e = list[n + 1]
    OBVIOUS
  <2>4. f[n + 1] = AddOne(u, e)
    BY <1>2, <2>1, <2>2, <2>3 DEF AddSteps
  <2>5. TableOrdered(C, u) /\ {list[x] : x \in 1..n} \subseteq Range(u)
    BY <1>3, <2>2
  <2>6. e \in Range(list)
    BY <1>1, <2>1, <2>3 DEF Range
  <2>7. Interface(C, e)
    BY <2>6
  <2>8. Range(C[e].iftable) \subseteq Range(u)
    <3> SUFFICES ASSUME NEW g \in Range(C[e].iftable) PROVE g \in Range(u)
      OBVIOUS
    <3>1. g \in Range(list)
      BY <2>6 DEF TableOrdered
    <3>2. PICK x \in 1..Len(list) : list[x] = g
      BY <3>1, <1>0, SeqFacts
    <3>3. ~(n + 1 < x)
      BY <3>2, <2>1, <2>3, <1>1 DEF TableOrdered
    <3>4. x /= n + 1
      BY <3>2, <2>3, <2>7 DEF Interface
    <3>5. x \in 1..n
      BY <3>2, <3>3, <3>4, <1>1
    <3> QED BY <3>5, <3>2, <2>5
  <2>9. TableOrdered(C, f[n + 1])
    <3>1. CASE e \in Range(u)
      BY <3>1, <2>4, <2>5 DEF AddOne
    <3>2. CASE e \notin Range(u)
      <4>1. f[n + 1] = Append(u, e)
        BY <3>2, <2>4 DEF AddOne
      <4> QED BY <4>1, <3>2, <2>5, <2>7, <2>8, AppendOrdered
    <3> QED BY <3>1, <3>2
  <2>10. {list[x] : x \in 1..n + 1} \subseteq Range(f[n + 1])
    <3>1. u \in Seq(Names) /\ e \in Names
      BY <2>5, <2>7 DEF TableOrdered, Interface
    <3>2. Range(f[n + 1]) = Range(u) \union {e}
      BY <3>1, <2>4, AddOneIs DEF Added
    <3>3. {list[x] : x \in 1..n + 1} = {list[x] : x \in 1..n} \union {e}
      BY <2>3
    <3> QED BY <3>2, <3>3, <2>5
  <2> QED BY <2>1, <2>9, <2>10, <1>3
<1>6. Len(list) \in T
  <2>1. 0..Len(list) \subseteq T
    BY <1>1, <1>4, <1>5, SetInduction
  <2> QED BY <1>1, <2>1
<1> QED BY <1>2, <1>3, <1>6

\* FillOne adds an interface behind its superinterfaces.
LEMMA FillOneIs ==
    ASSUME NEW t, TableOrdered(cls, t), NEW i, Interface(cls, i),
           \A j \in Range(cls[i].iftable) : Interface(cls, j)
    PROVE  /\ TableOrdered(cls, FillOne(t, i))
           /\ Added(Names, t, {i} \union Range(cls[i].iftable), FillOne(t, i))
<1>0. t \in Seq(Names) /\ cls[i].iftable \in Seq(Names) /\ i \in Names /\ TableOrdered(cls, cls[i].iftable)
  BY DEF TableOrdered, Interface
<1>1. CASE i \in Range(t)
  <2>1. FillOne(t, i) = t
    BY <1>1 DEF FillOne
  <2>2. Range(cls[i].iftable) \subseteq Range(t)
    BY <1>1 DEF TableOrdered
  <2> QED BY <1>0, <1>1, <2>1, <2>2 DEF Added, Prefix
<1>2. CASE i \notin Range(t)
  <2>1. PICK w : w = AddMissing(t, cls[i].iftable)
    OBVIOUS
  <2>2. FillOne(t, i) = Append(w, i)
    BY <1>2, <2>1 DEF FillOne
  <2>3. TableOrdered(cls, w)
    BY <1>0, <2>1, AddMissingOrdered
  <2>4. Added(Names, t, Range(cls[i].iftable), w)
    BY <1>0, <2>1, AddMissingIs
  <2>5. w \in Seq(Names) /\ Range(w) = Range(t) \union Range(cls[i].iftable)
    BY <2>4 DEF Added
  <2>6. i \notin Range(w)
    BY <1>2, <2>5 DEF Interface
  <2>7. TableOrdered(cls, Append(w, i))
    BY <2>3, <2>5, <2>6, AppendOrdered
  <2>8. Added(Names, w, {i}, Append(w, i))
    <3>1. AddOne(w, i) = Append(w, i)
      BY <2>6 DEF AddOne
    <3> QED BY <3>1, <2>5, <1>0, AddOneIs
  <2>9. Added(Names, t, Range(cls[i].iftable) \union {i}, Append(w, i))
    BY <2>4, <2>8, AddedTrans
  <2>10. Range(cls[i].iftable) \union {i} = {i} \union Range(cls[i].iftable)
    OBVIOUS
  <2> QED BY <2>2, <2>7, <2>9, <2>10
<1> QED BY <1>1, <1>2

\* The interfaces that list brings into a table.
Brought(list, n) == UNION {{list[x]} \union Range(cls[list[x]].iftable) : x \in 1..n}

\* FillIfTable adds the interfaces of a list with all above them, in order.
LEMMA FillIfTableIs ==
    ASSUME NEW t, TableOrdered(cls, t), NEW list \in Seq(Names),
           \A i \in Range(list) : Interface(cls, i),
           \A i \in Range(list) : \A j \in Range(cls[i].iftable) : Interface(cls, j)
    PROVE  /\ TableOrdered(cls, FillIfTable(t, list)) /\ Prefix(t, FillIfTable(t, list))
           /\ Range(FillIfTable(t, list)) =
                  Range(t) \union UNION {{i} \union Range(cls[i].iftable) : i \in Range(list)}
<1>1. Len(list) \in Nat /\ DOMAIN list = 1..Len(list) /\ \A x \in 1..Len(list) : list[x] \in Range(list)
  BY SeqFacts
<1>2. PICK f : FillSteps(f, t, list) /\ FillIfTable(t, list) = f[Len(list)]
  BY <1>1, FillIfTableRec
<1>3. PICK T : T = {n \in 0..Len(list) : TableOrdered(cls, f[n]) /\ Added(Names, t, Brought(list, n), f[n])}
  OBVIOUS
<1>4. 0 \in T
  <2>1. f[0] = t
    BY <1>2 DEF FillSteps
  <2>2. Added(Names, t, Brought(list, 0), t)
    BY DEF Added, Prefix, Brought, TableOrdered
  <2> QED BY <1>1, <1>3, <2>1, <2>2
<1>5. \A n \in 0..Len(list) - 1 : n \in T => n + 1 \in T
  <2> SUFFICES ASSUME NEW n \in 0..Len(list) - 1, n \in T PROVE n + 1 \in T
    OBVIOUS
  <2>1. n + 1 \in 1..Len(list) /\ (n + 1) - 1 = n /\ n + 1 \in 0..Len(list) /\ list[n + 1] \in Range(list)
    BY <1>1
  <2>2. f[n + 1] = FillOne(f[n], list[n + 1])
    BY <1>2, <2>1 DEF FillSteps
  <2>3. TableOrdered(cls, f[n]) /\ Added(Names, t, Brought(list, n), f[n])
    BY <1>3
  <2>4. /\ TableOrdered(cls, f[n + 1])
        /\ Added(Names, f[n], {list[n + 1]} \union Range(cls[list[n + 1]].iftable), f[n + 1])
    BY <2>1, <2>2, <2>3, FillOneIs
  <2>5. Added(Names, t, Brought(list, n) \union ({list[n + 1]} \union Range(cls[list[n + 1]].iftable)), f[n + 1])
    BY <2>3, <2>4, AddedTrans
  <2>6. Brought(list, n + 1) = Brought(list, n) \union ({list[n + 1]} \union Range(cls[list[n + 1]].iftable))
    BY DEF Brought
  <2> QED BY <1>3, <2>1, <2>4, <2>5, <2>6
<1>6. Len(list) \in T
  <2>1. 0..Len(list) \subseteq T
    BY <1>1, <1>4, <1>5, SetInduction
  <2> QED BY <1>1, <2>1
<1>7. Brought(list, Len(list)) = UNION {{i} \union Range(cls[i].iftable) : i \in Range(list)}
  <2>1. Range(list) = {list[x] : x \in 1..Len(list)}
    BY <1>1 DEF Range
  <2>2. {{i} \union Range(cls[i].iftable) : i \in Range(list)}
            = {{list[x]} \union Range(cls[list[x]].iftable) : x \in 1..Len(list)}
    BY <2>1
  <2> QED BY <2>2 DEF Brought
<1> QED BY <1>2, <1>3, <1>6, <1>7 DEF Added

----------------------------------------------------------------------------
\* Methods and the search for default methods.

Methods == [sig : Sigs, decl : Names, own : Names \union {"conflict", "miranda"}, abs : BOOLEAN,
            pub : BOOLEAN, final : BOOLEAN, conf : BOOLEAN, copied : BOOLEAN]
\* The methods that c declares.
DeclaresWell(C, c) ==
    /\ C[c].decl \in Seq(Methods)
    /\ \A x \in DOMAIN C[c].decl : /\ C[c].decl[x].decl = c /\ C[c].decl[x].own = c /\ ~C[c].decl[x].conf
                                   /\ C[c].iface => C[c].decl[x].pub
    /\ \A x, y \in DOMAIN C[c].decl : C[c].decl[x].sig = C[c].decl[y].sig => x = y
\* i has a default method of signature s.
HasDefault(C, i, s) == \E x \in DOMAIN C[i].decl : C[i].decl[x].sig = s /\ ~C[i].decl[x].abs
\* It is in effect: no later interface of the table declares s and extends i.
InEffect(C, s, t, p) ==
    /\ HasDefault(C, t[p], s)
    /\ \A x \in p + 1..Len(t) : ~(/\ \E y \in DOMAIN C[t[x]].decl : C[t[x]].decl[y].sig = s
                                  /\ t[p] = t[x] \/ t[p] \in Range(C[t[x]].iftable))
\* Two default methods of s are in effect.
Clash(C, s, t) == \E p, q \in 1..Len(t) : p /= q /\ InEffect(C, s, t, p) /\ InEffect(C, s, t, q)
\* A table that can be searched.
Searchable(t) == t \in Seq(Names) /\ \A x \in 1..Len(t) : DeclaresWell(cls, t[x])

\* An empty slot is not a method.
LEMMA NoMethodIsNone == NoMethod \notin Methods /\ \A m \in Methods : m /= NoMethod
<1>1. \A m \in Methods : m.sig \in Sigs
  BY DEF Methods
<1>2. NoMethod.sig = "none" /\ "none" \notin Sigs
  BY LinkAssumption DEF NoMethod
<1> QED BY <1>1, <1>2

\* FindSameNameAndSignature returns a method of that signature if there is one.
LEMMA FindIs ==
    ASSUME NEW s, NEW list \in Seq(Methods)
    PROVE  \/ /\ FindSameNameAndSignature(s, list) \in Range(list)
              /\ FindSameNameAndSignature(s, list).sig = s
              /\ FindSameNameAndSignature(s, list) \in Methods
              /\ FindSameNameAndSignature(s, list) /= NoMethod
           \/ /\ FindSameNameAndSignature(s, list) = NoMethod
              /\ \A x \in DOMAIN list : list[x].sig /= s
<1>1. PICK hits : hits = {i \in DOMAIN list : list[i].sig = s}
  OBVIOUS
<1>2. FindSameNameAndSignature(s, list) = IF hits = {} THEN NoMethod ELSE list[Min(hits)]
  BY <1>1 DEF FindSameNameAndSignature
<1>3. CASE hits = {}
  BY <1>1, <1>2, <1>3
<1>4. CASE hits /= {}
  <2>1. hits \subseteq Nat /\ Len(list) \in Nat /\ DOMAIN list = 1..Len(list)
    BY <1>1
  <2>2. Min(hits) \in hits
    BY <2>1, <1>4, MinIs
  <2>3. Min(hits) \in DOMAIN list /\ list[Min(hits)].sig = s /\ list[Min(hits)] \in Methods
    BY <2>1, <2>2, <1>1
  <2>4. list[Min(hits)] \in Range(list)
    BY <2>3 DEF Range
  <2>5. list[Min(hits)] /= NoMethod
    BY <2>3, NoMethodIsNone
  <2> QED BY <1>2, <1>4, <2>3, <2>4, <2>5
<1> QED BY <1>3, <1>4

\* What the search has found in the last n interfaces of table t.
SearchAt(s, t, n, r) ==
    \/ /\ r.res = "abstract" /\ r.m = NoMethod
       /\ \A q \in 1..Len(t) : q > Len(t) - n => ~InEffect(cls, s, t, q)
    \/ /\ r.res = "found"
       /\ \E p \in 1..Len(t) : /\ p > Len(t) - n /\ InEffect(cls, s, t, p)
                               /\ \A q \in 1..Len(t) : q > Len(t) - n /\ InEffect(cls, s, t, q) => q = p
                               /\ r.m \in Range(cls[t[p]].decl) /\ r.m.sig = s /\ ~r.m.abs
    \/ /\ r.res = "conflict"
       /\ Clash(cls, s, t)

\* One interface of the search.
LEMMA SearchStep ==
    ASSUME NEW s, NEW t, Searchable(t), NEW n \in 0..Len(t) - 1, NEW was, SearchAt(s, t, n, was)
    PROVE  SearchAt(s, t, n + 1, SearchInterface(s, t, was, Len(t) - n))
<1>0. t \in Seq(Names) /\ Len(t) \in Nat
  BY DEF Searchable
<1>1. PICK k \in 1..Len(t) : k = Len(t) - n
  BY <1>0
<1>2. PICK r : r = SearchInterface(s, t, was, k)
  OBVIOUS
<1>3. PICK m : m = FindSameNameAndSignature(s, cls[t[k]].decl)
  OBVIOUS
<1>4. DeclaresWell(cls, t[k])
  BY <1>1 DEF Searchable
<1>5. \/ m \in Range(cls[t[k]].decl) /\ m.sig = s /\ m \in Methods /\ m /= NoMethod
      \/ m = NoMethod /\ \A x \in DOMAIN cls[t[k]].decl : cls[t[k]].decl[x].sig /= s
  BY <1>3, <1>4, FindIs DEF DeclaresWell
<1>6. ContainsOverridingMethodOf(s, t, k) <=>
      \E x \in k + 1..Len(t) : /\ \E y \in DOMAIN cls[t[x]].decl : cls[t[x]].decl[y].sig = s
                               /\ t[k] = t[x] \/ t[k] \in Range(cls[t[x]].iftable)
  BY DEF ContainsOverridingMethodOf, Declares, IsAssignableFrom
<1>7. HasDefault(cls, t[k], s) <=> m /= NoMethod /\ ~m.abs
  <2>1. CASE m = NoMethod
    BY <2>1, <1>5 DEF HasDefault
  <2>2. CASE m /= NoMethod
    <3>1. PICK x \in DOMAIN cls[t[k]].decl : cls[t[k]].decl[x] = m /\ m.sig = s
      BY <2>2, <1>5 DEF Range
    <3>2. \A y \in DOMAIN cls[t[k]].decl : cls[t[k]].decl[y].sig = s => y = x
      BY <3>1, <1>4 DEF DeclaresWell
    <3> QED BY <2>2, <3>1, <3>2 DEF HasDefault
  <2> QED BY <2>1, <2>2
<1>8. InEffect(cls, s, t, k) <=> m /= NoMethod /\ ~m.abs /\ ~ContainsOverridingMethodOf(s, t, k)
  BY <1>6, <1>7 DEF InEffect
<1>9. r = IF was.res = "conflict" \/ ~InEffect(cls, s, t, k) THEN was
          ELSE IF was.res = "abstract" THEN [res |-> "found", m |-> m]
          ELSE IF IsAssignableFrom(t[k], was.m.decl) THEN was
          ELSE [res |-> "conflict", m |-> NoMethod]
  BY <1>2, <1>3, <1>8 DEF SearchInterface
<1>10. \A q \in 1..Len(t) : q > Len(t) - (n + 1) <=> q > Len(t) - n \/ q = k
  BY <1>0, <1>1
<1>11. CASE was.res = "conflict"
  BY <1>9, <1>11, <1>1, <1>2 DEF SearchAt
<1>12. CASE was.res /= "conflict" /\ ~InEffect(cls, s, t, k)
  <2>1. r = was
    BY <1>9, <1>12
  <2>2. SearchAt(s, t, n + 1, was)
    BY <1>10, <1>12 DEF SearchAt
  <2> QED BY <2>1, <2>2, <1>1, <1>2
<1>13. CASE was.res = "abstract" /\ InEffect(cls, s, t, k)
  <2>1. r = [res |-> "found", m |-> m]
    BY <1>9, <1>13
  <2>2. m \in Range(cls[t[k]].decl) /\ m.sig = s /\ ~m.abs
    BY <1>5, <1>8, <1>13
  <2>3. \A q \in 1..Len(t) : q > Len(t) - (n + 1) /\ InEffect(cls, s, t, q) => q = k
    BY <1>10, <1>13 DEF SearchAt
  <2>4. SearchAt(s, t, n + 1, r)
    BY <2>1, <2>2, <2>3, <1>10, <1>13 DEF SearchAt
  <2> QED BY <2>4, <1>1, <1>2
<1>14. CASE was.res = "found" /\ InEffect(cls, s, t, k)
  <2>1. PICK p \in 1..Len(t) : /\ p > Len(t) - n /\ InEffect(cls, s, t, p)
                               /\ was.m \in Range(cls[t[p]].decl) /\ was.m.sig = s
    BY <1>14 DEF SearchAt
  <2>2. DeclaresWell(cls, t[p])
    BY DEF Searchable
  <2>3. PICK x \in DOMAIN cls[t[p]].decl : cls[t[p]].decl[x] = was.m
    BY <2>1 DEF Range
  <2>4. was.m.decl = t[p]
    BY <2>2, <2>3 DEF DeclaresWell
  <2>5. p \in k + 1..Len(t) /\ p /= k
    BY <1>0, <1>1, <2>1
  <2>6. ~IsAssignableFrom(t[k], was.m.decl)
    BY <1>14, <2>1, <2>3, <2>4, <2>5 DEF InEffect, IsAssignableFrom
  <2>7. r = [res |-> "conflict", m |-> NoMethod]
    BY <1>9, <1>14, <2>6
  <2>8. Clash(cls, s, t)
    BY <1>14, <2>1, <2>5 DEF Clash
  <2> QED BY <2>7, <2>8, <1>1, <1>2 DEF SearchAt
<1>15. was.res \in {"conflict", "abstract", "found"}
  BY DEF SearchAt
<1> QED BY <1>11, <1>12, <1>13, <1>14, <1>15

\* FindDefaultMethodImplementation finds the default method when one is in effect,
\* and a conflict when two are.
LEMMA SearchIs ==
    ASSUME NEW s, NEW t, Searchable(t)
    PROVE  SearchAt(s, t, Len(t), FindDefaultMethodImplementation(s, t))
<1>1. Len(t) \in Nat
  BY DEF Searchable
<1>2. PICK f : SearchSteps(f, s, t) /\ FindDefaultMethodImplementation(s, t) = f[Len(t)]
  BY <1>1, SearchRec
<1>3. PICK T : T = {n \in 0..Len(t) : SearchAt(s, t, n, f[n])}
  OBVIOUS
<1>4. 0 \in T
  <2>1. f[0] = [res |-> "abstract", m |-> NoMethod]
    BY <1>2 DEF SearchSteps
  <2>2. SearchAt(s, t, 0, [res |-> "abstract", m |-> NoMethod])
    BY <1>1 DEF SearchAt
  <2> QED BY <1>1, <1>3, <2>1, <2>2
<1>5. \A n \in 0..Len(t) - 1 : n \in T => n + 1 \in T
  <2> SUFFICES ASSUME NEW n \in 0..Len(t) - 1, n \in T PROVE n + 1 \in T
    OBVIOUS
  <2>1. n + 1 \in 1..Len(t) /\ (n + 1) - 1 = n /\ n + 1 \in 0..Len(t) /\ Len(t) + 1 - (n + 1) = Len(t) - n
    BY <1>1
  <2>2. f[n + 1] = SearchInterface(s, t, f[n], Len(t) - n)
    BY <1>2, <2>1 DEF SearchSteps
  <2>3. SearchAt(s, t, n, f[n])
    BY <1>3
  <2>4. SearchAt(s, t, n + 1, f[n + 1])
    BY <2>2, <2>3, SearchStep
  <2> QED BY <1>3, <2>1, <2>4
<1>6. Len(t) \in T
  <2>1. 0..Len(t) \subseteq T
    BY <1>1, <1>4, <1>5, SetInduction
  <2> QED BY <1>1, <2>1
<1> QED BY <1>2, <1>3, <1>6

\* What the search returns.
LEMMA SearchFacts ==
    ASSUME NEW s, NEW t, Searchable(t)
    PROVE  LET r == FindDefaultMethodImplementation(s, t) IN
           /\ r.res \in {"abstract", "found", "conflict"}
           /\ r.res = "conflict" <=> Clash(cls, s, t)
           /\ r.res = "found" => /\ r.m \in Methods /\ r.m.sig = s /\ ~r.m.abs /\ ~r.m.conf
                                 /\ r.m.own = r.m.decl /\ r.m.decl \in Range(t)
<1>0. Len(t) \in Nat /\ DOMAIN t = 1..Len(t)
  BY DEF Searchable
<1>1. PICK r : r = FindDefaultMethodImplementation(s, t)
  OBVIOUS
<1>2. SearchAt(s, t, Len(t), r)
  BY <1>1, SearchIs
<1>3. r.res \in {"abstract", "found", "conflict"}
  BY <1>2 DEF SearchAt
<1>4. r.res = "conflict" <=> Clash(cls, s, t)
  <2>1. r.res /= "conflict" => ~Clash(cls, s, t)
    BY <1>0, <1>2 DEF SearchAt, Clash
  <2>2. r.res = "conflict" => Clash(cls, s, t)
    BY <1>2 DEF SearchAt
  <2> QED BY <2>1, <2>2
<1>5. ASSUME r.res = "found"
      PROVE  /\ r.m \in Methods /\ r.m.sig = s /\ ~r.m.abs /\ ~r.m.conf
             /\ r.m.own = r.m.decl /\ r.m.decl \in Range(t)
  <2>1. PICK p \in 1..Len(t) : r.m \in Range(cls[t[p]].decl) /\ r.m.sig = s /\ ~r.m.abs
    BY <1>2, <1>5 DEF SearchAt
  <2>2. DeclaresWell(cls, t[p])
    BY DEF Searchable
  <2>3. PICK x \in DOMAIN cls[t[p]].decl : cls[t[p]].decl[x] = r.m
    BY <2>1 DEF Range
  <2>4. r.m \in Methods /\ ~r.m.conf /\ r.m.own = t[p] /\ r.m.decl = t[p]
    BY <2>2, <2>3 DEF DeclaresWell
  <2>5. t[p] \in Range(t)
    BY <1>0 DEF Range
  <2> QED BY <2>1, <2>4, <2>5
<1> QED BY <1>1, <1>3, <1>4, <1>5

\* An interface that u has behind table t declares s.
NewDeclares(C, s, t, u) ==
    \E x \in Len(t) + 1..Len(u) : \E y \in DOMAIN C[u[x]].decl : C[u[x]].decl[y].sig = s
\* The interfaces behind a table do not make two defaults clash unless one of them
\* declares the signature.
LEMMA ClashIsNew ==
    ASSUME NEW C, NEW s, NEW S, NEW t \in Seq(S), NEW u \in Seq(S), Prefix(t, u), Clash(C, s, u), ~Clash(C, s, t)
    PROVE  NewDeclares(C, s, t, u)
<1>0. Len(t) \in Nat /\ Len(u) \in Nat /\ Len(t) <= Len(u) /\ \A x \in 1..Len(t) : u[x] = t[x]
  BY DEF Prefix
<1>1. SUFFICES ASSUME \A x \in Len(t) + 1..Len(u) : ~\E y \in DOMAIN C[u[x]].decl : C[u[x]].decl[y].sig = s
               PROVE  FALSE
  BY DEF NewDeclares
<1>2. \A p \in 1..Len(u) : InEffect(C, s, u, p) => p \in 1..Len(t) /\ InEffect(C, s, t, p)
  <2> SUFFICES ASSUME NEW p \in 1..Len(u), InEffect(C, s, u, p)
               PROVE  p \in 1..Len(t) /\ InEffect(C, s, t, p)
    OBVIOUS
  <2>1. p \in 1..Len(t)
    BY <1>0, <1>1 DEF InEffect, HasDefault
  <2>2. u[p] = t[p] /\ \A x \in p + 1..Len(t) : x \in p + 1..Len(u) /\ u[x] = t[x]
    BY <2>1, <1>0
  <2>3. HasDefault(C, t[p], s)
    BY <2>2 DEF InEffect
  <2> QED BY <2>1, <2>2, <2>3 DEF InEffect
<1> QED BY <1>2 DEF Clash

----------------------------------------------------------------------------
\* LinkVirtualHashTable.

\* A sum that is at least m loses m.
LEMMA ModFacts ==
    ASSUME NEW m \in Nat, m > 0
    PROVE  /\ \A a \in Nat : a % m \in 0..m - 1
           /\ \A a \in Nat, q \in 0..m - 1 : \E x \in 0..m - 1 : (a + x) % m = q
<1>1. \A a \in Nat : a % m \in 0..m - 1
  OBVIOUS
<1>2. \A a \in Nat, q \in 0..m - 1 : \E x \in 0..m - 1 : (a + x) % m = q
  <2> SUFFICES ASSUME NEW a \in Nat, NEW q \in 0..m - 1 PROVE \E x \in 0..m - 1 : (a + x) % m = q
    OBVIOUS
  <2>1. PICK r \in 0..m - 1 : r = a % m
    BY <1>1
  <2>2. PICK b \in Nat : b = a \div m
    OBVIOUS
  <2>3. a = m * b + r
    BY <2>1, <2>2
  <2>4. CASE r <= q
    <3>1. q - r \in 0..m - 1 /\ a + (q - r) = m * b + q
      BY <2>3, <2>4
    <3>2. (m * b + q) % m = q
      OBVIOUS
    <3> QED BY <3>1, <3>2
  <2>5. CASE r > q
    <3>1. q - r + m \in 0..m - 1 /\ a + (q - r + m) = m * (b + 1) + q
      BY <2>3, <2>5
    <3>2. (m * (b + 1) + q) % m = q
      OBVIOUS
    <3> QED BY <3>1, <3>2
  <2> QED BY <2>4, <2>5
<1> QED BY <1>1, <1>2

\* Slots hold a declared method, or none, or what is left of one.
TableTyped(tab, decl) ==
    tab \in [0..3 * Len(decl) -> 1..Len(decl) \union {Invalid, Removed}]
\* The x-th slot that the search for signature s looks at.
Slot(decl, s, x) == (Hash[s] + x) % (3 * Len(decl) + 1)
\* The search for a signature meets the i-th method before an unused slot.
Reached(tab, decl, i) ==
    \E x \in 0..3 * Len(decl) : /\ tab[Slot(decl, decl[i].sig, x)] = i
                                /\ \A y \in 0..x : tab[Slot(decl, decl[i].sig, y)] /= Invalid

\* The number of slots.
LEMMA TableSize ==
    ASSUME NEW decl \in Seq(Methods), NEW tab, DOMAIN tab = 0..3 * Len(decl)
    PROVE  Cardinality(DOMAIN tab) = 3 * Len(decl) + 1
<1>1. Len(decl) \in Nat /\ 3 * Len(decl) \in Nat
  OBVIOUS
<1>2. PICK n \in Nat : n = 3 * Len(decl)
  BY <1>1
<1>3. Cardinality(0..n) = n + 1
  <2>1. 0 \in Int /\ n \in Int /\ 0 <= n
    OBVIOUS
  <2>2. Cardinality(0..n) = IF 0 > n THEN 0 ELSE n - 0 + 1
    BY <2>1, FS_Interval
  <2> QED BY <2>1, <2>2
<1> QED BY <1>2, <1>3

\* Slots are slots.
LEMMA SlotFacts ==
    ASSUME NEW decl \in Seq(Methods), NEW s \in Sigs
    PROVE  /\ \A x \in Nat : Slot(decl, s, x) \in 0..3 * Len(decl)
           /\ \A q \in 0..3 * Len(decl) : \E x \in 0..3 * Len(decl) : Slot(decl, s, x) = q
<1>1. PICK m \in Nat : m = 3 * Len(decl) + 1 /\ m > 0
  OBVIOUS
<1>2. PICK h \in Nat : h = Hash[s]
  BY LinkAssumption
<1>3. 0..m - 1 = 0..3 * Len(decl)
  BY <1>1
<1>4. \A x \in Nat : h + x \in Nat
  OBVIOUS
<1>5. \A a \in Nat : a % m \in 0..m - 1
  BY <1>1, ModFacts
<1>6. \A q \in 0..m - 1 : \E x \in 0..m - 1 : (h + x) % m = q
  BY <1>1, ModFacts
<1> QED BY <1>1, <1>2, <1>3, <1>4, <1>5, <1>6 DEF Slot

\* The slots of a table that are in use.
Used(tab) == {q \in DOMAIN tab : tab[q] /= Invalid}
\* A table with the first n methods.
Holds(tab, decl, n) ==
    /\ tab \in [0..3 * Len(decl) -> 1..Len(decl) \union {Invalid}]
    /\ IsFiniteSet(Used(tab)) /\ Cardinality(Used(tab)) <= n
    /\ \A i \in 1..n : Reached(tab, decl, i)

\* HashAdd finds an unused slot for the next method and moves no other.
LEMMA HashAddIs ==
    ASSUME NEW decl \in Seq(Methods), NEW tab, NEW n \in 0..Len(decl) - 1, Holds(tab, decl, n)
    PROVE  Holds(HashAdd(tab, Hash[decl[n + 1].sig], n + 1), decl, n + 1)
<1>0. Len(decl) \in Nat /\ DOMAIN decl = 1..Len(decl) /\ n + 1 \in 1..Len(decl)
  OBVIOUS
<1>a. \A i \in 1..Len(decl) : decl[i].sig \in Sigs
  <2>1. \A i \in 1..Len(decl) : decl[i] \in Methods
    OBVIOUS
  <2> QED BY <2>1 DEF Methods
<1>1. PICK s \in Sigs : s = decl[n + 1].sig
  BY <1>0, <1>a
<1>2. PICK g : g = HashAdd(tab, Hash[s], n + 1)
  OBVIOUS
<1>3. /\ DOMAIN tab = 0..3 * Len(decl) /\ IsFiniteSet(Used(tab)) /\ Cardinality(Used(tab)) <= n
      /\ \A q \in DOMAIN tab : tab[q] \in 1..Len(decl) \union {Invalid}
  BY DEF Holds
<1>4. Cardinality(DOMAIN tab) = 3 * Len(decl) + 1 /\ Cardinality(DOMAIN tab) > n
  BY <1>0, <1>3, TableSize
<1>5. PICK p \in DOMAIN tab : tab[p] = Invalid
  <2>1. Used(tab) \subseteq DOMAIN tab
    BY DEF Used
  <2>2. Used(tab) /= DOMAIN tab
    <3>1. Cardinality(Used(tab)) \in Nat
      BY <1>3, FS_CardinalityType
    <3> QED BY <1>0, <1>3, <1>4, <3>1
  <2>3. PICK p \in DOMAIN tab : p \notin Used(tab)
    BY <2>1, <2>2
  <2> QED BY <2>3 DEF Used
<1>6. PICK free : free = {x \in 0..3 * Len(decl) : tab[Slot(decl, s, x)] = Invalid}
  OBVIOUS
<1>7. free \subseteq Nat /\ free /= {}
  <2>1. PICK x \in 0..3 * Len(decl) : Slot(decl, s, x) = p
    <3>1. p \in 0..3 * Len(decl)
      BY <1>3
    <3> QED BY <3>1, SlotFacts
  <2>2. x \in free
    BY <1>5, <1>6, <2>1
  <2> QED BY <1>0, <1>6, <2>2
<1>8. PICK x \in free : x = Min(free) /\ \A y \in free : x <= y
  BY <1>7, MinIs
<1>9. g = [tab EXCEPT ![Slot(decl, s, x)] = n + 1]
  <2>1. Cardinality(DOMAIN tab) - 1 = 3 * Len(decl)
    BY <1>4, <1>0
  <2>2. {z \in 0..Cardinality(DOMAIN tab) - 1 : Probe(tab, Hash[s], z) = Invalid} = free
    BY <2>1, <1>4, <1>6 DEF Probe, Slot
  <2> QED BY <2>2, <1>2, <1>4, <1>8 DEF HashAdd, Slot
<1>10. PICK e : e = Slot(decl, s, x)
  OBVIOUS
<1>11. e \in DOMAIN tab /\ tab[e] = Invalid /\ x \in 0..3 * Len(decl)
  BY <1>3, <1>6, <1>8, <1>10, SlotFacts
<1>12. /\ DOMAIN g = DOMAIN tab /\ g[e] = n + 1
       /\ \A q \in DOMAIN tab : q /= e => g[q] = tab[q]
  BY <1>9, <1>10, <1>11
<1>13. g \in [0..3 * Len(decl) -> 1..Len(decl) \union {Invalid}]
  BY <1>0, <1>3, <1>9, <1>10 DEF Holds
<1>14. IsFiniteSet(Used(g)) /\ Cardinality(Used(g)) <= n + 1
  <2>1. Used(g) = Used(tab) \union {e}
    <3>1. n + 1 /= Invalid
      BY DEF Invalid
    <3> QED BY <3>1, <1>11, <1>12 DEF Used
  <2>2. e \notin Used(tab)
    BY <1>11 DEF Used
  <2>3. IsFiniteSet(Used(tab) \union {e}) /\ Cardinality(Used(tab) \union {e}) = Cardinality(Used(tab)) + 1
    BY <1>3, <2>2, FS_AddElement
  <2>4. Cardinality(Used(tab)) \in Nat
    BY <1>3, FS_CardinalityType
  <2> QED BY <1>3, <2>1, <2>3, <2>4
<1>15. \A i \in 1..n + 1 : Reached(g, decl, i)
  <2> SUFFICES ASSUME NEW i \in 1..n + 1 PROVE Reached(g, decl, i)
    OBVIOUS
  <2>0. \A q \in DOMAIN tab : tab[q] /= Invalid => g[q] = tab[q]
    BY <1>11, <1>12
  <2>1. CASE i = n + 1
    <3>1. \A y \in 0..x : g[Slot(decl, s, y)] /= Invalid
      <4> TAKE y \in 0..x
      <4>0. y \in Nat /\ y \in 0..3 * Len(decl)
        BY <1>0, <1>11
      <4>1. Slot(decl, s, y) \in DOMAIN tab /\ y \in 0..3 * Len(decl)
        BY <4>0, <1>3, SlotFacts
      <4>2. CASE y = x
        BY <4>2, <1>10, <1>12 DEF Invalid
      <4>3. CASE y < x
        <5>1. y \notin free
          BY <4>3, <1>7, <1>8
        <5>2. tab[Slot(decl, s, y)] /= Invalid
          BY <5>1, <4>1, <1>6
        <5> QED BY <5>2, <4>1, <2>0
      <4> QED BY <4>2, <4>3, <1>11
    <3> QED BY <2>1, <3>1, <1>1, <1>10, <1>11, <1>12 DEF Reached
  <2>2. CASE i \in 1..n
    <3>1. PICK z \in 0..3 * Len(decl) : /\ tab[Slot(decl, decl[i].sig, z)] = i
                                       /\ \A y \in 0..z : tab[Slot(decl, decl[i].sig, y)] /= Invalid
      BY <2>2 DEF Holds, Reached
    <3>2. decl[i].sig \in Sigs
      BY <1>0, <1>a, <2>2
    <3>3. \A y \in 0..z : Slot(decl, decl[i].sig, y) \in DOMAIN tab
      <4> TAKE y \in 0..z
      <4>1. y \in Nat
        OBVIOUS
      <4> QED BY <1>3, <3>2, <4>1, SlotFacts
    <3>4. \A y \in 0..z : g[Slot(decl, decl[i].sig, y)] = tab[Slot(decl, decl[i].sig, y)]
      BY <2>0, <3>1, <3>3
    <3>5. z \in 0..z
      OBVIOUS
    <3> QED BY <3>1, <3>4, <3>5 DEF Reached
  <2> QED BY <2>1, <2>2
<1> QED BY <1>1, <1>2, <1>13, <1>14, <1>15 DEF Holds

\* The hash table holds every declared method where the search meets it.
LEMMA HashTableIs ==
    ASSUME NEW decl \in Seq(Methods)
    PROVE  TableTyped(HashTable(decl), decl) /\ \A i \in DOMAIN decl : Reached(HashTable(decl), decl, i)
<1>1. Len(decl) \in Nat /\ DOMAIN decl = 1..Len(decl)
  OBVIOUS
<1>2. PICK f : HashSteps(f, decl) /\ HashTable(decl) = f[Len(decl)]
  BY <1>1, HashTableRec
<1>3. PICK T : T = {n \in 0..Len(decl) : Holds(f[n], decl, n)}
  OBVIOUS
<1>4. 0 \in T
  <2>1. f[0] = [x \in 0..3 * Len(decl) |-> Invalid]
    BY <1>2 DEF HashSteps
  <2>2. Used(f[0]) = {}
    BY <2>1 DEF Used
  <2>3. IsFiniteSet({}) /\ Cardinality({}) = 0
    BY FS_EmptySet
  <2>4. f[0] \in [0..3 * Len(decl) -> 1..Len(decl) \union {Invalid}]
    BY <2>1
  <2>5. Holds(f[0], decl, 0)
    BY <2>2, <2>3, <2>4 DEF Holds
  <2> QED BY <1>1, <1>3, <2>5
<1>5. \A n \in 0..Len(decl) - 1 : n \in T => n + 1 \in T
  <2> SUFFICES ASSUME NEW n \in 0..Len(decl) - 1, n \in T PROVE n + 1 \in T
    OBVIOUS
  <2>1. n + 1 \in 1..Len(decl) /\ (n + 1) - 1 = n /\ n + 1 \in 0..Len(decl)
    BY <1>1
  <2>2. f[n + 1] = HashAdd(f[n], Hash[decl[n + 1].sig], n + 1)
    BY <1>2, <2>1 DEF HashSteps
  <2>3. Holds(f[n], decl, n)
    BY <1>3
  <2>4. Holds(f[n + 1], decl, n + 1)
    BY <2>2, <2>3, HashAddIs
  <2> QED BY <1>3, <2>1, <2>4
<1>6. Len(decl) \in T
  <2>1. 0..Len(decl) \subseteq T
    BY <1>1, <1>4, <1>5, SetInduction
  <2> QED BY <1>1, <2>1
<1>7. Holds(HashTable(decl), decl, Len(decl))
  BY <1>2, <1>3, <1>6
<1> QED BY <1>1, <1>7 DEF Holds, TableTyped

\* FindSlot finds a slot with a method of the signature, and only when no method
\* of that signature is met is there none.
LEMMA FindSlotIs ==
    ASSUME NEW decl \in Seq(Methods), NEW tab, TableTyped(tab, decl), NEW s \in Sigs
    PROVE  LET slot == FindSlot(tab, decl, s) IN
           \/ /\ slot /= Invalid /\ slot \in DOMAIN tab /\ tab[slot] \in DOMAIN decl
              /\ decl[tab[slot]].sig = s
           \/ /\ slot = Invalid
              /\ \A i \in DOMAIN decl : decl[i].sig = s => ~Reached(tab, decl, i)
<1>0. /\ Len(decl) \in Nat /\ DOMAIN decl = 1..Len(decl) /\ DOMAIN tab = 0..3 * Len(decl)
      /\ \A q \in DOMAIN tab : tab[q] \in 1..Len(decl) \union {Invalid, Removed}
  BY DEF TableTyped
<1>1. Cardinality(DOMAIN tab) = 3 * Len(decl) + 1 /\ Cardinality(DOMAIN tab) - 1 = 3 * Len(decl)
  BY <1>0, TableSize
<1>2. PICK hits : hits = {x \in 0..3 * Len(decl) : /\ \A y \in 0..x : tab[Slot(decl, s, y)] /= Invalid
                                                   /\ tab[Slot(decl, s, x)] /= Removed
                                                   /\ decl[tab[Slot(decl, s, x)]].sig = s}
  OBVIOUS
<1>3. FindSlot(tab, decl, s) = IF hits = {} THEN Invalid ELSE Slot(decl, s, Min(hits))
  BY <1>1, <1>2 DEF FindSlot, Slot, Probe
<1>4. CASE hits = {}
  <2>1. FindSlot(tab, decl, s) = Invalid
    BY <1>3, <1>4
  <2>2. ASSUME NEW i \in DOMAIN decl, decl[i].sig = s, Reached(tab, decl, i) PROVE FALSE
    <3>1. PICK x \in 0..3 * Len(decl) : /\ tab[Slot(decl, s, x)] = i
                                        /\ \A y \in 0..x : tab[Slot(decl, s, y)] /= Invalid
      BY <2>2 DEF Reached
    <3>2. i /= Removed
      BY <1>0 DEF Removed
    <3>3. x \in hits
      BY <1>2, <3>1, <3>2, <2>2
    <3> QED BY <3>3, <1>4
  <2> QED BY <2>1, <2>2
<1>5. CASE hits /= {}
  <2>1. hits \subseteq Nat
    BY <1>2
  <2>2. PICK x \in hits : x = Min(hits)
    BY <2>1, <1>5, MinIs
  <2>3. PICK e : e = Slot(decl, s, x)
    OBVIOUS
  <2>4. e \in DOMAIN tab /\ e \in Nat
    BY <1>0, <2>1, <2>3, SlotFacts
  <2>5. tab[e] /= Invalid /\ tab[e] /= Removed /\ decl[tab[e]].sig = s
    <3>1. x \in 0..x
      BY <2>1
    <3> QED BY <3>1, <1>2, <2>3
  <2>6. e /= Invalid
    BY <2>4 DEF Invalid
  <2>7. FindSlot(tab, decl, s) = e
    BY <1>3, <1>5, <2>2, <2>3
  <2> QED BY <1>0, <2>4, <2>5, <2>6, <2>7
<1> QED BY <1>4, <1>5

\* The table after the method in slot e has been used.
Taken(tab, g) == /\ DOMAIN g = DOMAIN tab
                 /\ \A q \in DOMAIN tab : g[q] = tab[q] \/ (tab[q] /= Invalid /\ g[q] = Removed)

\* Taking methods out of the hash table keeps it well typed and brings none back.
LEMMA TakenFacts ==
    ASSUME NEW decl \in Seq(Methods), NEW tab, TableTyped(tab, decl), NEW g, Taken(tab, g), NEW s \in Sigs
    PROVE  /\ TableTyped(g, decl)
           /\ FindSlot(tab, decl, s) = Invalid => FindSlot(g, decl, s) = Invalid
<1>0. /\ Len(decl) \in Nat /\ DOMAIN decl = 1..Len(decl) /\ DOMAIN tab = 0..3 * Len(decl)
      /\ DOMAIN g = 0..3 * Len(decl)
      /\ \A q \in DOMAIN tab : tab[q] \in 1..Len(decl) \union {Invalid, Removed}
  BY DEF TableTyped, Taken
<1>1. TableTyped(g, decl)
  BY <1>0 DEF Taken, TableTyped
<1>2. Cardinality(DOMAIN tab) = 3 * Len(decl) + 1 /\ Cardinality(DOMAIN tab) - 1 = 3 * Len(decl)
  BY <1>0, TableSize
<1>3. ASSUME FindSlot(g, decl, s) /= Invalid PROVE FindSlot(tab, decl, s) /= Invalid
  <2>1. PICK hits : hits = {x \in 0..3 * Len(decl) : /\ \A y \in 0..x : g[Slot(decl, s, y)] /= Invalid
                                                     /\ g[Slot(decl, s, x)] /= Removed
                                                     /\ decl[g[Slot(decl, s, x)]].sig = s}
    OBVIOUS
  <2>2. FindSlot(g, decl, s) = IF hits = {} THEN Invalid ELSE Slot(decl, s, Min(hits))
    BY <1>0, <1>2, <2>1 DEF FindSlot, Slot, Probe
  <2>3. PICK x \in hits : TRUE
    BY <1>3, <2>2
  <2>4. x \in Nat /\ \A y \in 0..x : Slot(decl, s, y) \in DOMAIN tab
    <3>1. x \in Nat
      BY <1>0, <2>1
    <3>2. \A y \in 0..x : Slot(decl, s, y) \in DOMAIN tab
      <4> TAKE y \in 0..x
      <4>1. y \in Nat
        BY <3>1
      <4> QED BY <1>0, <4>1, SlotFacts
    <3> QED BY <3>1, <3>2
  <2>5. g[Slot(decl, s, x)] = tab[Slot(decl, s, x)]
    BY <2>1, <2>4 DEF Taken
  <2>6. \A y \in 0..x : tab[Slot(decl, s, y)] /= Invalid
    BY <2>1, <2>4 DEF Taken
  <2>7. PICK all : all = {z \in 0..3 * Len(decl) : /\ \A y \in 0..z : tab[Slot(decl, s, y)] /= Invalid
                                                   /\ tab[Slot(decl, s, z)] /= Removed
                                                   /\ decl[tab[Slot(decl, s, z)]].sig = s}
    OBVIOUS
  <2>8. FindSlot(tab, decl, s) = IF all = {} THEN Invalid ELSE Slot(decl, s, Min(all))
    BY <1>0, <1>2, <2>7 DEF FindSlot, Slot, Probe
  <2>9. all /= {} /\ all \subseteq Nat
    BY <2>1, <2>3, <2>5, <2>6, <2>7
  <2>10. Min(all) \in Nat
    BY <2>9, MinIs
  <2>11. Slot(decl, s, Min(all)) \in 0..3 * Len(decl)
    BY <2>10, SlotFacts
  <2> QED BY <1>0, <2>8, <2>9, <2>11 DEF Invalid
<1> QED BY <1>1, <1>3

----------------------------------------------------------------------------
\* LinkVirtualMethods.

\* An entry m stands for another default method than the search r finds now.
Outdated(m, r) == CASE r.res = "conflict" -> ~m.conf
                    [] r.res = "abstract" -> ~m.abs
                    [] r.res = "found" -> m.conf \/ r.m.decl /= m.decl
\* The superclass's vtable sup, the methods decl of k and the interface table t.
Overriding(k, decl, t, sup) ==
    /\ k \notin DOMAIN cls /\ decl \in Seq(Methods) /\ \A x \in DOMAIN decl : decl[x].decl = k
    /\ sup \in Seq(Methods)
    /\ \A x \in DOMAIN sup : /\ sup[x].decl \in DOMAIN cls
                             /\ IsOverridableByDefaultMethod(sup[x]) => sup[x].pub
    /\ Searchable(t)
\* Entry x stands for a default method and has not been overridden.
Kept(sup, st, x) == IsOverridableByDefaultMethod(sup[x]) /\ st.vtable[x] = sup[x]
\* The state once n entries are overridden.
EntryTypes(decl, sup, st, n) ==
    /\ DOMAIN st = {"vtable", "hash", "trans", "err"}
    /\ st.vtable \in Seq(Methods) /\ Len(st.vtable) = Len(sup)
    /\ TableTyped(st.hash, decl)
    /\ \A x \in 1..Len(sup) : /\ x > n => st.vtable[x] = sup[x]
                              /\ \/ st.vtable[x] = sup[x]
                                 \/ st.vtable[x] \in Range(decl) /\ st.vtable[x].sig = sup[x].sig
\* Entries to be translated are those that were kept and are outdated.
EntryTranslations(decl, t, sup, st, n) ==
    /\ \A x \in DOMAIN st.trans :
           /\ x \in 1..n /\ Kept(sup, st, x)
           /\ st.trans[x] = FindDefaultMethodImplementation(sup[x].sig, t)
           /\ Outdated(sup[x], st.trans[x])
    /\ \A x \in 1..n : Kept(sup, st, x) =>
           /\ FindSlot(st.hash, decl, sup[x].sig) = Invalid
           /\ Outdated(sup[x], FindDefaultMethodImplementation(sup[x].sig, t)) => x \in DOMAIN st.trans
\* A signature whose entry was kept is not overridden later, and every declared
\* method is still to be found or in the vtable.
EntryOverrides(decl, sup, st, n) ==
    /\ \A x, y \in 1..n : x < y /\ sup[x].sig = sup[y].sig /\ Kept(sup, st, x) => st.vtable[y] = sup[y]
    /\ \A i \in DOMAIN decl : Reached(st.hash, decl, i) \/ decl[i] \in Range(st.vtable)
Entries(decl, t, sup, st, n) ==
    /\ EntryTypes(decl, sup, st, n)
    /\ EntryTranslations(decl, t, sup, st, n)
    /\ EntryOverrides(decl, sup, st, n)

\* What OverrideEntry does to an entry: o is the state after it, when there is no error.
EntryCase(k, decl, t, sup, st, j, o) ==
    LET slot == FindSlot(st.hash, decl, sup[j].sig)
        r == FindDefaultMethodImplementation(sup[j].sig, t)
    IN  \/ ~CanAccessMember(k, sup[j]) /\ o = st
        \/ slot /= Invalid /\ o = [st EXCEPT !.vtable[j] = decl[st.hash[slot]], !.hash[slot] = Removed]
        \/ /\ slot = Invalid /\ IsOverridableByDefaultMethod(sup[j]) /\ Outdated(sup[j], r)
           /\ o = [st EXCEPT !.trans = With(@, j, r)]
        \/ /\ slot = Invalid /\ ~(IsOverridableByDefaultMethod(sup[j]) /\ Outdated(sup[j], r))
           /\ o = st
\* OverrideEntry does one of these.
LEMMA OverrideCases ==
    ASSUME NEW k, NEW decl, NEW t, NEW sup, Overriding(k, decl, t, sup),
           NEW st, NEW j \in 1..Len(sup), EntryTypes(decl, sup, st, j - 1),
           OverrideEntry(k, decl, t, st, j).err = "none"
    PROVE  EntryCase(k, decl, t, sup, st, j, OverrideEntry(k, decl, t, st, j))
<1>a. PICK slot : slot = FindSlot(st.hash, decl, sup[j].sig)
  OBVIOUS
<1>b. PICK r : r = FindDefaultMethodImplementation(sup[j].sig, t)
  OBVIOUS
<1>c. PICK o : o = OverrideEntry(k, decl, t, st, j)
  OBVIOUS
<1>d. SUFFICES
           \/ ~CanAccessMember(k, sup[j]) /\ o = st
           \/ slot /= Invalid /\ o = [st EXCEPT !.vtable[j] = decl[st.hash[slot]], !.hash[slot] = Removed]
           \/ /\ slot = Invalid /\ IsOverridableByDefaultMethod(sup[j]) /\ Outdated(sup[j], r)
              /\ o = [st EXCEPT !.trans = With(@, j, r)]
           \/ /\ slot = Invalid /\ ~(IsOverridableByDefaultMethod(sup[j]) /\ Outdated(sup[j], r))
              /\ o = st
  BY <1>a, <1>b, <1>c DEF EntryCase
<1>1. st.vtable[j] = sup[j] /\ sup[j] \in Methods
  BY DEF EntryTypes, Overriding
<1>2. sup[j].final \in BOOLEAN
  BY <1>1 DEF Methods
<1>6. o = IF st.err /= "none" \/ ~CanAccessMember(k, sup[j]) THEN st
          ELSE
            CASE slot /= Invalid /\ sup[j].final -> [st EXCEPT !.err = "LinkageError"]
            [] slot /= Invalid /\ ~sup[j].final ->
                 [st EXCEPT !.vtable[j] = decl[st.hash[slot]], !.hash[slot] = Removed]
            [] slot = Invalid /\ IsOverridableByDefaultMethod(sup[j]) /\ Outdated(sup[j], r) ->
                 [st EXCEPT !.trans = With(@, j, r)]
            [] OTHER -> st
  BY <1>1, <1>a, <1>b, <1>c DEF OverrideEntry, Outdated
<1>7. o.err = "none" /\ DOMAIN st = {"vtable", "hash", "trans", "err"}
  BY <1>c DEF EntryTypes
<1>8. CASE st.err /= "none" \/ ~CanAccessMember(k, sup[j])
  <2>1. o = st
    BY <1>6, <1>8
  <2> QED BY <2>1, <1>7, <1>8
<1>9. CASE ~(st.err /= "none" \/ ~CanAccessMember(k, sup[j])) /\ slot /= Invalid
  <2>1. CASE sup[j].final
    <3>1. o = [st EXCEPT !.err = "LinkageError"]
      BY <1>6, <1>9, <2>1
    <3>2. o.err = "LinkageError"
      BY <3>1, <1>7
    <3> QED BY <3>2, <1>7
  <2>2. CASE ~sup[j].final
    <3>1. o = [st EXCEPT !.vtable[j] = decl[st.hash[slot]], !.hash[slot] = Removed]
      BY <1>6, <1>9, <2>2
    <3> QED BY <3>1, <1>9
  <2> QED BY <2>1, <2>2, <1>2
<1>10. CASE /\ ~(st.err /= "none" \/ ~CanAccessMember(k, sup[j])) /\ slot = Invalid
            /\ IsOverridableByDefaultMethod(sup[j]) /\ Outdated(sup[j], r)
  <2>1. o = [st EXCEPT !.trans = With(@, j, r)]
    BY <1>6, <1>10
  <2> QED BY <2>1, <1>10
<1>11. CASE /\ ~(st.err /= "none" \/ ~CanAccessMember(k, sup[j])) /\ slot = Invalid
            /\ ~(IsOverridableByDefaultMethod(sup[j]) /\ Outdated(sup[j], r))
  <2>1. o = st
    BY <1>6, <1>11
  <2> QED BY <2>1, <1>11
<1> QED BY <1>8, <1>9, <1>10, <1>11

\* An entry that stays as it is.
LEMMA KeepEntry ==
    ASSUME NEW k, NEW decl, NEW t, NEW sup, Overriding(k, decl, t, sup),
           NEW st, NEW j \in 1..Len(sup), Entries(decl, t, sup, st, j - 1),
           IsOverridableByDefaultMethod(sup[j]) =>
               /\ FindSlot(st.hash, decl, sup[j].sig) = Invalid
               /\ ~Outdated(sup[j], FindDefaultMethodImplementation(sup[j].sig, t))
    PROVE  Entries(decl, t, sup, st, j)
<1>0. Len(sup) \in Nat /\ j \in Nat /\ \A x \in 1..j : x \in 1..Len(sup) /\ (x \in 1..j - 1 \/ x = j)
  BY DEF Overriding
<1>1. st.vtable[j] = sup[j]
  BY DEF Entries, EntryTypes
<1>2. EntryTypes(decl, sup, st, j)
  BY <1>0 DEF Entries, EntryTypes
<1>3. EntryTranslations(decl, t, sup, st, j)
  <2>1. \A x \in 1..j : Kept(sup, st, x) =>
           /\ FindSlot(st.hash, decl, sup[x].sig) = Invalid
           /\ Outdated(sup[x], FindDefaultMethodImplementation(sup[x].sig, t)) => x \in DOMAIN st.trans
    BY <1>0 DEF Entries, EntryTranslations, Kept
  <2> QED BY <1>0, <2>1 DEF Entries, EntryTranslations
<1>4. EntryOverrides(decl, sup, st, j)
  <2> SUFFICES ASSUME NEW x \in 1..j, NEW y \in 1..j, x < y, sup[x].sig = sup[y].sig, Kept(sup, st, x)
               PROVE  st.vtable[y] = sup[y]
    BY DEF Entries, EntryOverrides
  <2>1. x \in 1..j - 1
    BY <1>0
  <2>2. CASE y = j
    BY <2>2, <1>1
  <2>3. CASE y \in 1..j - 1
    BY <2>1, <2>3 DEF Entries, EntryOverrides
  <2> QED BY <2>2, <2>3, <1>0
<1> QED BY <1>2, <1>3, <1>4 DEF Entries

\* An entry that is to be translated.
LEMMA TranslateEntry ==
    ASSUME NEW k, NEW decl, NEW t, NEW sup, Overriding(k, decl, t, sup),
           NEW st, NEW j \in 1..Len(sup), Entries(decl, t, sup, st, j - 1),
           NEW r, r = FindDefaultMethodImplementation(sup[j].sig, t),
           FindSlot(st.hash, decl, sup[j].sig) = Invalid,
           IsOverridableByDefaultMethod(sup[j]), Outdated(sup[j], r),
           NEW o, o = [st EXCEPT !.trans = With(@, j, r)]
    PROVE  Entries(decl, t, sup, o, j)
<1>0. Len(sup) \in Nat /\ j \in Nat /\ \A x \in 1..j : x \in 1..Len(sup) /\ (x \in 1..j - 1 \/ x = j)
  BY DEF Overriding
<1>1. st.vtable[j] = sup[j]
  BY DEF Entries, EntryTypes
<1>2. /\ o.vtable = st.vtable /\ o.hash = st.hash /\ o.err = st.err /\ o.trans = With(st.trans, j, r)
      /\ DOMAIN o = DOMAIN st
  BY DEF Entries, EntryTypes
<1>3. /\ DOMAIN o.trans = DOMAIN st.trans \union {j} /\ o.trans[j] = r
      /\ \A x \in DOMAIN st.trans : x /= j => o.trans[x] = st.trans[x]
  BY <1>2 DEF With
<1>4. EntryTypes(decl, sup, o, j)
  BY <1>0, <1>2 DEF Entries, EntryTypes
<1>5. \A x : Kept(sup, o, x) <=> Kept(sup, st, x)
  BY <1>2 DEF Kept
<1>6. EntryTranslations(decl, t, sup, o, j)
  <2>1. \A x \in DOMAIN o.trans :
           /\ x \in 1..j /\ Kept(sup, o, x)
           /\ o.trans[x] = FindDefaultMethodImplementation(sup[x].sig, t)
           /\ Outdated(sup[x], o.trans[x])
    <3> TAKE x \in DOMAIN o.trans
    <3>1. CASE x = j
      BY <3>1, <1>0, <1>1, <1>2, <1>3 DEF Kept
    <3>2. CASE x \in DOMAIN st.trans /\ x /= j
      BY <3>2, <1>0, <1>3, <1>5 DEF Entries, EntryTranslations
    <3> QED BY <3>1, <3>2, <1>3
  <2>2. \A x \in 1..j : Kept(sup, o, x) =>
           /\ FindSlot(o.hash, decl, sup[x].sig) = Invalid
           /\ Outdated(sup[x], FindDefaultMethodImplementation(sup[x].sig, t)) => x \in DOMAIN o.trans
    BY <1>0, <1>2, <1>3, <1>5 DEF Entries, EntryTranslations
  <2> QED BY <2>1, <2>2 DEF EntryTranslations
<1>7. EntryOverrides(decl, sup, o, j)
  <2>1. ASSUME NEW x \in 1..j, NEW y \in 1..j, x < y, sup[x].sig = sup[y].sig, Kept(sup, o, x)
        PROVE  o.vtable[y] = sup[y]
    <3>1. x \in 1..j - 1
      BY <1>0, <2>1
    <3>2. CASE y = j
      BY <3>2, <1>1, <1>2
    <3>3. CASE y \in 1..j - 1
      BY <3>1, <3>3, <2>1, <1>2, <1>5 DEF Entries, EntryOverrides
    <3> QED BY <3>2, <3>3, <1>0
  <2>2. \A i \in DOMAIN decl : Reached(o.hash, decl, i) \/ decl[i] \in Range(o.vtable)
    BY <1>2 DEF Entries, EntryOverrides
  <2> QED BY <2>1, <2>2 DEF EntryOverrides
<1> QED BY <1>4, <1>6, <1>7 DEF Entries

\* An entry that a declared method overrides.
LEMMA ReplaceEntry ==
    ASSUME NEW k, NEW decl, NEW t, NEW sup, Overriding(k, decl, t, sup),
           NEW st, NEW j \in 1..Len(sup), Entries(decl, t, sup, st, j - 1),
           NEW slot, slot = FindSlot(st.hash, decl, sup[j].sig), slot /= Invalid,
           NEW o, o = [st EXCEPT !.vtable[j] = decl[st.hash[slot]], !.hash[slot] = Removed]
    PROVE  Entries(decl, t, sup, o, j)
<1>0. /\ Len(sup) \in Nat /\ j \in Nat /\ \A x \in 1..j : x \in 1..Len(sup) /\ (x \in 1..j - 1 \/ x = j)
      /\ decl \in Seq(Methods) /\ k \notin DOMAIN cls /\ \A x \in DOMAIN decl : decl[x].decl = k
  BY DEF Overriding
<1>1. /\ st.vtable[j] = sup[j] /\ st.vtable \in Seq(Methods) /\ Len(st.vtable) = Len(sup)
      /\ TableTyped(st.hash, decl) /\ DOMAIN st = {"vtable", "hash", "trans", "err"}
  BY DEF Entries, EntryTypes
<1>2. sup[j] \in Methods /\ sup[j].decl \in DOMAIN cls
  BY DEF Overriding
<1>3. sup[j].sig \in Sigs
  BY <1>2 DEF Methods
<1>4. slot \in DOMAIN st.hash /\ st.hash[slot] \in DOMAIN decl /\ decl[st.hash[slot]].sig = sup[j].sig
  BY <1>0, <1>1, <1>3, FindSlotIs
<1>5. PICK e : e = decl[st.hash[slot]]
  OBVIOUS
<1>6. e \in Methods /\ e \in Range(decl) /\ e.sig = sup[j].sig /\ e.decl = k
  BY <1>0, <1>4, <1>5 DEF Range
<1>7. /\ o.vtable = [st.vtable EXCEPT ![j] = e] /\ o.hash = [st.hash EXCEPT ![slot] = Removed]
      /\ o.trans = st.trans /\ o.err = st.err /\ DOMAIN o = DOMAIN st
  BY <1>1, <1>5
<1>8. DOMAIN st.vtable = 1..Len(sup)
  BY <1>1
<1>9. /\ o.vtable \in Seq(Methods) /\ Len(o.vtable) = Len(sup) /\ o.vtable[j] = e
      /\ \A x \in 1..Len(sup) : x /= j => o.vtable[x] = st.vtable[x]
  BY <1>1, <1>6, <1>7, <1>8
<1>10. Taken(st.hash, o.hash)
  <2>1. st.hash[slot] /= Invalid
    BY <1>4, <1>0 DEF Invalid
  <2> QED BY <2>1, <1>4, <1>7 DEF Taken
<1>11. TableTyped(o.hash, decl)
  BY <1>0, <1>1, <1>3, <1>10, TakenFacts
<1>12. e /= sup[j]
  BY <1>0, <1>2, <1>6
<1>13. \A x : x \in 1..Len(sup) => (Kept(sup, o, x) <=> x /= j /\ Kept(sup, st, x))
  BY <1>9, <1>12 DEF Kept
<1>14. EntryTypes(decl, sup, o, j)
  <2>1. \A x \in 1..Len(sup) : /\ x > j => o.vtable[x] = sup[x]
                               /\ \/ o.vtable[x] = sup[x]
                                  \/ o.vtable[x] \in Range(decl) /\ o.vtable[x].sig = sup[x].sig
    <3> TAKE x \in 1..Len(sup)
    <3>1. CASE x = j
      BY <3>1, <1>6, <1>9, <1>0
    <3>2. CASE x /= j
      BY <3>2, <1>0, <1>9 DEF Entries, EntryTypes
    <3> QED BY <3>1, <3>2
  <2> QED BY <2>1, <1>1, <1>7, <1>9, <1>11 DEF EntryTypes
<1>15. EntryTranslations(decl, t, sup, o, j)
  <2>1. \A x \in DOMAIN st.trans : x \in 1..Len(sup) /\ x /= j /\ x \in 1..j
    BY <1>0 DEF Entries, EntryTranslations
  <2>2. \A x \in DOMAIN o.trans :
           /\ x \in 1..j /\ Kept(sup, o, x)
           /\ o.trans[x] = FindDefaultMethodImplementation(sup[x].sig, t)
           /\ Outdated(sup[x], o.trans[x])
    BY <2>1, <1>7, <1>13 DEF Entries, EntryTranslations
  <2>3. ASSUME NEW x \in 1..j, Kept(sup, o, x)
        PROVE  /\ FindSlot(o.hash, decl, sup[x].sig) = Invalid
               /\ Outdated(sup[x], FindDefaultMethodImplementation(sup[x].sig, t)) => x \in DOMAIN o.trans
    <3>1. x \in 1..j - 1 /\ Kept(sup, st, x) /\ x \in 1..Len(sup)
      BY <2>3, <1>0, <1>13
    <3>2. /\ FindSlot(st.hash, decl, sup[x].sig) = Invalid
          /\ Outdated(sup[x], FindDefaultMethodImplementation(sup[x].sig, t)) => x \in DOMAIN st.trans
      BY <3>1 DEF Entries, EntryTranslations
    <3>3. sup[x].sig \in Sigs
      <4>1. sup[x] \in Methods
        BY <3>1 DEF Overriding
      <4> QED BY <4>1 DEF Methods
    <3>4. FindSlot(o.hash, decl, sup[x].sig) = Invalid
      BY <3>2, <3>3, <1>0, <1>1, <1>10, TakenFacts
    <3> QED BY <3>2, <3>4, <1>7
  <2> QED BY <2>2, <2>3 DEF EntryTranslations
<1>16. EntryOverrides(decl, sup, o, j)
  <2>1. ASSUME NEW x \in 1..j, NEW y \in 1..j, x < y, sup[x].sig = sup[y].sig, Kept(sup, o, x)
        PROVE  o.vtable[y] = sup[y]
    <3>1. x \in 1..j - 1 /\ x \in 1..Len(sup) /\ y \in 1..Len(sup) /\ Kept(sup, st, x)
      BY <1>0, <1>13, <2>1
    <3>2. CASE y = j
      <4>1. FindSlot(st.hash, decl, sup[j].sig) = Invalid
        BY <3>1, <3>2, <2>1 DEF Entries, EntryTranslations
      <4> QED BY <4>1
    <3>3. CASE y \in 1..j - 1
      <4>1. st.vtable[y] = sup[y]
        BY <3>1, <3>3, <2>1 DEF Entries, EntryOverrides
      <4>2. y /= j
        BY <3>3, <1>0
      <4> QED BY <4>1, <4>2, <3>1, <1>9
    <3> QED BY <3>2, <3>3, <1>0
  <2>2. ASSUME NEW i \in DOMAIN decl PROVE Reached(o.hash, decl, i) \/ decl[i] \in Range(o.vtable)
    <3>0. DOMAIN o.vtable = 1..Len(sup) /\ DOMAIN st.vtable = 1..Len(sup)
      BY <1>8, <1>7
    <3>1. CASE decl[i] \in Range(st.vtable)
      <4>1. PICK x \in 1..Len(sup) : st.vtable[x] = decl[i]
        BY <3>0, <3>1 DEF Range
      <4>2. x /= j
        BY <4>1, <1>0, <1>1, <1>2
      <4>3. o.vtable[x] = decl[i]
        BY <4>1, <4>2, <1>9
      <4> QED BY <4>3, <3>0 DEF Range
    <3>2. CASE i = st.hash[slot]
      BY <3>2, <3>0, <1>5, <1>9 DEF Range
    <3>3. CASE i /= st.hash[slot] /\ Reached(st.hash, decl, i)
      <4>1. PICK z \in 0..3 * Len(decl) : /\ st.hash[Slot(decl, decl[i].sig, z)] = i
                                         /\ \A y \in 0..z : st.hash[Slot(decl, decl[i].sig, y)] /= Invalid
        BY <3>3 DEF Reached
      <4>2. decl[i].sig \in Sigs
        <5>1. decl[i] \in Methods
          BY <1>0
        <5> QED BY <5>1 DEF Methods
      <4>3. \A y \in 0..z : Slot(decl, decl[i].sig, y) \in DOMAIN st.hash
        <5> TAKE y \in 0..z
        <5>1. y \in Nat
          OBVIOUS
        <5>2. DOMAIN st.hash = 0..3 * Len(decl)
          BY <1>1 DEF TableTyped
        <5> QED BY <1>0, <4>2, <5>1, <5>2, SlotFacts
      <4>4. \A y \in 0..z : o.hash[Slot(decl, decl[i].sig, y)] /= Invalid
        BY <4>1, <4>3, <1>10 DEF Taken, Invalid, Removed
      <4>5. z \in 0..z
        BY <1>0
      <4>6. o.hash[Slot(decl, decl[i].sig, z)] = i
        BY <4>1, <4>3, <4>5, <3>3, <1>7
      <4> QED BY <4>1, <4>4, <4>6 DEF Reached
    <3> QED BY <3>1, <3>2, <3>3 DEF Entries, EntryOverrides
  <2> QED BY <2>1, <2>2 DEF EntryOverrides
<1> QED BY <1>14, <1>15, <1>16 DEF Entries

----------------------------------------------------------------------------
\* The tables of a linked class.

Fields == {"ok", "iface", "super", "public", "final", "inst", "ifs", "decl", "virtuals", "iftable",
           "arrays", "vtable", "imt"}
\* A class table: records, with Object in it.
Shaped(C) ==
    /\ DOMAIN C \subseteq Names /\ "Object" \in Linked(C) /\ ~C["Object"].iface
    /\ \A c \in DOMAIN C : DOMAIN C[c] = Fields /\ C[c].inst \in BOOLEAN /\ (C[c].inst => C[c].ok)
\* Superclass and interfaces are linked.
Placed(C, c) == /\ C[c].super \in Linked(C) /\ ~C[C[c].super].iface
                /\ \A i \in Range(C[c].ifs) : i \in Linked(C) /\ C[i].iface
\* The interface table extends the superclass's and holds exactly what is above c.
Tabled(C, c) ==
    /\ TableOrdered(C, C[c].iftable) /\ c \notin Range(C[c].iftable)
    /\ Prefix(C[C[c].super].iftable, C[c].iftable)
    /\ Range(C[c].iftable) = Range(C[C[c].super].iftable)
                             \union UNION {{i} \union Range(C[i].iftable) : i \in Range(C[c].ifs)}
\* A default method, or the copy of an interface method.
Overridable(C, m) == m.decl /= "Object" /\ C[m.decl].iface
\* Entries of a vtable.
EntriesWell(C, v) ==
    /\ v \in Seq(Methods)
    /\ \A x \in 1..Len(v) : /\ v[x].decl \in Linked(C)
                            /\ Overridable(C, v[x]) => v[x].pub
                            /\ v[x].conf => ~v[x].abs
\* Behind an entry for a default method the signature has only copies of the entry.
Repeats(C, v) == \A x, y \in 1..Len(v) : x < y /\ v[x].sig = v[y].sig /\ Overridable(C, v[x]) => v[y] = v[x]
\* Where default methods clash in table t the entry is a conflict method.
Settles(C, v, t) == \A x \in 1..Len(v) : Overridable(C, v[x]) /\ Clash(C, v[x].sig, t) => v[x].conf
\* The method arrays a hold a method for every method of the interfaces in t.
ArraysWell(C, a, t) ==
    /\ DOMAIN a = 1..Len(t)
    /\ \A i \in 1..Len(t) : /\ DOMAIN a[i] = DOMAIN C[t[i]].decl
                            /\ \A j \in DOMAIN C[t[i]].decl : a[i][j] \in Methods /\ a[i][j].sig = C[t[i]].decl[j].sig
\* The entries of vtable v are methods of the class or the superclass's entry.
Owned(v, virtuals, sup) == \A x \in DOMAIN v :
    v[x] \in Range(virtuals) \/ (x \in DOMAIN sup /\ (x \in DOMAIN sup => sup[x] = v[x]))
SlotsSame(v, sup) == Len(sup) <= Len(v) /\ \A x \in DOMAIN sup : sup[x].sig = v[x].sig
ClassTables(C, c) ==
    LET sup == C[C[c].super].vtable IN
    /\ EntriesWell(C, C[c].vtable) /\ Repeats(C, C[c].vtable) /\ Settles(C, C[c].vtable, C[c].iftable)
    /\ ArraysWell(C, C[c].arrays, C[c].iftable)
    /\ Owned(C[c].vtable, C[c].virtuals, sup) /\ SlotsSame(C[c].vtable, sup)
GoodClass(C, c) == /\ Placed(C, c) /\ Tabled(C, c) /\ DeclaresWell(C, c)
                   /\ ~C[c].iface => ClassTables(C, c)
Good(C) == Shaped(C) /\ \A c \in Linked(C) : GoodClass(C, c)

\* Type k is linked with definition d and interface table t.
Linking(k, d, t) ==
    /\ k \in Range(Order) /\ k \notin DOMAIN cls /\ d \in Defs[k]
    /\ Good(cls) /\ d.super \in Linked(cls) /\ ~cls[d.super].iface
    /\ TableOrdered(cls, t) /\ Prefix(cls[d.super].iftable, t)

\* Names of types are not the marks of methods that are not yet copied.
LEMMA NameFacts ==
    /\ Range(Order) \subseteq Names /\ "conflict" \notin Names /\ "miranda" \notin Names
    /\ "Object" \notin Range(Order) /\ "Object" \in Names /\ Len(Order) \in Nat
<1>1. Order \in Seq(Names \ {"Object", "conflict", "miranda"})
  BY LinkAssumption
<1>2. Range(Order) \subseteq Names \ {"Object", "conflict", "miranda"}
  BY <1>1, SeqFacts
<1> QED BY <1>1, <1>2 DEF Names

\* The methods that a definition declares.
LEMMA DeclaredIs ==
    ASSUME NEW k \in Range(Order), NEW d \in Defs[k]
    PROVE  /\ Declared(k, d) \in Seq(Methods) /\ Len(Declared(k, d)) = Len(d.methods)
           /\ \A x \in DOMAIN Declared(k, d) :
                  /\ Declared(k, d)[x].decl = k /\ Declared(k, d)[x].own = k
                  /\ ~Declared(k, d)[x].conf /\ Declared(k, d)[x] \in Methods
                  /\ d.iface => Declared(k, d)[x].pub
           /\ \A x, y \in DOMAIN Declared(k, d) : Declared(k, d)[x].sig = Declared(k, d)[y].sig => x = y
<1>1. /\ d \in Definitions
      /\ \A i, j \in DOMAIN d.methods : d.methods[i].sig = d.methods[j].sig => i = j
      /\ d.iface => \A i \in DOMAIN d.methods : d.methods[i].kind \in {"abstract", "concrete"}
  BY LinkAssumption
<1>2. d.methods \in Seq([sig : Sigs, kind : Kinds])
  BY <1>1 DEF Definitions
<1>3. Len(d.methods) \in Nat /\ DOMAIN d.methods = 1..Len(d.methods)
  BY <1>2
<1>4. \A x \in DOMAIN d.methods : d.methods[x].sig \in Sigs
  <2>0. PICK R : R = [sig : Sigs, kind : Kinds]
    OBVIOUS
  <2>1. \A x \in DOMAIN d.methods : d.methods[x] \in R
    BY <1>2, <1>3, <2>0, SeqFacts
  <2> QED BY <2>0, <2>1
<1>5. PICK D : D = Declared(k, d)
  OBVIOUS
<1>6. DOMAIN D = DOMAIN d.methods /\ \A x \in DOMAIN d.methods : D[x] = Method(k, d.methods[x].sig, d.methods[x].kind)
  BY <1>5 DEF Declared
<1>7. k \in Names
  BY NameFacts
<1>8. \A s \in Sigs : \A kind : /\ Method(k, s, kind) \in Methods /\ Method(k, s, kind).sig = s
                                /\ Method(k, s, kind).decl = k /\ Method(k, s, kind).own = k
                                /\ ~Method(k, s, kind).conf
                                /\ (Method(k, s, kind).pub <=> kind /= "pkg")
  BY <1>7 DEF Method, Methods
<1>9. \A x \in DOMAIN D : /\ D[x] \in Methods /\ D[x].decl = k /\ D[x].own = k /\ ~D[x].conf
                          /\ D[x].sig = d.methods[x].sig /\ (D[x].pub <=> d.methods[x].kind /= "pkg")
  BY <1>4, <1>6, <1>8
<1>10. D = [x \in 1..Len(d.methods) |-> D[x]]
  BY <1>3, <1>5 DEF Declared
<1>11. D \in Seq(Methods) /\ Len(D) = Len(d.methods)
  <2>1. PICK n \in Nat : n = Len(d.methods)
    BY <1>3
  <2>2. D \in [1..n -> Methods]
    BY <1>3, <1>6, <1>9, <1>10, <2>1
  <2> QED BY <2>1, <2>2
<1>12. \A x, y \in DOMAIN D : D[x].sig = D[y].sig => x = y
  BY <1>1, <1>6, <1>9
<1>13. \A x \in DOMAIN D : d.iface => D[x].pub
  BY <1>1, <1>6, <1>9
<1> QED BY <1>5, <1>9, <1>11, <1>12, <1>13

\* An ordered table can be searched.
LEMMA TableSearchable ==
    ASSUME NEW t, Good(cls), TableOrdered(cls, t)
    PROVE  Searchable(t)
<1>1. t \in Seq(Names)
  BY DEF TableOrdered
<1>2. \A x \in 1..Len(t) : DeclaresWell(cls, t[x])
  BY <1>1, SeqFacts DEF TableOrdered, Good, GoodClass
<1> QED BY <1>1, <1>2 DEF Searchable

\* OverrideEntries, when it ends without an error.
LEMMA OverrideEntriesIs ==
    ASSUME NEW k, NEW decl, NEW t, NEW sup, Overriding(k, decl, t, sup),
           OverrideEntries(k, decl, t, sup).err = "none"
    PROVE  Entries(decl, t, sup, OverrideEntries(k, decl, t, sup), Len(sup))
<1>1. Len(sup) \in Nat /\ DOMAIN sup = 1..Len(sup) /\ decl \in Seq(Methods) /\ sup \in Seq(Methods)
  BY DEF Overriding
<1>2. PICK f : OverrideSteps(f, k, decl, t, sup) /\ OverrideEntries(k, decl, t, sup) = f[Len(sup)]
  BY <1>1, OverrideRec
<1>3. PICK T : T = {n \in 0..Len(sup) : f[n].err = "none" => Entries(decl, t, sup, f[n], n)}
  OBVIOUS
<1>4. 0 \in T
  <2>1. PICK st : st = [vtable |-> sup, hash |-> HashTable(decl), trans |-> NoTranslations, err |-> "none"]
    OBVIOUS
  <2>2. f[0] = st
    BY <1>2, <2>1 DEF OverrideSteps
  <2>3. /\ st.vtable = sup /\ st.hash = HashTable(decl) /\ DOMAIN st.trans = {}
        /\ DOMAIN st = {"vtable", "hash", "trans", "err"}
    BY <2>1 DEF NoTranslations
  <2>4. TableTyped(st.hash, decl) /\ \A i \in DOMAIN decl : Reached(st.hash, decl, i)
    BY <1>1, <2>3, HashTableIs
  <2>5. EntryTypes(decl, sup, st, 0)
    BY <1>1, <2>3, <2>4 DEF EntryTypes
  <2>6. EntryTranslations(decl, t, sup, st, 0)
    BY <2>3 DEF EntryTranslations
  <2>7. EntryOverrides(decl, sup, st, 0)
    BY <2>4 DEF EntryOverrides
  <2> QED BY <1>1, <1>3, <2>2, <2>5, <2>6, <2>7 DEF Entries
<1>5. \A n \in 0..Len(sup) - 1 : n \in T => n + 1 \in T
  <2> SUFFICES ASSUME NEW n \in 0..Len(sup) - 1, n \in T, f[n + 1].err = "none"
               PROVE  Entries(decl, t, sup, f[n + 1], n + 1)
    BY <1>1, <1>3
  <2>1. n + 1 \in 1..Len(sup) /\ (n + 1) - 1 = n
    BY <1>1
  <2>2. PICK j \in 1..Len(sup) : j = n + 1
    BY <2>1
  <2>3. PICK st : st = f[n]
    OBVIOUS
  <2>4. PICK o : o = f[n + 1]
    OBVIOUS
  <2>5. o = OverrideEntry(k, decl, t, st, j)
    BY <1>2, <2>1, <2>2, <2>3, <2>4 DEF OverrideSteps
  <2>6. st.err = "none"
    <3>1. st.err /= "none" => o = st
      BY <2>5 DEF OverrideEntry
    <3> QED BY <3>1, <2>4
  <2>7. Entries(decl, t, sup, st, j - 1)
    BY <1>3, <2>1, <2>2, <2>3, <2>6
  <2>8. PICK slot : slot = FindSlot(st.hash, decl, sup[j].sig)
    OBVIOUS
  <2>9. PICK r : r = FindDefaultMethodImplementation(sup[j].sig, t)
    OBVIOUS
  <2>10. \/ ~CanAccessMember(k, sup[j]) /\ o = st
         \/ slot /= Invalid /\ o = [st EXCEPT !.vtable[j] = decl[st.hash[slot]], !.hash[slot] = Removed]
         \/ /\ slot = Invalid /\ IsOverridableByDefaultMethod(sup[j]) /\ Outdated(sup[j], r)
            /\ o = [st EXCEPT !.trans = With(@, j, r)]
         \/ /\ slot = Invalid /\ ~(IsOverridableByDefaultMethod(sup[j]) /\ Outdated(sup[j], r))
            /\ o = st
    <3>1. EntryTypes(decl, sup, st, j - 1)
      BY <2>7 DEF Entries
    <3>2. o.err = "none"
      BY <2>4
    <3>3. EntryCase(k, decl, t, sup, st, j, o)
      BY <2>5, <3>1, <3>2, OverrideCases
    <3> QED BY <2>8, <2>9, <3>3 DEF EntryCase
  <2>11. CASE ~CanAccessMember(k, sup[j]) /\ o = st
    <3>1. ~IsOverridableByDefaultMethod(sup[j])
      BY <1>1, <2>11 DEF Overriding, CanAccessMember
    <3> QED BY <3>1, <2>2, <2>4, <2>7, <2>11, KeepEntry
  <2>12. CASE slot /= Invalid /\ o = [st EXCEPT !.vtable[j] = decl[st.hash[slot]], !.hash[slot] = Removed]
    <3>1. Entries(decl, t, sup, o, j)
      BY <2>7, <2>8, <2>12, ReplaceEntry
    <3> QED BY <3>1, <2>2, <2>4
  <2>13. CASE /\ slot = Invalid /\ IsOverridableByDefaultMethod(sup[j]) /\ Outdated(sup[j], r)
              /\ o = [st EXCEPT !.trans = With(@, j, r)]
    <3>1. FindSlot(st.hash, decl, sup[j].sig) = Invalid
      BY <2>8, <2>13
    <3>2. Entries(decl, t, sup, o, j)
      BY <2>7, <2>9, <2>13, <3>1, TranslateEntry
    <3> QED BY <3>2, <2>2, <2>4
  <2>14. CASE /\ slot = Invalid /\ ~(IsOverridableByDefaultMethod(sup[j]) /\ Outdated(sup[j], r))
              /\ o = st
    <3>1. Entries(decl, t, sup, st, j)
      BY <2>7, <2>8, <2>9, <2>14, KeepEntry
    <3> QED BY <3>1, <2>2, <2>4, <2>14
  <2> QED BY <2>10, <2>11, <2>12, <2>13, <2>14
<1>6. Len(sup) \in T
  <2>1. 0..Len(sup) \subseteq T
    BY <1>1, <1>4, <1>5, SetInduction
  <2> QED BY <1>1, <2>1
<1> QED BY <1>2, <1>3, <1>6

\* The vtable v that LinkVirtualMethods makes of the superclass's vtable sup.
VtableEntries(decl, sup, v) ==
    /\ v.vtable \in Seq(Methods) /\ Len(sup) <= Len(v.vtable)
    /\ \A x \in 1..Len(sup) : \/ v.vtable[x] = sup[x]
                              \/ v.vtable[x] \in Range(decl) /\ v.vtable[x].sig = sup[x].sig
    /\ \A x \in 1..Len(v.vtable) : x > Len(sup) => v.vtable[x] \in Range(decl)
\* An entry that was kept is followed only by copies of it.
VtableKept(sup, v) ==
    \A x \in 1..Len(sup), y \in 1..Len(v.vtable) :
        x < y /\ Kept(sup, v, x) /\ v.vtable[y].sig = sup[x].sig => v.vtable[y] = sup[x]
\* Translations are those of the kept entries that are outdated.
VtableTranslations(t, sup, v) ==
    \A x \in DOMAIN v.trans : /\ x \in 1..Len(sup) /\ Kept(sup, v, x)
                              /\ v.trans[x] = FindDefaultMethodImplementation(sup[x].sig, t)
                              /\ Outdated(sup[x], v.trans[x])
\* They are complete, or there is no new interface and no clash.
VtableTranslated(t, sup, supt, v) ==
    \/ DOMAIN v.trans = {} /\ Len(supt) = Len(t) /\ Settles(cls, sup, t)
    \/ \A x \in 1..Len(sup) :
           Kept(sup, v, x) /\ Outdated(sup[x], FindDefaultMethodImplementation(sup[x].sig, t)) => x \in DOMAIN v.trans
Virtual(k, d, t, v) ==
    /\ VtableEntries(Declared(k, d), cls[d.super].vtable, v)
    /\ VtableKept(cls[d.super].vtable, v)
    /\ VtableTranslations(t, cls[d.super].vtable, v)
    /\ VtableTranslated(t, cls[d.super].vtable, cls[d.super].iftable, v)

\* What linking finds in the superclass.
LEMMA SuperFacts ==
    ASSUME NEW k, NEW d, NEW t, Linking(k, d, t)
    PROVE  /\ EntriesWell(cls, cls[d.super].vtable) /\ Repeats(cls, cls[d.super].vtable)
           /\ Settles(cls, cls[d.super].vtable, cls[d.super].iftable)
           /\ ArraysWell(cls, cls[d.super].arrays, cls[d.super].iftable)
           /\ TableOrdered(cls, cls[d.super].iftable)
           /\ Overriding(k, Declared(k, d), t, cls[d.super].vtable)
<1>1. GoodClass(cls, d.super) /\ ~cls[d.super].iface
  BY DEF Linking, Good
<1>2. ClassTables(cls, d.super) /\ TableOrdered(cls, cls[d.super].iftable)
  BY <1>1 DEF GoodClass, Tabled
<1>3. EntriesWell(cls, cls[d.super].vtable)
  BY <1>2 DEF ClassTables
<1>4. Overriding(k, Declared(k, d), t, cls[d.super].vtable)
  <2>1. Searchable(t)
    BY TableSearchable DEF Linking
  <2>2. k \in Range(Order) /\ d \in Defs[k] /\ k \notin DOMAIN cls
    BY DEF Linking
  <2>3. Declared(k, d) \in Seq(Methods) /\ \A x \in DOMAIN Declared(k, d) : Declared(k, d)[x].decl = k
    BY <2>2, DeclaredIs
  <2>4. /\ cls[d.super].vtable \in Seq(Methods)
        /\ \A x \in DOMAIN cls[d.super].vtable :
               /\ cls[d.super].vtable[x].decl \in DOMAIN cls
               /\ IsOverridableByDefaultMethod(cls[d.super].vtable[x]) => cls[d.super].vtable[x].pub
    BY <1>3 DEF EntriesWell, Linked, IsOverridableByDefaultMethod, Overridable
  <2> QED BY <2>1, <2>2, <2>3, <2>4 DEF Overriding
<1> QED BY <1>2, <1>3, <1>4 DEF ClassTables

\* LinkVirtualMethods of a class, when it ends without an error.
LEMMA VirtualIs ==
    ASSUME NEW k, NEW d, NEW t, Linking(k, d, t), ~d.iface, LinkVirtualMethods(k, d, t).err = "none"
    PROVE  Virtual(k, d, t, LinkVirtualMethods(k, d, t))
<1>1. PICK sup : sup = cls[d.super].vtable
  OBVIOUS
<1>2. PICK supt : supt = cls[d.super].iftable
  OBVIOUS
<1>3. PICK decl : decl = Declared(k, d)
  OBVIOUS
<1>4. PICK v : v = LinkVirtualMethods(k, d, t)
  OBVIOUS
<1>5. /\ EntriesWell(cls, sup) /\ Repeats(cls, sup) /\ Settles(cls, sup, supt)
      /\ Overriding(k, decl, t, sup) /\ TableOrdered(cls, supt)
  BY <1>1, <1>2, <1>3, SuperFacts
<1>6. /\ sup \in Seq(Methods) /\ Len(sup) \in Nat /\ DOMAIN sup = 1..Len(sup) /\ decl \in Seq(Methods)
      /\ Len(decl) \in Nat /\ DOMAIN decl = 1..Len(decl) /\ t \in Seq(Names) /\ supt \in Seq(Names)
      /\ Prefix(supt, t)
  BY <1>2, <1>5 DEF Overriding, Searchable, TableOrdered, Linking
<1>7. \A m : IsOverridableByDefaultMethod(m) <=> Overridable(cls, m)
  BY DEF IsOverridableByDefaultMethod, Overridable
<1>8. CASE Len(decl) = 0 /\ Len(supt) = Len(t)
  <2>1. v.vtable = sup /\ v.trans = NoTranslations
    BY <1>1, <1>2, <1>3, <1>4, <1>8 DEF LinkVirtualMethods
  <2>2. VtableEntries(decl, sup, v)
    BY <1>6, <2>1 DEF VtableEntries
  <2>3. VtableKept(sup, v)
    BY <1>5, <1>7, <2>1 DEF VtableKept, Kept, Repeats
  <2>4. DOMAIN v.trans = {}
    BY <2>1 DEF NoTranslations
  <2>5. t = supt
    BY <1>6, <1>8 DEF Prefix
  <2> QED BY <1>1, <1>2, <1>3, <1>4, <1>5, <1>8, <2>2, <2>3, <2>4, <2>5
          DEF Virtual, VtableTranslations, VtableTranslated
<1>9. CASE ~(Len(decl) = 0 /\ Len(supt) = Len(t))
  <2>1. PICK st : st = OverrideEntries(k, decl, t, sup)
    OBVIOUS
  <2>2. v.vtable = AddMissing(st.vtable, decl) /\ v.trans = st.trans /\ v.err = st.err
    BY <1>1, <1>2, <1>3, <1>4, <1>9, <2>1 DEF LinkVirtualMethods
  <2>3. st.err = "none"
    BY <2>2, <1>4
  <2>4. Entries(decl, t, sup, st, Len(sup))
    BY <1>5, <2>1, <2>3, OverrideEntriesIs
  <2>5. /\ st.vtable \in Seq(Methods) /\ Len(st.vtable) = Len(sup)
        /\ \A x \in 1..Len(sup) : \/ st.vtable[x] = sup[x]
                                  \/ st.vtable[x] \in Range(decl) /\ st.vtable[x].sig = sup[x].sig
    BY <2>4 DEF Entries, EntryTypes
  <2>6. Added(Methods, st.vtable, Range(decl), v.vtable)
    BY <1>6, <2>2, <2>5, AddMissingIs
  <2>7. /\ v.vtable \in Seq(Methods) /\ Len(sup) <= Len(v.vtable)
        /\ \A x \in 1..Len(sup) : v.vtable[x] = st.vtable[x]
        /\ \A x \in 1..Len(v.vtable) : x > Len(sup) => v.vtable[x] \in Range(decl) /\ v.vtable[x] \notin Range(st.vtable)
    BY <2>5, <2>6 DEF Added, Prefix
  <2>8. VtableEntries(decl, sup, v)
    BY <2>5, <2>7 DEF VtableEntries
  <2>9. \A x \in 1..Len(sup) : Kept(sup, v, x) <=> Kept(sup, st, x)
    BY <2>7 DEF Kept
  <2>10. VtableKept(sup, v)
    <3> SUFFICES ASSUME NEW x \in 1..Len(sup), NEW y \in 1..Len(v.vtable), x < y, Kept(sup, v, x),
                        v.vtable[y].sig = sup[x].sig
                 PROVE  v.vtable[y] = sup[x]
      BY DEF VtableKept
    <3>1. Kept(sup, st, x)
      BY <2>9
    <3>2. CASE y \in 1..Len(sup)
      <4>1. sup[y].sig = sup[x].sig
        BY <2>5, <2>7, <3>2
      <4>2. st.vtable[y] = sup[y]
        BY <2>4, <3>1, <3>2, <4>1 DEF Entries, EntryOverrides
      <4>3. sup[y] = sup[x]
        BY <1>5, <1>7, <3>1, <3>2, <4>1 DEF Kept, Repeats
      <4> QED BY <2>7, <3>2, <4>2, <4>3
    <3>3. CASE y > Len(sup)
      <4>1. v.vtable[y] \in Range(decl) /\ v.vtable[y] \notin Range(st.vtable)
        BY <2>7, <3>3
      <4>2. PICK i \in DOMAIN decl : decl[i] = v.vtable[y]
        BY <4>1 DEF Range
      <4>3. Reached(st.hash, decl, i)
        BY <2>4, <4>1, <4>2 DEF Entries, EntryOverrides
      <4>4. FindSlot(st.hash, decl, sup[x].sig) = Invalid
        BY <2>4, <3>1 DEF Entries, EntryTranslations
      <4>5. TableTyped(st.hash, decl)
        BY <2>4 DEF Entries, EntryTypes
      <4>6. sup[x].sig \in Sigs
        <5>1. sup[x] \in Methods
          BY <1>6
        <5> QED BY <5>1 DEF Methods
      <4>7. FALSE
        BY <1>6, <4>2, <4>3, <4>4, <4>5, <4>6, FindSlotIs
      <4> QED BY <4>7
    <3>4. y \in Nat
      OBVIOUS
    <3> QED BY <3>2, <3>3, <3>4, <1>6
  <2>11. VtableTranslations(t, sup, v)
    BY <2>2, <2>4, <2>9 DEF Entries, EntryTranslations, VtableTranslations
  <2>12. VtableTranslated(t, sup, supt, v)
    BY <2>2, <2>4, <2>9 DEF Entries, EntryTranslations, VtableTranslated
  <2> QED BY <1>1, <1>2, <1>3, <1>4, <2>8, <2>10, <2>11, <2>12 DEF Virtual
<1> QED BY <1>8, <1>9

----------------------------------------------------------------------------
\* The lists of the helper of LinkInterfaceMethods.

HelperFields == {"arrays", "imt", "newConflict", "miranda", "default", "overridingDefault", "conflict",
                 "overridingConflict", "err"}
InVtable(v, s) == \E x \in 1..Len(v.vtable) : v.vtable[x].sig = s
Absent(s, list) == \A x \in 1..Len(list) : list[x].sig /= s
\* A list holds a signature once.
Distinct(list) == \A x, y \in 1..Len(list) : list[x].sig = list[y].sig => x = y
\* Entry x is the last one of signature s.
LastEntry(v, s, x) == v.vtable[x].sig = s /\ \A y \in 1..Len(v.vtable) : y > x => v.vtable[y].sig /= s

\* A miranda method: no default is in effect, a new interface asks for it, and an
\* entry of the signature stands for another default method.
MirandaWell(k, t, v, supt, m) ==
    /\ m.own = "miranda" /\ m.decl \in Range(t) /\ m.pub /\ ~m.conf
    /\ FindDefaultMethodImplementation(m.sig, t).res = "abstract" /\ Len(supt) < Len(t)
    /\ \A x \in 1..Len(v.vtable) : LastEntry(v, m.sig, x) =>
           /\ v.vtable[x].decl /= k /\ IsOverridableByDefaultMethod(v.vtable[x])
           /\ ~(v.vtable[x].abs /\ ~v.vtable[x].conf)
\* The default method that is in effect.
DefaultWell(t, m) == LET r == FindDefaultMethodImplementation(m.sig, t) IN r.res = "found" /\ m = r.m
\* A conflict method.
ConflictWell(t, m) ==
    /\ m.own = "conflict" /\ m.decl \in Range(t) /\ m.pub /\ ~m.conf
    /\ FindDefaultMethodImplementation(m.sig, t).res = "conflict"

MirandaList(k, t, v, supt, list) ==
    list \in Seq(Methods) /\ Distinct(list) /\ \A m \in Range(list) : MirandaWell(k, t, v, supt, m)
DefaultList(t, v, list) ==
    list \in Seq(Methods) /\ Distinct(list) /\ \A m \in Range(list) : DefaultWell(t, m) /\ ~InVtable(v, m.sig)
ConflictList(t, v, list) ==
    list \in Seq(Methods) /\ Distinct(list) /\ \A m \in Range(list) : ConflictWell(t, m) /\ ~InVtable(v, m.sig)
OverridingDefaultList(t, list) == list \in Seq(Methods) /\ \A m \in Range(list) : DefaultWell(t, m)
OverridingConflictList(t, list) == list \in Seq(Methods) /\ \A m \in Range(list) : ConflictWell(t, m)
Lists(k, t, v, supt, h) ==
    /\ MirandaList(k, t, v, supt, h.miranda)
    /\ DefaultList(t, v, h.default) /\ OverridingDefaultList(t, h.overridingDefault)
    /\ ConflictList(t, v, h.conflict) /\ OverridingConflictList(t, h.overridingConflict)

\* A new signature keeps a list distinct.
LEMMA DistinctAppend ==
    ASSUME NEW list \in Seq(Methods), Distinct(list), NEW m \in Methods, Absent(m.sig, list)
    PROVE  Append(list, m) \in Seq(Methods) /\ Distinct(Append(list, m))
<1>1. PICK u : u = Append(list, m)
  OBVIOUS
<1>2. /\ u \in Seq(Methods) /\ Len(u) = Len(list) + 1 /\ u[Len(list) + 1] = m /\ Len(list) \in Nat
      /\ \A x \in 1..Len(list) : u[x] = list[x]
  BY <1>1, AppendFacts DEF Prefix
<1>3. ASSUME NEW x \in 1..Len(u), NEW y \in 1..Len(u), u[x].sig = u[y].sig PROVE x = y
  <2>1. CASE x = Len(list) + 1 /\ y = Len(list) + 1
    BY <2>1
  <2>2. CASE x = Len(list) + 1 /\ y \in 1..Len(list)
    BY <2>2, <1>2, <1>3 DEF Absent
  <2>3. CASE y = Len(list) + 1 /\ x \in 1..Len(list)
    BY <2>3, <1>2, <1>3 DEF Absent
  <2>4. CASE x \in 1..Len(list) /\ y \in 1..Len(list)
    BY <2>4, <1>2, <1>3 DEF Distinct
  <2> QED BY <2>1, <2>2, <2>3, <2>4, <1>2
<1> QED BY <1>1, <1>2, <1>3 DEF Distinct

\* The lists with one more method.
LEMMA MirandaAppend ==
    ASSUME NEW k, NEW t, NEW v, NEW supt, NEW list, MirandaList(k, t, v, supt, list),
           NEW m \in Methods, MirandaWell(k, t, v, supt, m), Absent(m.sig, list)
    PROVE  MirandaList(k, t, v, supt, Append(list, m))
<1>1. Append(list, m) \in Seq(Methods) /\ Distinct(Append(list, m))
  BY DistinctAppend DEF MirandaList
<1>2. Range(Append(list, m)) = Range(list) \union {m}
  BY AppendFacts DEF MirandaList
<1> QED BY <1>1, <1>2 DEF MirandaList

\* Recording one more default method keeps the list of them in order.
LEMMA DefaultAppend ==
    ASSUME NEW t, NEW v, NEW list, DefaultList(t, v, list),
           NEW m \in Methods, DefaultWell(t, m), ~InVtable(v, m.sig), Absent(m.sig, list)
    PROVE  DefaultList(t, v, Append(list, m))
<1>1. Append(list, m) \in Seq(Methods) /\ Distinct(Append(list, m))
  BY DistinctAppend DEF DefaultList
<1>2. Range(Append(list, m)) = Range(list) \union {m}
  BY AppendFacts DEF DefaultList
<1> QED BY <1>1, <1>2 DEF DefaultList

\* Recording one more conflict method keeps the list of them in order.
LEMMA ConflictAppend ==
    ASSUME NEW t, NEW v, NEW list, ConflictList(t, v, list),
           NEW m \in Methods, ConflictWell(t, m), ~InVtable(v, m.sig), Absent(m.sig, list)
    PROVE  ConflictList(t, v, Append(list, m))
<1>1. Append(list, m) \in Seq(Methods) /\ Distinct(Append(list, m))
  BY DistinctAppend DEF ConflictList
<1>2. Range(Append(list, m)) = Range(list) \union {m}
  BY AppendFacts DEF ConflictList
<1> QED BY <1>1, <1>2 DEF ConflictList

\* So does recording a method that takes an inherited entry's place.
LEMMA OverridingAppend ==
    ASSUME NEW t, NEW list, NEW m \in Methods
    PROVE  /\ OverridingDefaultList(t, list) /\ DefaultWell(t, m) => OverridingDefaultList(t, Append(list, m))
           /\ OverridingConflictList(t, list) /\ ConflictWell(t, m) => OverridingConflictList(t, Append(list, m))
<1>1. ASSUME list \in Seq(Methods)
      PROVE  Append(list, m) \in Seq(Methods) /\ Range(Append(list, m)) = Range(list) \union {m}
  BY <1>1, AppendFacts
<1> QED BY <1>1 DEF OverridingDefaultList, OverridingConflictList

\* The elements of two lists.
LEMMA ConcatFacts ==
    ASSUME NEW S, NEW a \in Seq(S), NEW b \in Seq(S)
    PROVE  a \o b \in Seq(S) /\ Range(a \o b) = Range(a) \union Range(b)
<1>1. PICK u : u = a \o b
  OBVIOUS
<1>2. /\ u \in Seq(S) /\ Len(u) = Len(a) + Len(b) /\ Len(a) \in Nat /\ Len(b) \in Nat
      /\ DOMAIN u = 1..Len(a) + Len(b) /\ DOMAIN a = 1..Len(a) /\ DOMAIN b = 1..Len(b)
  BY <1>1
<1>3. /\ \A x \in 1..Len(a) : u[x] = a[x]
      /\ \A x \in 1..Len(b) : u[Len(a) + x] = b[x]
  BY <1>1
<1>4. Range(u) \subseteq Range(a) \union Range(b)
  <2> SUFFICES ASSUME NEW x \in 1..Len(a) + Len(b) PROVE u[x] \in Range(a) \union Range(b)
    BY <1>2 DEF Range
  <2>1. CASE x \in 1..Len(a)
    BY <2>1, <1>2, <1>3 DEF Range
  <2>2. CASE x > Len(a)
    <3>1. x - Len(a) \in 1..Len(b) /\ Len(a) + (x - Len(a)) = x
      BY <2>2, <1>2
    <3>2. u[x] = b[x - Len(a)]
      BY <3>1, <1>3
    <3> QED BY <3>1, <3>2, <1>2 DEF Range
  <2> QED BY <2>1, <2>2, <1>2
<1>5. Range(a) \subseteq Range(u)
  <2> SUFFICES ASSUME NEW x \in 1..Len(a) PROVE a[x] \in Range(u)
    BY <1>2 DEF Range
  <2>1. x \in 1..Len(a) + Len(b)
    BY <1>2
  <2> QED BY <2>1, <1>2, <1>3 DEF Range
<1>6. Range(b) \subseteq Range(u)
  <2> SUFFICES ASSUME NEW x \in 1..Len(b) PROVE b[x] \in Range(u)
    BY <1>2 DEF Range
  <2>1. Len(a) + x \in 1..Len(a) + Len(b)
    BY <1>2
  <2> QED BY <2>1, <1>2, <1>3 DEF Range
<1> QED BY <1>1, <1>2, <1>4, <1>5, <1>6

\* What is not found in two lists is in neither.
LEMMA FindInTwo ==
    ASSUME NEW s, NEW a \in Seq(Methods), NEW b \in Seq(Methods)
    PROVE  /\ FindSameNameAndSignature(s, a \o b) = NoMethod => Absent(s, a) /\ Absent(s, b)
           /\ FindSameNameAndSignature(s, a \o b) /= NoMethod =>
                  /\ FindSameNameAndSignature(s, a \o b) \in Range(a) \union Range(b)
                  /\ FindSameNameAndSignature(s, a \o b) \in Methods
                  /\ FindSameNameAndSignature(s, a \o b).sig = s
<1>1. PICK u : u = a \o b
  OBVIOUS
<1>2. u \in Seq(Methods) /\ Range(u) = Range(a) \union Range(b)
  BY <1>1, ConcatFacts
<1>3. ASSUME FindSameNameAndSignature(s, u) = NoMethod PROVE Absent(s, a) /\ Absent(s, b)
  <2>1. \A x \in DOMAIN u : u[x].sig /= s
    BY <1>2, <1>3, FindIs
  <2>2. \A m \in Range(u) : m.sig /= s
    BY <2>1 DEF Range
  <2>3. \A x \in 1..Len(a) : a[x] \in Range(u)
    BY <1>2, SeqFacts
  <2>4. \A x \in 1..Len(b) : b[x] \in Range(u)
    BY <1>2, SeqFacts
  <2> QED BY <2>2, <2>3, <2>4 DEF Absent
<1>4. ASSUME FindSameNameAndSignature(s, u) /= NoMethod
      PROVE  /\ FindSameNameAndSignature(s, u) \in Range(a) \union Range(b)
             /\ FindSameNameAndSignature(s, u) \in Methods
             /\ FindSameNameAndSignature(s, u).sig = s
  BY <1>2, <1>4, FindIs
<1> QED BY <1>1, <1>3, <1>4

----------------------------------------------------------------------------
\* FindMethod and GetOrCreateMirandaMethod.

\* The lists grow, nothing else changes.
Grown(h, g) ==
    /\ DOMAIN g = HelperFields /\ g.err = h.err /\ g.arrays = h.arrays
    /\ \A s \in Sigs : Absent(s, g.overridingConflict) => Absent(s, h.overridingConflict)
\* The helper and the interface method im with the vtable's method impl.
Finding(k, t, v, supt, h, im, impl) ==
    /\ Searchable(t) /\ DOMAIN h = HelperFields /\ Lists(k, t, v, supt, h)
    /\ im \in Methods /\ im.decl \in Range(t) /\ im.pub /\ ~im.conf
    /\ impl = NoMethod \/ (impl \in Methods /\ impl.sig = im.sig)
    /\ impl = NoMethod => ~InVtable(v, im.sig)
\* What FindMethod returns.
Found(k, t, v, supt, h, im, impl, g) ==
    LET r == FindDefaultMethodImplementation(im.sig, t) IN
    /\ Grown(h, g.h) /\ Lists(k, t, v, supt, g.h) /\ g.h.miranda = h.miranda
    /\ g.m = NoMethod \/ (g.m \in Methods /\ g.m.sig = im.sig)
    /\ g.m = NoMethod => r.res = "abstract" /\ (impl = NoMethod \/ ~(impl.abs /\ ~impl.conf))
    /\ r.res = "conflict" /\ InVtable(v, im.sig) /\ impl /= NoMethod /\ ~impl.conf =>
           ~Absent(im.sig, g.h.overridingConflict)

\* An element of a list has its signature there.
LEMMA NotAbsent ==
    ASSUME NEW list \in Seq(Methods), NEW m \in Range(list)
    PROVE  ~Absent(m.sig, list)
  BY SeqFacts DEF Absent
\* A longer list lacks less.
LEMMA AbsentAppend ==
    ASSUME NEW list \in Seq(Methods), NEW m \in Methods
    PROVE  /\ \A s \in Sigs : Absent(s, Append(list, m)) => Absent(s, list)
           /\ ~Absent(m.sig, Append(list, m))
<1>1. PICK u : u = Append(list, m)
  OBVIOUS
<1>2. /\ u \in Seq(Methods) /\ Len(u) = Len(list) + 1 /\ u[Len(list) + 1] = m /\ Len(list) \in Nat
      /\ \A x \in 1..Len(list) : u[x] = list[x]
  BY <1>1, AppendFacts DEF Prefix
<1>3. \A x \in 1..Len(list) : x \in 1..Len(u)
  BY <1>2
<1>4. Len(list) + 1 \in 1..Len(u)
  BY <1>2
<1> QED BY <1>1, <1>2, <1>3, <1>4 DEF Absent

\* The cases of FindMethod for a clash.
LEMMA FindConflict ==
    ASSUME NEW k, NEW t, NEW v, NEW supt, NEW h, NEW im, NEW impl, Finding(k, t, v, supt, h, im, impl),
           FindDefaultMethodImplementation(im.sig, t).res = "conflict"
    PROVE  Found(k, t, v, supt, h, im, impl, FindMethod(t, h, im, impl, FALSE))
<1>1. PICK r : r = FindDefaultMethodImplementation(im.sig, t)
  OBVIOUS
<1>2. PICK old : old = FindSameNameAndSignature(im.sig, h.conflict \o h.overridingConflict)
  OBVIOUS
<1>3. PICK fresh : fresh = [im EXCEPT !.own = "conflict"]
  OBVIOUS
<1>4. PICK g : g = FindMethod(t, h, im, impl, FALSE)
  OBVIOUS
<1>5. /\ im \in Methods /\ im.decl \in Range(t) /\ im.pub /\ ~im.conf /\ DOMAIN h = HelperFields
      /\ Lists(k, t, v, supt, h)
      /\ impl = NoMethod \/ (impl \in Methods /\ impl.sig = im.sig)
      /\ impl = NoMethod => ~InVtable(v, im.sig)
  BY DEF Finding
<1>6. /\ fresh \in Methods /\ fresh.sig = im.sig /\ fresh.own = "conflict" /\ fresh.decl = im.decl
      /\ fresh.pub = im.pub /\ fresh.conf = im.conf
  BY <1>3, <1>5 DEF Methods
<1>7. fresh /= NoMethod
  BY <1>6, NoMethodIsNone
<1>8. ConflictWell(t, fresh)
  BY <1>5, <1>6 DEF ConflictWell
<1>9. g = CASE impl /= NoMethod /\ (impl /= NoMethod => impl.conf) -> [h |-> h, m |-> impl]
            [] (impl /= NoMethod => ~impl.conf) /\ old /= NoMethod -> [h |-> h, m |-> old]
            [] (impl /= NoMethod => ~impl.conf) /\ old = NoMethod ->
                 [h |-> IF impl /= NoMethod THEN [h EXCEPT !.overridingConflict = Append(@, fresh)]
                        ELSE [h EXCEPT !.conflict = Append(@, fresh)],
                  m |-> fresh]
  BY <1>2, <1>3, <1>4 DEF FindMethod
<1>10. /\ h.conflict \in Seq(Methods) /\ h.overridingConflict \in Seq(Methods)
       /\ ConflictList(t, v, h.conflict) /\ OverridingConflictList(t, h.overridingConflict)
  BY <1>5 DEF Lists, ConflictList, OverridingConflictList
<1>11. /\ old = NoMethod => Absent(im.sig, h.conflict) /\ Absent(im.sig, h.overridingConflict)
       /\ old /= NoMethod => /\ old \in Range(h.conflict) \union Range(h.overridingConflict)
                             /\ old \in Methods /\ old.sig = im.sig
  BY <1>2, <1>10, FindInTwo
<1>12. Grown(h, h)
  BY <1>5 DEF Grown
<1>13. CASE impl /= NoMethod /\ impl.conf
  <2>1. g = [h |-> h, m |-> impl]
    BY <1>9, <1>13
  <2>2. g.h = h /\ g.m = impl
    BY <2>1
  <2> QED BY <2>2, <1>4, <1>5, <1>12, <1>13 DEF Found
<1>14. CASE (impl /= NoMethod => ~impl.conf) /\ old /= NoMethod
  <2>1. g = [h |-> h, m |-> old]
    BY <1>9, <1>14
  <2>2. ASSUME InVtable(v, im.sig) PROVE ~Absent(im.sig, h.overridingConflict)
    <3>1. old \notin Range(h.conflict)
      BY <2>2, <1>10, <1>11, <1>14 DEF ConflictList
    <3> QED BY <3>1, <1>10, <1>11, <1>14, NotAbsent
  <2>3. g.h = h /\ g.m = old
    BY <2>1
  <2> QED BY <2>2, <2>3, <1>4, <1>5, <1>11, <1>12, <1>14 DEF Found
<1>15. CASE (impl /= NoMethod => ~impl.conf) /\ old = NoMethod /\ impl /= NoMethod
  <2>1. g = [h |-> [h EXCEPT !.overridingConflict = Append(@, fresh)], m |-> fresh]
    BY <1>9, <1>15
  <2>2. PICK e : e = [h EXCEPT !.overridingConflict = Append(@, fresh)]
    OBVIOUS
  <2>3. /\ DOMAIN e = HelperFields /\ e.err = h.err /\ e.arrays = h.arrays /\ e.miranda = h.miranda
        /\ e.default = h.default /\ e.overridingDefault = h.overridingDefault /\ e.conflict = h.conflict
        /\ e.overridingConflict = Append(h.overridingConflict, fresh)
    BY <2>2, <1>5 DEF HelperFields
  <2>4. OverridingConflictList(t, e.overridingConflict)
    BY <2>3, <1>6, <1>8, <1>10, OverridingAppend
  <2>5. Lists(k, t, v, supt, e)
    BY <2>3, <2>4, <1>5 DEF Lists
  <2>6. /\ \A s \in Sigs : Absent(s, e.overridingConflict) => Absent(s, h.overridingConflict)
        /\ ~Absent(im.sig, e.overridingConflict)
    BY <2>3, <1>6, <1>10, AbsentAppend
  <2>7. g.h = e /\ g.m = fresh
    BY <2>1, <2>2
  <2> QED BY <2>3, <2>5, <2>6, <2>7, <1>4, <1>6, <1>7 DEF Found, Grown
<1>16. CASE impl = NoMethod /\ old = NoMethod
  <2>1. g = [h |-> [h EXCEPT !.conflict = Append(@, fresh)], m |-> fresh]
    BY <1>9, <1>16
  <2>2. PICK e : e = [h EXCEPT !.conflict = Append(@, fresh)]
    OBVIOUS
  <2>3. /\ DOMAIN e = HelperFields /\ e.err = h.err /\ e.arrays = h.arrays /\ e.miranda = h.miranda
        /\ e.default = h.default /\ e.overridingDefault = h.overridingDefault
        /\ e.conflict = Append(h.conflict, fresh) /\ e.overridingConflict = h.overridingConflict
    BY <2>2, <1>5 DEF HelperFields
  <2>4. ConflictList(t, v, e.conflict)
    <3>1. Absent(fresh.sig, h.conflict) /\ ~InVtable(v, fresh.sig)
      BY <1>5, <1>6, <1>11, <1>16
    <3> QED BY <3>1, <2>3, <1>6, <1>8, <1>10, ConflictAppend
  <2>5. Lists(k, t, v, supt, e)
    BY <2>3, <2>4, <1>5 DEF Lists
  <2>7. g.h = e /\ g.m = fresh
    BY <2>1, <2>2
  <2> QED BY <2>3, <2>5, <2>7, <1>4, <1>6, <1>7, <1>16 DEF Found, Grown
<1> QED BY <1>13, <1>14, <1>15, <1>16

\* The cases of FindMethod when one default method is in effect.
LEMMA FindDefault ==
    ASSUME NEW k, NEW t, NEW v, NEW supt, NEW h, NEW im, NEW impl, Finding(k, t, v, supt, h, im, impl),
           FindDefaultMethodImplementation(im.sig, t).res = "found"
    PROVE  Found(k, t, v, supt, h, im, impl, FindMethod(t, h, im, impl, FALSE))
<1>1. PICK r : r = FindDefaultMethodImplementation(im.sig, t)
  OBVIOUS
<1>2. PICK old : old = FindSameNameAndSignature(im.sig, h.default \o h.overridingDefault)
  OBVIOUS
<1>4. PICK g : g = FindMethod(t, h, im, impl, FALSE)
  OBVIOUS
<1>5. /\ DOMAIN h = HelperFields /\ Lists(k, t, v, supt, h) /\ Searchable(t)
      /\ impl = NoMethod \/ (impl \in Methods /\ impl.sig = im.sig)
      /\ impl = NoMethod => ~InVtable(v, im.sig)
  BY DEF Finding
<1>6. r.m \in Methods /\ r.m.sig = im.sig /\ r.res = "found"
  BY <1>1, <1>5, SearchFacts
<1>7. r.m /= NoMethod
  BY <1>6, NoMethodIsNone
<1>8. DefaultWell(t, r.m)
  BY <1>1, <1>6 DEF DefaultWell
<1>9. g = CASE impl /= NoMethod /\ (impl /= NoMethod => impl.decl = r.m.decl) -> [h |-> h, m |-> impl]
            [] (impl /= NoMethod => impl.decl /= r.m.decl) ->
                 [h |-> IF old = r.m THEN h
                        ELSE IF old /= NoMethod THEN [h EXCEPT !.err = "CHECK: default"]
                        ELSE IF impl /= NoMethod THEN [h EXCEPT !.overridingDefault = Append(@, r.m)]
                        ELSE [h EXCEPT !.default = Append(@, r.m)],
                  m |-> r.m]
  BY <1>1, <1>2, <1>4, <1>6 DEF FindMethod
<1>10. /\ h.default \in Seq(Methods) /\ h.overridingDefault \in Seq(Methods)
       /\ DefaultList(t, v, h.default) /\ OverridingDefaultList(t, h.overridingDefault)
  BY <1>5 DEF Lists, DefaultList, OverridingDefaultList
<1>11. /\ old = NoMethod => Absent(im.sig, h.default)
       /\ old /= NoMethod => /\ old \in Range(h.default) \union Range(h.overridingDefault)
                             /\ old.sig = im.sig
  BY <1>2, <1>10, FindInTwo
<1>12. Grown(h, h)
  BY <1>5 DEF Grown
<1>13. old /= NoMethod => old = r.m
  <2>1. old /= NoMethod => DefaultWell(t, old)
    BY <1>10, <1>11 DEF DefaultList, OverridingDefaultList
  <2> QED BY <2>1, <1>1, <1>11 DEF DefaultWell
<1>14. CASE impl /= NoMethod /\ impl.decl = r.m.decl
  <2>1. g = [h |-> h, m |-> impl]
    BY <1>9, <1>14
  <2>2. g.h = h /\ g.m = impl
    BY <2>1
  <2> QED BY <2>2, <1>1, <1>4, <1>5, <1>6, <1>12, <1>14 DEF Found
<1>15. CASE (impl /= NoMethod => impl.decl /= r.m.decl) /\ old = r.m
  <2>1. g = [h |-> h, m |-> r.m]
    BY <1>9, <1>15
  <2>2. g.h = h /\ g.m = r.m
    BY <2>1
  <2> QED BY <2>2, <1>1, <1>4, <1>5, <1>6, <1>7, <1>12 DEF Found
<1>16. CASE (impl /= NoMethod => impl.decl /= r.m.decl) /\ old /= r.m /\ impl /= NoMethod
  <2>1. g = [h |-> [h EXCEPT !.overridingDefault = Append(@, r.m)], m |-> r.m]
    BY <1>9, <1>13, <1>16
  <2>2. PICK e : e = [h EXCEPT !.overridingDefault = Append(@, r.m)]
    OBVIOUS
  <2>3. /\ DOMAIN e = HelperFields /\ e.err = h.err /\ e.arrays = h.arrays /\ e.miranda = h.miranda
        /\ e.default = h.default /\ e.overridingDefault = Append(h.overridingDefault, r.m)
        /\ e.conflict = h.conflict /\ e.overridingConflict = h.overridingConflict
    BY <2>2, <1>5 DEF HelperFields
  <2>4. OverridingDefaultList(t, e.overridingDefault)
    BY <2>3, <1>6, <1>8, <1>10, OverridingAppend
  <2>5. Lists(k, t, v, supt, e)
    BY <2>3, <2>4, <1>5 DEF Lists
  <2>7. g.h = e /\ g.m = r.m
    BY <2>1, <2>2
  <2> QED BY <2>3, <2>5, <2>7, <1>1, <1>4, <1>6, <1>7 DEF Found, Grown
<1>17. CASE old /= r.m /\ impl = NoMethod
  <2>1. g = [h |-> [h EXCEPT !.default = Append(@, r.m)], m |-> r.m]
    BY <1>9, <1>13, <1>17
  <2>2. PICK e : e = [h EXCEPT !.default = Append(@, r.m)]
    OBVIOUS
  <2>3. /\ DOMAIN e = HelperFields /\ e.err = h.err /\ e.arrays = h.arrays /\ e.miranda = h.miranda
        /\ e.default = Append(h.default, r.m) /\ e.overridingDefault = h.overridingDefault
        /\ e.conflict = h.conflict /\ e.overridingConflict = h.overridingConflict
    BY <2>2, <1>5 DEF HelperFields
  <2>4. DefaultList(t, v, e.default)
    <3>1. Absent(r.m.sig, h.default) /\ ~InVtable(v, r.m.sig)
      BY <1>5, <1>6, <1>11, <1>13, <1>17
    <3> QED BY <3>1, <2>3, <1>6, <1>8, <1>10, DefaultAppend
  <2>5. Lists(k, t, v, supt, e)
    BY <2>3, <2>4, <1>5 DEF Lists
  <2>7. g.h = e /\ g.m = r.m
    BY <2>1, <2>2
  <2> QED BY <2>3, <2>5, <2>7, <1>1, <1>4, <1>6, <1>7 DEF Found, Grown
<1> QED BY <1>14, <1>15, <1>16, <1>17

\* FindMethod keeps the lists; it returns no method only when no default is in effect.
LEMMA FindMethodIs ==
    ASSUME NEW k, NEW t, NEW v, NEW supt, NEW h, NEW im, NEW impl, Finding(k, t, v, supt, h, im, impl)
    PROVE  Found(k, t, v, supt, h, im, impl, FindMethod(t, h, im, impl, FALSE))
<1>1. Searchable(t)
  BY DEF Finding
<1>2. PICK r : r = FindDefaultMethodImplementation(im.sig, t)
  OBVIOUS
<1>3. r.res \in {"abstract", "found", "conflict"}
  BY <1>1, <1>2, SearchFacts
<1>4. CASE r.res = "abstract"
  <2>1. PICK g : g = FindMethod(t, h, im, impl, FALSE)
    OBVIOUS
  <2>2. g = [h |-> h, m |-> IF impl /= NoMethod /\ (impl /= NoMethod => impl.abs /\ ~impl.conf)
                            THEN impl ELSE NoMethod]
    BY <1>2, <1>4, <2>1 DEF FindMethod
  <2>3. g.h = h /\ g.m = IF impl /= NoMethod /\ (impl.abs /\ ~impl.conf) THEN impl ELSE NoMethod
    BY <2>2
  <2> QED BY <1>2, <1>4, <2>1, <2>3 DEF Found, Grown, Finding
<1> QED BY <1>2, <1>3, <1>4, FindConflict, FindDefault

----------------------------------------------------------------------------
\* LinkInterfaceMethod.

\* The method arrays of the helper: what the superclass had is there.
HelperArrays(t, supt, h) ==
    /\ DOMAIN h.arrays = 1..Len(t)
    /\ \A i \in 1..Len(t) :
           /\ DOMAIN h.arrays[i] = DOMAIN cls[t[i]].decl
           /\ \A j \in DOMAIN cls[t[i]].decl :
                  /\ \/ h.arrays[i][j] = NoMethod
                     \/ h.arrays[i][j] \in Methods /\ h.arrays[i][j].sig = cls[t[i]].decl[j].sig
                  /\ i <= Len(supt) => h.arrays[i][j] /= NoMethod
HelperOK(k, d, t, v, h) ==
    /\ DOMAIN h = HelperFields /\ h.err \in {"none", "IllegalAccessError"}
    /\ Lists(k, t, v, cls[d.super].iftable, h) /\ HelperArrays(t, cls[d.super].iftable, h)
\* An entry of signature s was kept, which now is to become a conflict method.
ClashKept(sup, t, v, s) ==
    \E x \in 1..Len(sup) : Kept(sup, v, x) /\ sup[x].sig = s /\ ~sup[x].conf /\ Clash(cls, s, t)
\* The j-th method of the i-th interface is linked.
Done(d, t, v, h, i, j) == h.err = "none" =>
    /\ h.arrays[i][j] /= NoMethod
    /\ i > Len(cls[d.super].iftable) /\ ClashKept(cls[d.super].vtable, t, v, cls[t[i]].decl[j].sig) =>
           ~Absent(cls[t[i]].decl[j].sig, h.overridingConflict)
\* g is a later state of the helper than h.
Later(t, h, g) ==
    /\ g.err = "none" => h.err = "none"
    /\ \A i \in 1..Len(t) : \A j \in DOMAIN cls[t[i]].decl : h.arrays[i][j] /= NoMethod => g.arrays[i][j] /= NoMethod
    /\ \A s \in Sigs : Absent(s, g.overridingConflict) => Absent(s, h.overridingConflict)

\* What the linker knows of a method of an interface in the table.
LEMMA InterfaceMethod ==
    ASSUME NEW k, NEW d, NEW t, Linking(k, d, t), NEW i \in 1..Len(t), NEW j \in DOMAIN cls[t[i]].decl
    PROVE  /\ cls[t[i]].decl[j] \in Methods /\ cls[t[i]].decl[j].sig \in Sigs
           /\ cls[t[i]].decl[j].decl = t[i] /\ t[i] \in Range(t)
           /\ cls[t[i]].decl[j].pub /\ ~cls[t[i]].decl[j].conf
<1>1. TableOrdered(cls, t) /\ Good(cls)
  BY DEF Linking
<1>2. t \in Seq(Names)
  BY <1>1 DEF TableOrdered
<1>3. t[i] \in Range(t)
  BY <1>2, SeqFacts
<1>4. t[i] \in Linked(cls) /\ cls[t[i]].iface
  BY <1>1, <1>3 DEF TableOrdered
<1>5. DeclaresWell(cls, t[i])
  BY <1>1, <1>4 DEF Good, GoodClass
<1>6. cls[t[i]].decl[j] \in Methods
  BY <1>5 DEF DeclaresWell
<1>7. cls[t[i]].decl[j].sig \in Sigs
  BY <1>6 DEF Methods
<1> QED BY <1>3, <1>4, <1>5, <1>6, <1>7 DEF DeclaresWell

\* What is done stays done.
LEMMA DoneLater ==
    ASSUME NEW k, NEW d, NEW t, Linking(k, d, t), NEW v, NEW h, NEW g, Later(t, h, g),
           NEW i \in 1..Len(t), NEW j \in DOMAIN cls[t[i]].decl, Done(d, t, v, h, i, j)
    PROVE  Done(d, t, v, g, i, j)
<1>1. cls[t[i]].decl[j].sig \in Sigs
  BY InterfaceMethod
<1> QED BY <1>1 DEF Done, Later

\* The order of the helper's states is transitive.
LEMMA LaterTrans ==
    ASSUME NEW t, NEW h, NEW g, NEW e, Later(t, h, g), Later(t, g, e)
    PROVE  Later(t, h, e)
  BY DEF Later

\* Record changes one element of the method arrays.
LEMMA RecordIs ==
    ASSUME NEW k, NEW d, NEW t, NEW v, NEW h, HelperOK(k, d, t, v, h),
           NEW i \in 1..Len(t), NEW j \in DOMAIN cls[t[i]].decl,
           NEW m \in Methods, m.sig = cls[t[i]].decl[j].sig
    PROVE  /\ HelperOK(k, d, t, v, Record(h, i, j, m)) /\ Later(t, h, Record(h, i, j, m))
           /\ Record(h, i, j, m).arrays[i][j] /= NoMethod
           /\ Record(h, i, j, m).overridingConflict = h.overridingConflict
<1>1. PICK g : g = Record(h, i, j, m)
  OBVIOUS
<1>2. DOMAIN h = HelperFields /\ HelperArrays(t, cls[d.super].iftable, h)
  BY DEF HelperOK
<1>3. /\ DOMAIN g = HelperFields /\ g.err = h.err /\ g.miranda = h.miranda /\ g.default = h.default
      /\ g.overridingDefault = h.overridingDefault /\ g.conflict = h.conflict
      /\ g.overridingConflict = h.overridingConflict
      /\ g.arrays = [h.arrays EXCEPT ![i][j] = m]
  BY <1>1, <1>2 DEF Record, HelperFields
<1>4. i \in DOMAIN h.arrays /\ j \in DOMAIN h.arrays[i]
  BY <1>2 DEF HelperArrays
<1>5. /\ DOMAIN g.arrays = DOMAIN h.arrays /\ DOMAIN g.arrays[i] = DOMAIN h.arrays[i] /\ g.arrays[i][j] = m
      /\ \A x \in DOMAIN h.arrays : x /= i => g.arrays[x] = h.arrays[x]
      /\ \A y \in DOMAIN h.arrays[i] : y /= j => g.arrays[i][y] = h.arrays[i][y]
  BY <1>3, <1>4
<1>6. m /= NoMethod
  BY NoMethodIsNone
<1>7. HelperArrays(t, cls[d.super].iftable, g)
  <2>1. DOMAIN g.arrays = 1..Len(t)
    BY <1>2, <1>5 DEF HelperArrays
  <2>2. ASSUME NEW x \in 1..Len(t)
        PROVE  /\ DOMAIN g.arrays[x] = DOMAIN cls[t[x]].decl
               /\ \A y \in DOMAIN cls[t[x]].decl :
                    /\ \/ g.arrays[x][y] = NoMethod
                       \/ g.arrays[x][y] \in Methods /\ g.arrays[x][y].sig = cls[t[x]].decl[y].sig
                    /\ x <= Len(cls[d.super].iftable) => g.arrays[x][y] /= NoMethod
    <3>1. CASE x /= i
      BY <3>1, <1>2, <1>5 DEF HelperArrays
    <3>2. CASE x = i
      <4>1. DOMAIN g.arrays[x] = DOMAIN cls[t[x]].decl
        BY <3>2, <1>2, <1>5 DEF HelperArrays
      <4>2. ASSUME NEW y \in DOMAIN cls[t[x]].decl
            PROVE  /\ \/ g.arrays[x][y] = NoMethod
                      \/ g.arrays[x][y] \in Methods /\ g.arrays[x][y].sig = cls[t[x]].decl[y].sig
                   /\ x <= Len(cls[d.super].iftable) => g.arrays[x][y] /= NoMethod
        <5>1. CASE y = j
          BY <5>1, <3>2, <1>5, <1>6
        <5>2. CASE y /= j
          <6>1. g.arrays[x][y] = h.arrays[x][y]
            BY <5>2, <3>2, <1>2, <1>5 DEF HelperArrays
          <6> QED BY <6>1, <1>2 DEF HelperArrays
        <5> QED BY <5>1, <5>2
      <4> QED BY <4>1, <4>2
    <3> QED BY <3>1, <3>2
  <2> QED BY <2>1, <2>2 DEF HelperArrays
<1>8. HelperOK(k, d, t, v, g)
  BY <1>3, <1>7 DEF HelperOK, Lists
<1>9. Later(t, h, g)
  <2>1. ASSUME NEW x \in 1..Len(t), NEW y \in DOMAIN cls[t[x]].decl, h.arrays[x][y] /= NoMethod
        PROVE  g.arrays[x][y] /= NoMethod
    <3>1. x \in DOMAIN h.arrays /\ y \in DOMAIN h.arrays[x]
      BY <1>2 DEF HelperArrays
    <3> QED BY <3>1, <2>1, <1>5, <1>6
  <2> QED BY <2>1, <1>3 DEF Later
<1> QED BY <1>1, <1>3, <1>5, <1>6, <1>8, <1>9

\* LastOf returns the last method of that signature, if there is one.
LEMMA LastIs ==
    ASSUME NEW s, NEW list \in Seq(Methods)
    PROVE  \/ LastOf(s, list) = NoMethod /\ \A x \in 1..Len(list) : list[x].sig /= s
           \/ \E x \in 1..Len(list) : /\ LastOf(s, list) = list[x] /\ list[x].sig = s
                                      /\ LastOf(s, list) \in Methods /\ LastOf(s, list) /= NoMethod
                                      /\ \A y \in 1..Len(list) : y > x => list[y].sig /= s
<1>1. Len(list) \in Nat /\ DOMAIN list = 1..Len(list)
  OBVIOUS
<1>2. PICK hits : hits = {x \in DOMAIN list : list[x].sig = s}
  OBVIOUS
<1>3. LastOf(s, list) = IF hits = {} THEN NoMethod ELSE list[Max(hits)]
  BY <1>2 DEF LastOf
<1>4. CASE hits = {}
  BY <1>1, <1>2, <1>3, <1>4
<1>5. CASE hits /= {}
  <2>1. hits \subseteq 0..Len(list)
    BY <1>1, <1>2
  <2>2. PICK x \in hits : x = Max(hits) /\ \A y \in hits : y <= x
    BY <1>1, <1>5, <2>1, MaxIs
  <2>3. x \in 1..Len(list) /\ list[x].sig = s /\ LastOf(s, list) = list[x]
    BY <1>1, <1>2, <1>3, <1>5, <2>2
  <2>4. list[x] \in Methods /\ list[x] /= NoMethod
    BY <2>3, NoMethodIsNone
  <2>5. \A y \in 1..Len(list) : y > x => list[y].sig /= s
    <3> SUFFICES ASSUME NEW y \in 1..Len(list), y > x, list[y].sig = s PROVE FALSE
      OBVIOUS
    <3>1. y \in hits
      BY <1>1, <1>2
    <3> QED BY <3>1, <2>2, <2>3
  <2> QED BY <2>3, <2>4, <2>5
<1> QED BY <1>4, <1>5

\* GetOrCreateMirandaMethod keeps the lists.
Created(k, t, v, supt, h, im, g) ==
    /\ Grown(h, g.h) /\ Lists(k, t, v, supt, g.h)
    /\ g.m \in Methods /\ g.m.sig = im.sig /\ g.h.overridingConflict = h.overridingConflict
\* A miranda method for im is in order.
MirandaMay(k, t, v, supt, im) ==
    /\ im \in Methods /\ im.decl \in Range(t) /\ im.pub /\ ~im.conf
    /\ FindDefaultMethodImplementation(im.sig, t).res = "abstract" /\ Len(supt) < Len(t)
    /\ \A x \in 1..Len(v.vtable) : LastEntry(v, im.sig, x) =>
           /\ v.vtable[x].decl /= k /\ IsOverridableByDefaultMethod(v.vtable[x])
           /\ ~(v.vtable[x].abs /\ ~v.vtable[x].conf)
\* The miranda method that is there, or a new one.
LEMMA MirandaIs ==
    ASSUME NEW k, NEW t, NEW v, NEW supt, NEW h, NEW im, DOMAIN h = HelperFields,
           Lists(k, t, v, supt, h), MirandaMay(k, t, v, supt, im)
    PROVE  Created(k, t, v, supt, h, im, GetOrCreateMirandaMethod(h, im))
<1>1. PICK old : old = FindSameNameAndSignature(im.sig, h.miranda)
  OBVIOUS
<1>2. PICK fresh : fresh = [im EXCEPT !.own = "miranda"]
  OBVIOUS
<1>3. PICK g : g = GetOrCreateMirandaMethod(h, im)
  OBVIOUS
<1>4. g = IF old /= NoMethod THEN [h |-> h, m |-> old]
          ELSE [h |-> [h EXCEPT !.miranda = Append(@, fresh)], m |-> fresh]
  BY <1>1, <1>2, <1>3 DEF GetOrCreateMirandaMethod
<1>5. h.miranda \in Seq(Methods) /\ MirandaList(k, t, v, supt, h.miranda) /\ im \in Methods
  BY DEF Lists, MirandaList, MirandaMay
<1>6. \/ old \in Methods /\ old.sig = im.sig /\ old /= NoMethod
      \/ old = NoMethod /\ \A x \in DOMAIN h.miranda : h.miranda[x].sig /= im.sig
  BY <1>1, <1>5, FindIs
<1>7. CASE old /= NoMethod
  <2>1. g = [h |-> h, m |-> old]
    BY <1>4, <1>7
  <2>2. g.h = h /\ g.m = old
    BY <2>1
  <2> QED BY <2>2, <1>3, <1>6, <1>7 DEF Created, Grown
<1>8. CASE old = NoMethod
  <2>1. g = [h |-> [h EXCEPT !.miranda = Append(@, fresh)], m |-> fresh]
    BY <1>4, <1>8
  <2>2. PICK e : e = [h EXCEPT !.miranda = Append(@, fresh)]
    OBVIOUS
  <2>3. /\ DOMAIN e = HelperFields /\ e.err = h.err /\ e.arrays = h.arrays
        /\ e.miranda = Append(h.miranda, fresh)
        /\ e.default = h.default /\ e.overridingDefault = h.overridingDefault
        /\ e.conflict = h.conflict /\ e.overridingConflict = h.overridingConflict
    BY <2>2 DEF HelperFields
  <2>4. /\ fresh \in Methods /\ fresh.sig = im.sig /\ fresh.own = "miranda" /\ fresh.decl = im.decl
        /\ fresh.pub = im.pub /\ fresh.conf = im.conf
    BY <1>2, <1>5 DEF Methods
  <2>5. MirandaWell(k, t, v, supt, fresh)
    BY <2>4 DEF MirandaWell, MirandaMay
  <2>6. Absent(fresh.sig, h.miranda)
    BY <1>5, <1>6, <1>8, <2>4 DEF Absent
  <2>7. MirandaList(k, t, v, supt, e.miranda)
    BY <2>3, <2>4, <2>5, <2>6, <1>5, MirandaAppend
  <2>8. Lists(k, t, v, supt, e)
    BY <2>3, <2>7 DEF Lists
  <2>9. g.h = e /\ g.m = fresh
    BY <2>1, <2>2
  <2> QED BY <2>3, <2>4, <2>8, <2>9, <1>3 DEF Created, Grown
<1> QED BY <1>7, <1>8

\* What one interface method does to the helper.
Linked1(k, d, t, v, h, i, j, g) == HelperOK(k, d, t, v, g) /\ Later(t, h, g) /\ Done(d, t, v, g, i, j)

\* Longer lists leave the helper in order.
LEMMA GrownIs ==
    ASSUME NEW k, NEW d, NEW t, NEW v, NEW h, HelperOK(k, d, t, v, h), NEW g, Grown(h, g),
           Lists(k, t, v, cls[d.super].iftable, g)
    PROVE  HelperOK(k, d, t, v, g) /\ Later(t, h, g)
  BY DEF HelperOK, Grown, Later, HelperArrays

\* An error leaves the helper in order.
LEMMA ErrorIs ==
    ASSUME NEW k, NEW d, NEW t, NEW v, NEW h, HelperOK(k, d, t, v, h), h.err = "none", NEW i, NEW j
    PROVE  Linked1(k, d, t, v, h, i, j, [h EXCEPT !.err = "IllegalAccessError"])
<1>1. PICK g : g = [h EXCEPT !.err = "IllegalAccessError"]
  OBVIOUS
<1>2. /\ DOMAIN g = HelperFields /\ g.err = "IllegalAccessError" /\ g.arrays = h.arrays
      /\ g.miranda = h.miranda /\ g.default = h.default /\ g.overridingDefault = h.overridingDefault
      /\ g.conflict = h.conflict /\ g.overridingConflict = h.overridingConflict
  BY <1>1 DEF HelperOK, HelperFields
<1>3. HelperOK(k, d, t, v, g)
  BY <1>2 DEF HelperOK, Lists, HelperArrays
<1>4. Later(t, h, g) /\ Done(d, t, v, g, i, j)
  BY <1>2 DEF Later, Done
<1> QED BY <1>1, <1>3, <1>4 DEF Linked1

\* A method of an interface that the superclass has.
LEMMA SuperMethodIs ==
    ASSUME NEW k, NEW d, NEW t, Linking(k, d, t), ~d.iface, NEW v, NEW h, HelperOK(k, d, t, v, h),
           NEW i \in 1..Len(t), NEW j \in DOMAIN cls[t[i]].decl, i <= Len(cls[d.super].iftable)
    PROVE  Linked1(k, d, t, v, h, i, j, LinkInterfaceMethod(k, d, v, t, h, i, j))
<1>1. PICK im : im = cls[t[i]].decl[j]
  OBVIOUS
<1>2. PICK supt : supt = cls[d.super].iftable
  OBVIOUS
<1>3. PICK hit : hit = LastOf(im.sig, Declared(k, d))
  OBVIOUS
<1>4. PICK was : was = h.arrays[i][j]
  OBVIOUS
<1>5. PICK found : found = FindMethod(t, h, im, was, FALSE)
  OBVIOUS
<1>6. PICK g : g = LinkInterfaceMethod(k, d, v, t, h, i, j)
  OBVIOUS
<1>7. k \in Range(Order) /\ d \in Defs[k] /\ Good(cls) /\ TableOrdered(cls, t)
  BY DEF Linking
<1>8. g = IF h.err /= "none" THEN h
          ELSE IF hit /= NoMethod /\ ~hit.abs /\ ~hit.pub THEN [h EXCEPT !.err = "IllegalAccessError"]
          ELSE IF hit /= NoMethod /\ ~OverridableIn(k, d, hit) THEN Record(h, i, j, hit)
          ELSE IF ~OverridableIn(k, d, was) THEN h
          ELSE IF found.m = NoMethod THEN found.h
          ELSE Record(found.h, i, j, found.m)
  <2>1. d.iface = FALSE
    <3>1. d.iface \in BOOLEAN
      BY <1>7, LinkAssumption DEF Definitions
    <3> QED BY <3>1
  <2>2. FindOrCreate(d, t, h, im, was, TRUE) = found
    BY <1>5, <2>1 DEF FindOrCreate
  <2>3. g = Implement(k, d, h, i, j, TRUE, hit, found)
    BY <1>1, <1>3, <1>4, <1>6, <2>2 DEF LinkInterfaceMethod
  <2> QED BY <1>4, <2>1, <2>3 DEF Implement
<1>9. im \in Methods /\ im.decl \in Range(t) /\ im.pub /\ ~im.conf /\ im.sig \in Sigs
  <2>1. /\ cls[t[i]].decl[j] \in Methods /\ cls[t[i]].decl[j].sig \in Sigs
        /\ cls[t[i]].decl[j].decl = t[i] /\ t[i] \in Range(t)
        /\ cls[t[i]].decl[j].pub /\ ~cls[t[i]].decl[j].conf
    BY InterfaceMethod
  <2> QED BY <2>1, <1>1
<1>10. was \in Methods /\ was /= NoMethod /\ was.sig = im.sig
  BY <1>1, <1>2, <1>4 DEF HelperOK, HelperArrays
<1>11. hit = NoMethod \/ (hit \in Methods /\ hit.sig = im.sig)
  <2>1. Declared(k, d) \in Seq(Methods)
    BY <1>7, DeclaredIs
  <2> QED BY <2>1, <1>3, LastIs
<1>12. Found(k, t, v, supt, h, im, was, found)
  <2>1. Searchable(t)
    BY <1>7, TableSearchable
  <2>2. DOMAIN h = HelperFields /\ Lists(k, t, v, supt, h)
    BY <1>2 DEF HelperOK
  <2>3. Finding(k, t, v, supt, h, im, was)
    BY <1>9, <1>10, <2>1, <2>2 DEF Finding
  <2> QED BY <2>3, <1>5, FindMethodIs
<1>13. HelperOK(k, d, t, v, found.h) /\ Later(t, h, found.h)
  <2>1. Grown(h, found.h) /\ Lists(k, t, v, supt, found.h)
    BY <1>12 DEF Found
  <2> QED BY <2>1, <1>2, GrownIs
<1>14. CASE h.err /= "none"
  <2>1. g = h
    BY <1>8, <1>14
  <2> QED BY <2>1, <1>6, <1>14 DEF Linked1, Later, Done
<1>15. CASE h.err = "none" /\ g = [h EXCEPT !.err = "IllegalAccessError"]
  BY <1>6, <1>15, ErrorIs
<1>16. CASE hit /= NoMethod /\ g = Record(h, i, j, hit)
  <2>1. HelperOK(k, d, t, v, g) /\ Later(t, h, g) /\ g.arrays[i][j] /= NoMethod
    BY <1>1, <1>11, <1>16, RecordIs
  <2> QED BY <2>1, <1>2, <1>6 DEF Linked1, Done
<1>17. CASE g = h
  <2>1. Done(d, t, v, g, i, j)
    BY <1>4, <1>10, <1>17 DEF Done
  <2> QED BY <2>1, <1>6, <1>17 DEF Linked1, Later
<1>18. CASE g = found.h
  <2>1. g.arrays[i][j] /= NoMethod
    BY <1>4, <1>10, <1>13, <1>18 DEF Later
  <2>2. Done(d, t, v, g, i, j)
    BY <2>1 DEF Done
  <2> QED BY <2>2, <1>6, <1>13, <1>18 DEF Linked1
<1>19. CASE found.m /= NoMethod /\ g = Record(found.h, i, j, found.m)
  <2>1. found.m \in Methods /\ found.m.sig = im.sig
    BY <1>12, <1>19 DEF Found
  <2>2. HelperOK(k, d, t, v, g) /\ Later(t, found.h, g) /\ g.arrays[i][j] /= NoMethod
    BY <1>1, <1>13, <1>19, <2>1, RecordIs
  <2>3. Later(t, h, g)
    BY <1>13, <2>2, LaterTrans
  <2>4. Done(d, t, v, g, i, j)
    BY <2>2 DEF Done
  <2> QED BY <2>2, <2>3, <2>4, <1>6 DEF Linked1
<1> QED BY <1>8, <1>14, <1>15, <1>16, <1>17, <1>18, <1>19

\* A method of an interface that is new in the class.
LEMMA NewMethodIs ==
    ASSUME NEW k, NEW d, NEW t, Linking(k, d, t), ~d.iface, NEW v, Virtual(k, d, t, v),
           NEW h, HelperOK(k, d, t, v, h),
           NEW i \in 1..Len(t), NEW j \in DOMAIN cls[t[i]].decl, i > Len(cls[d.super].iftable)
    PROVE  Linked1(k, d, t, v, h, i, j, LinkInterfaceMethod(k, d, v, t, h, i, j))
<1>1. PICK im : im = cls[t[i]].decl[j]
  OBVIOUS
<1>2. PICK supt : supt = cls[d.super].iftable
  OBVIOUS
<1>3. PICK hit : hit = LastOf(im.sig, v.vtable)
  OBVIOUS
<1>4. PICK sup : sup = cls[d.super].vtable
  OBVIOUS
<1>5. PICK got : got = FindMethod(t, h, im, hit, FALSE)
  OBVIOUS
<1>6. PICK g : g = LinkInterfaceMethod(k, d, v, t, h, i, j)
  OBVIOUS
<1>7. k \in Range(Order) /\ k \notin DOMAIN cls /\ d \in Defs[k] /\ Good(cls) /\ TableOrdered(cls, t)
  BY DEF Linking
<1>f. d.iface = FALSE
  <2>1. d.iface \in BOOLEAN
    BY <1>7, LinkAssumption DEF Definitions
  <2> QED BY <2>1
<1>8. PICK found : found = IF got.m = NoMethod THEN GetOrCreateMirandaMethod(got.h, im) ELSE got
  OBVIOUS
<1>9. g = IF h.err /= "none" THEN h
          ELSE IF hit /= NoMethod /\ ~hit.abs /\ ~hit.pub THEN [h EXCEPT !.err = "IllegalAccessError"]
          ELSE IF hit /= NoMethod /\ ~OverridableIn(k, d, hit) THEN Record(h, i, j, hit)
          ELSE IF found.m = NoMethod THEN found.h
          ELSE Record(found.h, i, j, found.m)
  <2>1. FindOrCreate(d, t, h, im, hit, FALSE) = found
    BY <1>5, <1>8, <1>f DEF FindOrCreate
  <2>2. ~(i <= Len(cls[d.super].iftable))
    <3>1. TableOrdered(cls, cls[d.super].iftable)
      BY SuperFacts
    <3>2. Len(cls[d.super].iftable) \in Nat /\ i \in Nat
      BY <3>1 DEF TableOrdered
    <3> QED BY <3>2
  <2>3. g = Implement(k, d, h, i, j, FALSE, hit, found)
    BY <1>1, <1>3, <1>6, <1>f, <2>1, <2>2 DEF LinkInterfaceMethod
  <2> QED BY <1>f, <2>3 DEF Implement
<1>10. im \in Methods /\ im.decl \in Range(t) /\ im.pub /\ ~im.conf /\ im.sig \in Sigs
  <2>1. /\ cls[t[i]].decl[j] \in Methods /\ cls[t[i]].decl[j].sig \in Sigs
        /\ cls[t[i]].decl[j].decl = t[i] /\ t[i] \in Range(t)
        /\ cls[t[i]].decl[j].pub /\ ~cls[t[i]].decl[j].conf
    BY InterfaceMethod
  <2> QED BY <2>1, <1>1
<1>11. v.vtable \in Seq(Methods) /\ Len(sup) <= Len(v.vtable) /\ VtableKept(sup, v)
  BY <1>4 DEF Virtual, VtableEntries
<1>12. \/ hit = NoMethod /\ \A x \in 1..Len(v.vtable) : v.vtable[x].sig /= im.sig
       \/ \E x \in 1..Len(v.vtable) : /\ hit = v.vtable[x] /\ v.vtable[x].sig = im.sig
                                      /\ hit \in Methods /\ hit /= NoMethod
                                      /\ \A y \in 1..Len(v.vtable) : y > x => v.vtable[y].sig /= im.sig
  BY <1>3, <1>11, LastIs
<1>13. Searchable(t) /\ DOMAIN h = HelperFields /\ Lists(k, t, v, supt, h)
  BY <1>2, <1>7, TableSearchable DEF HelperOK
<1>14. Found(k, t, v, supt, h, im, hit, got)
  <2>1. Finding(k, t, v, supt, h, im, hit)
    BY <1>10, <1>12, <1>13 DEF Finding, InVtable
  <2> QED BY <2>1, <1>5, FindMethodIs
<1>15. HelperOK(k, d, t, v, got.h) /\ Later(t, h, got.h)
  <2>1. Grown(h, got.h) /\ Lists(k, t, v, supt, got.h)
    BY <1>14 DEF Found
  <2> QED BY <2>1, <1>2, GrownIs
<1>16. ASSUME ClashKept(sup, t, v, im.sig)
       PROVE  /\ hit \in Methods /\ hit /= NoMethod /\ OverridableIn(k, d, hit) /\ ~hit.conf
              /\ InVtable(v, im.sig) /\ Clash(cls, im.sig, t)
  <2>1. PICK x \in 1..Len(sup) : Kept(sup, v, x) /\ sup[x].sig = im.sig /\ ~sup[x].conf /\ Clash(cls, im.sig, t)
    BY <1>16 DEF ClashKept
  <2>2. sup \in Seq(Methods) /\ DOMAIN sup = 1..Len(sup) /\ \A y \in DOMAIN sup : sup[y].decl \in DOMAIN cls
    BY <1>4, SuperFacts DEF Overriding
  <2>3. Len(sup) \in Nat /\ Len(v.vtable) \in Nat
    BY <1>11, <2>2
  <2>4. x \in 1..Len(v.vtable) /\ v.vtable[x] = sup[x] /\ IsOverridableByDefaultMethod(sup[x])
    BY <1>11, <2>1, <2>3 DEF Kept
  <2>5. PICK y \in 1..Len(v.vtable) : /\ hit = v.vtable[y] /\ v.vtable[y].sig = im.sig
                                      /\ hit \in Methods /\ hit /= NoMethod
                                      /\ \A z \in 1..Len(v.vtable) : z > y => v.vtable[z].sig /= im.sig
    BY <1>12, <2>1, <2>4
  <2>6. ~(x > y) /\ x \in Nat /\ y \in Nat
    BY <2>1, <2>4, <2>5
  <2>7. x < y => v.vtable[y] = sup[x]
    BY <1>11, <2>1, <2>5 DEF VtableKept
  <2>8. hit = sup[x]
    BY <2>4, <2>5, <2>6, <2>7
  <2>9. hit.decl /= k
    BY <1>7, <2>2, <2>8
  <2> QED BY <2>1, <2>4, <2>5, <2>8, <2>9 DEF OverridableIn, InVtable
<1>17. ASSUME hit = NoMethod \/ OverridableIn(k, d, hit)
       PROVE  /\ HelperOK(k, d, t, v, found.h) /\ Later(t, h, found.h)
              /\ found.m \in Methods /\ found.m.sig = im.sig
              /\ ClashKept(sup, t, v, im.sig) => ~Absent(im.sig, found.h.overridingConflict)
  <2>1. PICK r : r = FindDefaultMethodImplementation(im.sig, t)
    OBVIOUS
  <2>2. Clash(cls, im.sig, t) => r.res = "conflict"
    BY <1>13, <2>1, SearchFacts
  <2>3. CASE got.m /= NoMethod
    <3>1. found = got
      BY <1>8, <2>3
    <3>2. got.m \in Methods /\ got.m.sig = im.sig
      BY <1>14, <2>3 DEF Found
    <3>3. ClashKept(sup, t, v, im.sig) => ~Absent(im.sig, got.h.overridingConflict)
      BY <1>14, <1>16, <2>1, <2>2 DEF Found
    <3> QED BY <1>15, <3>1, <3>2, <3>3
  <2>4. CASE got.m = NoMethod
    <3>1. found = GetOrCreateMirandaMethod(got.h, im)
      BY <1>8, <2>4
    <3>2. r.res = "abstract" /\ (hit = NoMethod \/ ~(hit.abs /\ ~hit.conf))
      BY <1>14, <2>1, <2>4 DEF Found
    <3>3. Len(supt) < Len(t)
      <4>1. supt \in Seq(Names) /\ t \in Seq(Names)
        BY <1>2, <1>7, SuperFacts DEF TableOrdered
      <4>2. Len(supt) \in Nat /\ Len(t) \in Nat /\ i \in Nat
        BY <4>1
      <4> QED BY <4>2, <1>2
    <3>4. ASSUME NEW x \in 1..Len(v.vtable), LastEntry(v, im.sig, x)
          PROVE  /\ v.vtable[x].decl /= k /\ IsOverridableByDefaultMethod(v.vtable[x])
                 /\ ~(v.vtable[x].abs /\ ~v.vtable[x].conf)
      <4>1. PICK y \in 1..Len(v.vtable) : /\ hit = v.vtable[y] /\ v.vtable[y].sig = im.sig /\ hit /= NoMethod
                                          /\ \A z \in 1..Len(v.vtable) : z > y => v.vtable[z].sig /= im.sig
        BY <1>12, <3>4 DEF LastEntry
      <4>2. ~(x > y) /\ ~(y > x) /\ x \in Nat /\ y \in Nat
        BY <3>4, <4>1 DEF LastEntry
      <4>3. x = y
        BY <4>2
      <4> QED BY <4>1, <4>3, <3>2, <1>17, <1>f DEF OverridableIn
    <3>5. MirandaMay(k, t, v, supt, im)
      BY <1>10, <2>1, <3>2, <3>3, <3>4 DEF MirandaMay
    <3>6. DOMAIN got.h = HelperFields /\ Lists(k, t, v, supt, got.h)
      BY <1>14 DEF Found, Grown
    <3>7. Created(k, t, v, supt, got.h, im, found)
      BY <3>1, <3>5, <3>6, MirandaIs
    <3>8. HelperOK(k, d, t, v, found.h) /\ Later(t, got.h, found.h)
      <4>1. Grown(got.h, found.h) /\ Lists(k, t, v, supt, found.h)
        BY <3>7 DEF Created
      <4> QED BY <4>1, <1>2, <1>15, GrownIs
    <3>9. Later(t, h, found.h)
      BY <1>15, <3>8, LaterTrans
    <3>10. ~ClashKept(sup, t, v, im.sig)
      BY <1>16, <2>2, <3>2
    <3> QED BY <3>7, <3>8, <3>9, <3>10 DEF Created
  <2> QED BY <2>3, <2>4
<1>18. CASE h.err /= "none"
  <2>1. g = h
    BY <1>9, <1>18
  <2> QED BY <2>1, <1>6, <1>18 DEF Linked1, Later, Done
<1>19. CASE h.err = "none" /\ g = [h EXCEPT !.err = "IllegalAccessError"]
  BY <1>6, <1>19, ErrorIs
<1>20. CASE hit /= NoMethod /\ ~OverridableIn(k, d, hit) /\ g = Record(h, i, j, hit)
  <2>1. hit \in Methods /\ hit.sig = im.sig
    BY <1>12, <1>20
  <2>2. HelperOK(k, d, t, v, g) /\ Later(t, h, g) /\ g.arrays[i][j] /= NoMethod
    BY <1>1, <1>20, <2>1, RecordIs
  <2>3. ~ClashKept(sup, t, v, im.sig)
    BY <1>16, <1>20
  <2> QED BY <2>2, <2>3, <1>1, <1>4, <1>6 DEF Linked1, Done
<1>21. CASE (hit = NoMethod \/ OverridableIn(k, d, hit)) /\ g = Record(found.h, i, j, found.m)
  <2>1. /\ HelperOK(k, d, t, v, found.h) /\ Later(t, h, found.h)
        /\ found.m \in Methods /\ found.m.sig = im.sig
        /\ ClashKept(sup, t, v, im.sig) => ~Absent(im.sig, found.h.overridingConflict)
    BY <1>17, <1>21
  <2>2. /\ HelperOK(k, d, t, v, g) /\ Later(t, found.h, g) /\ g.arrays[i][j] /= NoMethod
        /\ g.overridingConflict = found.h.overridingConflict
    BY <1>1, <1>21, <2>1, RecordIs
  <2>3. Later(t, h, g)
    BY <2>1, <2>2, LaterTrans
  <2>4. Done(d, t, v, g, i, j)
    BY <2>1, <2>2, <1>1, <1>4 DEF Done
  <2> QED BY <2>2, <2>3, <2>4, <1>6 DEF Linked1
<1>22. (hit = NoMethod \/ OverridableIn(k, d, hit)) => found.m /= NoMethod
  BY <1>17, NoMethodIsNone
<1> QED BY <1>9, <1>18, <1>19, <1>20, <1>21, <1>22

\* All methods of the i-th interface are linked.
AllDone(d, t, v, h, i) == \A j \in DOMAIN cls[t[i]].decl : Done(d, t, v, h, i, j)
InterfaceLinked(k, d, t, v, h, i, g) == HelperOK(k, d, t, v, g) /\ Later(t, h, g) /\ AllDone(d, t, v, g, i)

\* LinkInterfaceMethod, for any interface of the table.
LEMMA MethodIs ==
    ASSUME NEW k, NEW d, NEW t, Linking(k, d, t), ~d.iface, NEW v, Virtual(k, d, t, v),
           NEW h, HelperOK(k, d, t, v, h),
           NEW i \in 1..Len(t), NEW j \in DOMAIN cls[t[i]].decl
    PROVE  Linked1(k, d, t, v, h, i, j, LinkInterfaceMethod(k, d, v, t, h, i, j))
<1>1. TableOrdered(cls, cls[d.super].iftable)
  BY SuperFacts
<1>2. Len(cls[d.super].iftable) \in Nat /\ i \in Nat
  BY <1>1 DEF TableOrdered
<1>3. CASE i <= Len(cls[d.super].iftable)
  BY <1>3, SuperMethodIs
<1>4. CASE i > Len(cls[d.super].iftable)
  BY <1>4, NewMethodIs
<1> QED BY <1>2, <1>3, <1>4

\* The methods of one interface.
LEMMA InterfaceIs ==
    ASSUME NEW k, NEW d, NEW t, Linking(k, d, t), ~d.iface, NEW v, Virtual(k, d, t, v),
           NEW h, HelperOK(k, d, t, v, h), NEW i \in 1..Len(t)
    PROVE  InterfaceLinked(k, d, t, v, h, i, LinkInterface(k, d, v, t, h, i))
<1>1. PICK N \in Nat : N = Len(cls[t[i]].decl) /\ DOMAIN cls[t[i]].decl = 1..N
  <2>1. TableOrdered(cls, t) /\ Good(cls)
    BY DEF Linking
  <2>2. Searchable(t)
    BY <2>1, TableSearchable
  <2>3. cls[t[i]].decl \in Seq(Methods)
    BY <2>2 DEF Searchable, DeclaresWell
  <2> QED BY <2>3
<1>2. PICK f : MethodSteps(f, k, d, v, t, h, i) /\ LinkInterface(k, d, v, t, h, i) = f[N]
  BY <1>1, LinkInterfaceRec
<1>3. PICK T : T = {n \in 0..N : /\ HelperOK(k, d, t, v, f[n]) /\ Later(t, h, f[n])
                                 /\ \A j \in 1..n : Done(d, t, v, f[n], i, j)}
  OBVIOUS
<1>4. 0 \in T
  <2>1. f[0] = h
    BY <1>2 DEF MethodSteps
  <2>2. Later(t, h, h)
    BY DEF Later
  <2> QED BY <1>3, <2>1, <2>2
<1>5. \A n \in 0..N - 1 : n \in T => n + 1 \in T
  <2> SUFFICES ASSUME NEW n \in 0..N - 1, n \in T PROVE n + 1 \in T
    OBVIOUS
  <2>1. n + 1 \in 1..N /\ (n + 1) - 1 = n /\ n + 1 \in 0..N
    OBVIOUS
  <2>2. PICK j \in 1..N : j = n + 1
    BY <2>1
  <2>3. PICK e : e = f[n]
    OBVIOUS
  <2>4. PICK g : g = f[n + 1]
    OBVIOUS
  <2>5. g = LinkInterfaceMethod(k, d, v, t, e, i, j)
    BY <1>1, <1>2, <2>1, <2>2, <2>3, <2>4 DEF MethodSteps
  <2>6. HelperOK(k, d, t, v, e) /\ Later(t, h, e) /\ \A x \in 1..n : Done(d, t, v, e, i, x)
    BY <1>3, <2>3
  <2>7. j \in DOMAIN cls[t[i]].decl
    BY <1>1
  <2>8. Linked1(k, d, t, v, e, i, j, g)
    BY <2>5, <2>6, <2>7, MethodIs
  <2>9. HelperOK(k, d, t, v, g) /\ Later(t, e, g) /\ Done(d, t, v, g, i, j)
    BY <2>8 DEF Linked1
  <2>10. Later(t, h, g)
    BY <2>6, <2>9, LaterTrans
  <2>11. ASSUME NEW x \in 1..n + 1 PROVE Done(d, t, v, g, i, x)
    <3>1. CASE x = j
      BY <2>9, <3>1
    <3>2. CASE x /= j
      <4>1. x \in 1..n /\ x \in DOMAIN cls[t[i]].decl
        BY <3>2, <2>2, <1>1
      <4>2. Done(d, t, v, e, i, x)
        BY <2>6, <4>1
      <4> QED BY <4>1, <4>2, <2>9, DoneLater
    <3> QED BY <3>1, <3>2
  <2> QED BY <1>3, <2>1, <2>4, <2>9, <2>10, <2>11
<1>6. N \in T
  <2>1. 0..N \subseteq T
    BY <1>4, <1>5, SetInduction
  <2> QED BY <2>1
<1> QED BY <1>1, <1>2, <1>3, <1>6 DEF InterfaceLinked, AllDone

\* The helper before the first interface.
LEMMA NewHelperIs ==
    ASSUME NEW k, NEW d, NEW t, Linking(k, d, t), ~d.iface, NEW v
    PROVE  HelperOK(k, d, t, v, NewHelper(d, t))
<1>1. PICK h : h = NewHelper(d, t)
  OBVIOUS
<1>2. PICK supt : supt = cls[d.super].iftable
  OBVIOUS
<1>3. /\ DOMAIN h = HelperFields /\ h.err = "none" /\ h.arrays = AllocateIfTableMethodArrays(d, t)
      /\ h.miranda = <<>> /\ h.default = <<>> /\ h.overridingDefault = <<>>
      /\ h.conflict = <<>> /\ h.overridingConflict = <<>>
  BY <1>1 DEF NewHelper, HelperFields
<1>4. <<>> \in Seq(Methods) /\ Distinct(<<>>) /\ Range(<<>>) = {}
  BY DEF Distinct, Range
<1>5. Lists(k, t, v, supt, h)
  BY <1>3, <1>4 DEF Lists, MirandaList, DefaultList, ConflictList, OverridingDefaultList, OverridingConflictList
<1>6. ArraysWell(cls, cls[d.super].arrays, supt) /\ TableOrdered(cls, supt) /\ TableOrdered(cls, t) /\ Prefix(supt, t)
  BY <1>2, SuperFacts DEF Linking
<1>7. /\ Len(t) \in Nat /\ DOMAIN t = 1..Len(t) /\ Len(supt) \in Nat /\ Len(supt) <= Len(t)
      /\ \A i \in 1..Len(supt) : t[i] = supt[i]
  BY <1>6 DEF TableOrdered, Prefix
<1>8. HelperArrays(t, supt, h)
  <2>1. DOMAIN h.arrays = 1..Len(t)
    BY <1>3, <1>7 DEF AllocateIfTableMethodArrays
  <2>2. ASSUME NEW i \in 1..Len(t)
        PROVE  /\ DOMAIN h.arrays[i] = DOMAIN cls[t[i]].decl
               /\ \A j \in DOMAIN cls[t[i]].decl :
                  /\ \/ h.arrays[i][j] = NoMethod
                     \/ h.arrays[i][j] \in Methods /\ h.arrays[i][j].sig = cls[t[i]].decl[j].sig
                  /\ i <= Len(supt) => h.arrays[i][j] /= NoMethod
    <3>1. CASE i <= Len(supt)
      <4>1. i \in 1..Len(supt) /\ t[i] = supt[i]
        BY <1>7, <3>1
      <4>2. h.arrays[i] = cls[d.super].arrays[i]
        BY <1>2, <1>3, <1>7, <3>1 DEF AllocateIfTableMethodArrays
      <4>3. /\ DOMAIN cls[d.super].arrays[i] = DOMAIN cls[t[i]].decl
            /\ \A j \in DOMAIN cls[t[i]].decl : /\ cls[d.super].arrays[i][j] \in Methods
                                                /\ cls[d.super].arrays[i][j].sig = cls[t[i]].decl[j].sig
        BY <1>6, <4>1 DEF ArraysWell
      <4> QED BY <4>2, <4>3, NoMethodIsNone
    <3>2. CASE ~(i <= Len(supt))
      <4>1. h.arrays[i] = [j \in DOMAIN cls[t[i]].decl |-> NoMethod]
        BY <1>2, <1>3, <1>7, <3>2 DEF AllocateIfTableMethodArrays
      <4> QED BY <4>1, <3>2
    <3> QED BY <3>1, <3>2
  <2> QED BY <2>1, <2>2 DEF HelperArrays
<1> QED BY <1>1, <1>2, <1>3, <1>5, <1>8 DEF HelperOK

\* The helper when all interfaces of the table are linked.
Looped(k, d, t, v, h) == HelperOK(k, d, t, v, h) /\ \A i \in 1..Len(t) : AllDone(d, t, v, h, i)

\* LinkInterfaceMethodsLoop of a class.
LEMMA LoopIs ==
    ASSUME NEW k, NEW d, NEW t, Linking(k, d, t), ~d.iface, NEW v, Virtual(k, d, t, v)
    PROVE  Looped(k, d, t, v, LinkInterfaceMethodsLoop(k, d, v, t))
<1>1. PICK N \in Nat : N = Len(t)
  <2>1. t \in Seq(Names)
    BY DEF Linking, TableOrdered
  <2> QED BY <2>1
<1>2. PICK f : LoopSteps(f, k, d, v, t) /\ LinkInterfaceMethodsLoop(k, d, v, t) = f[N]
  BY <1>1, LoopRec
<1>3. PICK T : T = {n \in 0..N : /\ HelperOK(k, d, t, v, f[n])
                                 /\ \A i \in 1..N : i > N - n => AllDone(d, t, v, f[n], i)}
  OBVIOUS
<1>4. 0 \in T
  <2>1. f[0] = NewHelper(d, t)
    BY <1>2 DEF LoopSteps
  <2>2. HelperOK(k, d, t, v, f[0])
    BY <2>1, NewHelperIs
  <2>3. 0 \in 0..N /\ \A i \in 1..N : ~(i > N - 0)
    OBVIOUS
  <2> QED BY <1>3, <2>2, <2>3
<1>5. \A n \in 0..N - 1 : n \in T => n + 1 \in T
  <2> SUFFICES ASSUME NEW n \in 0..N - 1, n \in T PROVE n + 1 \in T
    OBVIOUS
  <2>1. n + 1 \in 1..N /\ (n + 1) - 1 = n /\ n + 1 \in 0..N /\ N + 1 - (n + 1) = N - n /\ N - n \in 1..N
    OBVIOUS
  <2>2. PICK i \in 1..N : i = N - n
    BY <2>1
  <2>3. PICK e : e = f[n]
    OBVIOUS
  <2>4. PICK g : g = f[n + 1]
    OBVIOUS
  <2>5. g = LinkInterface(k, d, v, t, e, i)
    BY <1>1, <1>2, <2>1, <2>2, <2>3, <2>4 DEF LoopSteps
  <2>6. HelperOK(k, d, t, v, e) /\ \A x \in 1..N : x > N - n => AllDone(d, t, v, e, x)
    BY <1>3, <2>3
  <2>7. InterfaceLinked(k, d, t, v, e, i, g)
    BY <1>1, <2>5, <2>6, InterfaceIs
  <2>8. HelperOK(k, d, t, v, g) /\ Later(t, e, g) /\ AllDone(d, t, v, g, i)
    BY <2>7 DEF InterfaceLinked
  <2>9. ASSUME NEW x \in 1..N, x > N - (n + 1) PROVE AllDone(d, t, v, g, x)
    <3>1. CASE x = i
      BY <2>8, <3>1
    <3>2. CASE x /= i
      <4>1. x > N - n
        BY <3>2, <2>2, <2>9
      <4>2. AllDone(d, t, v, e, x)
        BY <2>6, <4>1
      <4>3. \A j \in DOMAIN cls[t[x]].decl : Done(d, t, v, g, x, j)
        BY <1>1, <4>2, <2>8, DoneLater DEF AllDone
      <4> QED BY <4>3 DEF AllDone
    <3> QED BY <3>1, <3>2
  <2> QED BY <1>3, <2>1, <2>4, <2>8, <2>9
<1>6. N \in T
  <2>1. 0..N \subseteq T
    BY <1>4, <1>5, SetInduction
  <2> QED BY <2>1
<1>7. \A i \in 1..N : i > N - N
  OBVIOUS
<1> QED BY <1>1, <1>2, <1>3, <1>6, <1>7 DEF Looped

----------------------------------------------------------------------------
\* The methods of an interface.

\* What is left of the helper for an interface: errors.
Errors(h) == DOMAIN h = HelperFields /\ h.err \in {"none", "IllegalAccessError"}

\* FindMethod makes no error for an interface.
LEMMA InterfaceFind ==
    ASSUME NEW t, Searchable(t), NEW h, Errors(h), NEW im, NEW impl
    PROVE  Errors(FindMethod(t, h, im, impl, TRUE).h)
<1>1. PICK r : r = FindDefaultMethodImplementation(im.sig, t)
  OBVIOUS
<1>2. r.res \in {"abstract", "found", "conflict"}
  BY <1>1, SearchFacts
<1>3. PICK g : g = FindMethod(t, h, im, impl, TRUE)
  OBVIOUS
<1>4. PICK fresh : fresh = [im EXCEPT !.own = "conflict"]
  OBVIOUS
<1>5. PICK old : old = FindSameNameAndSignature(im.sig, h.conflict \o h.overridingConflict)
  OBVIOUS
<1>6. PICK a : a = [h EXCEPT !.overridingConflict = Append(@, fresh)]
  OBVIOUS
<1>7. PICK b : b = [h EXCEPT !.conflict = Append(@, fresh)]
  OBVIOUS
<1>8. Errors(a) /\ Errors(b)
  BY <1>6, <1>7 DEF Errors, HelperFields
<1>9. \E m : g = [h |-> h, m |-> m] \/ g = [h |-> a, m |-> m] \/ g = [h |-> b, m |-> m]
  <2>1. CASE r.res = "conflict"
    <3>1. g = CASE impl /= NoMethod /\ (impl /= NoMethod => impl.conf) -> [h |-> h, m |-> impl]
                [] (impl /= NoMethod => ~impl.conf) /\ old /= NoMethod -> [h |-> h, m |-> old]
                [] (impl /= NoMethod => ~impl.conf) /\ old = NoMethod ->
                     [h |-> IF impl /= NoMethod THEN a ELSE b, m |-> fresh]
      BY <1>1, <1>3, <1>4, <1>5, <1>6, <1>7, <2>1 DEF FindMethod
    <3> QED BY <3>1
  <2>2. CASE r.res = "found"
    <3>1. g = CASE impl /= NoMethod /\ (impl /= NoMethod => impl.decl = r.m.decl) -> [h |-> h, m |-> impl]
                [] (impl /= NoMethod => impl.decl /= r.m.decl) -> [h |-> h, m |-> r.m]
      BY <1>1, <1>3, <2>2 DEF FindMethod
    <3> QED BY <3>1
  <2>3. CASE r.res = "abstract"
    <3>1. g = [h |-> h, m |-> IF impl /= NoMethod /\ (impl /= NoMethod => impl.abs /\ ~impl.conf)
                              THEN impl ELSE NoMethod]
      BY <1>1, <1>3, <2>3 DEF FindMethod
    <3> QED BY <3>1
  <2> QED BY <1>2, <2>1, <2>2, <2>3
<1>10. g.h = h \/ g.h = a \/ g.h = b
  BY <1>9
<1> QED BY <1>3, <1>8, <1>10

\* One method of an interface.
LEMMA InterfaceMethodErrors ==
    ASSUME NEW k, NEW d, d.iface = TRUE, NEW t, Searchable(t), NEW v, NEW h, Errors(h), NEW i, NEW j
    PROVE  Errors(LinkInterfaceMethod(k, d, v, t, h, i, j))
<1>1. PICK im : im = cls[t[i]].decl[j]
  OBVIOUS
<1>2. \A impl, super : Errors(FindOrCreate(d, t, h, im, impl, super).h)
  <2> TAKE impl, super
  <2>1. FindOrCreate(d, t, h, im, impl, super) = FindMethod(t, h, im, impl, TRUE)
    BY DEF FindOrCreate
  <2> QED BY <2>1, InterfaceFind
<1>3. Errors([h EXCEPT !.err = "IllegalAccessError"])
  BY DEF Errors, HelperFields
<1>4. ASSUME NEW super \in BOOLEAN, NEW hit, NEW found, Errors(found.h)
      PROVE  Errors(Implement(k, d, h, i, j, super, hit, found))
  <2>1. \/ Implement(k, d, h, i, j, super, hit, found) = h
        \/ Implement(k, d, h, i, j, super, hit, found) = [h EXCEPT !.err = "IllegalAccessError"]
        \/ Implement(k, d, h, i, j, super, hit, found) = found.h
    BY DEF Implement
  <2> QED BY <2>1, <1>3, <1>4
<1>5. CASE i <= Len(cls[d.super].iftable)
  <2>1. LinkInterfaceMethod(k, d, v, t, h, i, j)
            = Implement(k, d, h, i, j, TRUE, LastOf(im.sig, Declared(k, d)),
                        FindOrCreate(d, t, h, im, h.arrays[i][j], TRUE))
    BY <1>1, <1>5 DEF LinkInterfaceMethod
  <2> QED BY <2>1, <1>2, <1>4
<1>6. CASE ~(i <= Len(cls[d.super].iftable))
  <2>1. LinkInterfaceMethod(k, d, v, t, h, i, j)
            = Implement(k, d, h, i, j, FALSE, LastOf(im.sig, Declared(k, d)),
                        FindOrCreate(d, t, h, im, LastOf(im.sig, Declared(k, d)), FALSE))
    BY <1>1, <1>6 DEF LinkInterfaceMethod
  <2> QED BY <2>1, <1>2, <1>4
<1> QED BY <1>5, <1>6

\* LinkInterfaceMethodsLoop of an interface.
LEMMA InterfaceLoopErrors ==
    ASSUME NEW k, NEW d, d.iface = TRUE, NEW t, Searchable(t), NEW v
    PROVE  Errors(LinkInterfaceMethodsLoop(k, d, v, t))
<1>1. PICK N \in Nat : N = Len(t)
  BY DEF Searchable
<1>2. PICK f : LoopSteps(f, k, d, v, t) /\ LinkInterfaceMethodsLoop(k, d, v, t) = f[N]
  BY <1>1, LoopRec
<1>3. PICK T : T = {n \in 0..N : Errors(f[n])}
  OBVIOUS
<1>4. 0 \in T
  <2>1. f[0] = NewHelper(d, t)
    BY <1>2 DEF LoopSteps
  <2>2. Errors(NewHelper(d, t))
    BY DEF NewHelper, Errors, HelperFields
  <2> QED BY <1>3, <2>1, <2>2
<1>5. \A n \in 0..N - 1 : n \in T => n + 1 \in T
  <2> SUFFICES ASSUME NEW n \in 0..N - 1, n \in T PROVE n + 1 \in T
    OBVIOUS
  <2>1. n + 1 \in 1..N /\ (n + 1) - 1 = n /\ n + 1 \in 0..N /\ N + 1 - (n + 1) = N - n /\ N - n \in 1..N
    OBVIOUS
  <2>2. PICK i \in 1..N : i = N - n
    BY <2>1
  <2>3. f[n + 1] = LinkInterface(k, d, v, t, f[n], i)
    BY <1>1, <1>2, <2>1, <2>2 DEF LoopSteps
  <2>4. PICK M \in Nat : M = Len(cls[t[i]].decl)
    <3>1. cls[t[i]].decl \in Seq(Methods)
      BY <1>1 DEF Searchable, DeclaresWell
    <3> QED BY <3>1
  <2>5. PICK e : MethodSteps(e, k, d, v, t, f[n], i) /\ LinkInterface(k, d, v, t, f[n], i) = e[M]
    BY <2>4, LinkInterfaceRec
  <2>6. PICK U : U = {m \in 0..M : Errors(e[m])}
    OBVIOUS
  <2>7. 0 \in U
    BY <1>3, <2>5, <2>6 DEF MethodSteps
  <2>8. \A m \in 0..M - 1 : m \in U => m + 1 \in U
    <3> SUFFICES ASSUME NEW m \in 0..M - 1, m \in U PROVE m + 1 \in U
      OBVIOUS
    <3>1. m + 1 \in 1..M /\ (m + 1) - 1 = m /\ m + 1 \in 0..M
      OBVIOUS
    <3>2. e[m + 1] = LinkInterfaceMethod(k, d, v, t, e[m], i, m + 1)
      BY <2>4, <2>5, <3>1 DEF MethodSteps
    <3>3. Errors(e[m])
      BY <2>6
    <3>4. Errors(e[m + 1])
      BY <3>2, <3>3, InterfaceMethodErrors
    <3> QED BY <2>6, <3>1, <3>4
  <2>9. 0..M \subseteq U
    BY <2>7, <2>8, SetInduction
  <2>10. Errors(e[M])
    BY <2>6, <2>9
  <2> QED BY <1>3, <2>1, <2>3, <2>5, <2>10
<1>6. 0..N \subseteq T
  BY <1>4, <1>5, SetInduction
<1> QED BY <1>2, <1>3, <1>6

----------------------------------------------------------------------------
\* ReallocMethods and the translations.

\* A clash that an entry is to be translated to has its conflict method: a new
\* interface declares the signature, and linking that method made one.
LEMMA ConflictCreated ==
    ASSUME NEW k, NEW d, NEW t, Linking(k, d, t), ~d.iface, NEW v, Virtual(k, d, t, v),
           NEW h, Looped(k, d, t, v, h), h.err = "none",
           NEW x \in DOMAIN v.trans, v.trans[x].res = "conflict"
    PROVE  /\ FindSameNameAndSignature(v.vtable[x].sig, h.overridingConflict) \in Range(h.overridingConflict)
           /\ FindSameNameAndSignature(v.vtable[x].sig, h.overridingConflict) /= NoMethod
           /\ FindSameNameAndSignature(v.vtable[x].sig, h.overridingConflict).sig = v.vtable[x].sig
<1>1. PICK sup : sup = cls[d.super].vtable
  OBVIOUS
<1>2. PICK supt : supt = cls[d.super].iftable
  OBVIOUS
<1>3. PICK r : r = v.trans[x]
  OBVIOUS
<1>4. x \in 1..Len(sup) /\ Kept(sup, v, x) /\ r = FindDefaultMethodImplementation(sup[x].sig, t) /\ Outdated(sup[x], r)
  BY <1>1, <1>3 DEF Virtual, VtableTranslations
<1>5. PICK s : s = sup[x].sig
  OBVIOUS
<1>6. v.vtable[x] = sup[x] /\ IsOverridableByDefaultMethod(sup[x])
  BY <1>4 DEF Kept
<1>7. ~sup[x].conf
  BY <1>3, <1>4 DEF Outdated
<1>8. TableOrdered(cls, t) /\ TableOrdered(cls, supt) /\ Prefix(supt, t) /\ Good(cls) /\ Settles(cls, sup, supt)
  BY <1>1, <1>2, SuperFacts DEF Linking
<1>9. Clash(cls, s, t)
  <2>1. Searchable(t)
    BY <1>8, TableSearchable
  <2> QED BY <2>1, <1>3, <1>4, <1>5, SearchFacts
<1>10. ~Clash(cls, s, supt)
  BY <1>4, <1>5, <1>6, <1>7, <1>8 DEF Settles, Overridable, IsOverridableByDefaultMethod
<1>11. ClashKept(sup, t, v, s)
  BY <1>4, <1>5, <1>7, <1>9 DEF ClashKept
<1>12. PICK p \in Len(supt) + 1..Len(t) : \E y \in DOMAIN cls[t[p]].decl : cls[t[p]].decl[y].sig = s
  <2>1. supt \in Seq(Names) /\ t \in Seq(Names)
    BY <1>8 DEF TableOrdered
  <2>2. PICK C : C = cls
    OBVIOUS
  <2>5. PICK S : S = Names
    OBVIOUS
  <2>6. supt \in Seq(S) /\ t \in Seq(S)
    BY <2>1, <2>5
  <2>3. Prefix(supt, t) /\ Clash(C, s, t) /\ ~Clash(C, s, supt)
    BY <1>8, <1>9, <1>10, <2>2
  <2>4. NewDeclares(C, s, supt, t)
    BY <2>3, <2>6, ClashIsNew
  <2> QED BY <2>2, <2>4 DEF NewDeclares
<1>13. PICK y \in DOMAIN cls[t[p]].decl : cls[t[p]].decl[y].sig = s
  BY <1>12
<1>14. p \in 1..Len(t) /\ p > Len(supt)
  <2>1. Len(supt) \in Nat /\ Len(t) \in Nat
    BY <1>8 DEF TableOrdered
  <2> QED BY <2>1
<1>15. Done(d, t, v, h, p, y)
  BY <1>13, <1>14 DEF Looped, AllDone
<1>16. ~Absent(s, h.overridingConflict)
  BY <1>1, <1>2, <1>11, <1>13, <1>14, <1>15 DEF Done
<1>17. h.overridingConflict \in Seq(Methods)
  BY DEF Looped, HelperOK, Lists, OverridingConflictList
<1>18. \/ /\ FindSameNameAndSignature(s, h.overridingConflict) \in Range(h.overridingConflict)
          /\ FindSameNameAndSignature(s, h.overridingConflict).sig = s
          /\ FindSameNameAndSignature(s, h.overridingConflict) /= NoMethod
       \/ \A z \in DOMAIN h.overridingConflict : h.overridingConflict[z].sig /= s
  BY <1>17, FindIs
<1> QED BY <1>5, <1>6, <1>16, <1>17, <1>18 DEF Absent

\* The methods of the five lists.
Listed(h) == Range(h.miranda) \union Range(h.default) \union Range(h.overridingDefault)
             \union Range(h.conflict) \union Range(h.overridingConflict)

\* A default method that the search finds is public and declared in the table.
LEMMA DefaultPublic ==
    ASSUME NEW s, NEW t, Good(cls), TableOrdered(cls, t),
           FindDefaultMethodImplementation(s, t).res = "found"
    PROVE  FindDefaultMethodImplementation(s, t).m.pub
<1>1. Searchable(t)
  BY TableSearchable
<1>2. PICK r : r = FindDefaultMethodImplementation(s, t)
  OBVIOUS
<1>3. SearchAt(s, t, Len(t), r) /\ r.res = "found"
  BY <1>1, <1>2, SearchIs
<1>4. PICK p \in 1..Len(t) : r.m \in Range(cls[t[p]].decl)
  BY <1>3 DEF SearchAt
<1>5. t[p] \in Linked(cls) /\ cls[t[p]].iface /\ DeclaresWell(cls, t[p])
  <2>1. t \in Seq(Names)
    BY DEF TableOrdered
  <2>2. t[p] \in Range(t)
    BY <2>1, SeqFacts
  <2>3. t[p] \in Linked(cls) /\ cls[t[p]].iface
    BY <2>2 DEF TableOrdered
  <2> QED BY <2>3 DEF Good, GoodClass
<1>6. PICK y \in DOMAIN cls[t[p]].decl : cls[t[p]].decl[y] = r.m
  BY <1>4 DEF Range
<1> QED BY <1>2, <1>5, <1>6 DEF DeclaresWell

\* The kinds of the listed methods.
LEMMA ListedFacts ==
    ASSUME NEW k, NEW t, Good(cls), TableOrdered(cls, t), NEW v, NEW supt, NEW h, Lists(k, t, v, supt, h)
    PROVE  /\ \A m \in Listed(h) : m \in Methods /\ m.decl \in Range(t) /\ m.pub /\ ~m.conf
           /\ \A m \in Range(h.miranda) : m.own = "miranda"
           /\ \A m \in Range(h.default) \union Range(h.overridingDefault) : m.own \in Names
           /\ \A m \in Range(h.conflict) \union Range(h.overridingConflict) : m.own = "conflict"
<1>1. Searchable(t) /\ t \in Seq(Names) /\ Range(t) \subseteq Names
  <2>1. t \in Seq(Names)
    BY DEF TableOrdered
  <2> QED BY <2>1, TableSearchable, SeqFacts
<1>2. /\ h.miranda \in Seq(Methods) /\ h.default \in Seq(Methods) /\ h.overridingDefault \in Seq(Methods)
      /\ h.conflict \in Seq(Methods) /\ h.overridingConflict \in Seq(Methods)
  BY DEF Lists, MirandaList, DefaultList, ConflictList, OverridingDefaultList, OverridingConflictList
<1>3. \A m \in Listed(h) : m \in Methods
  <2>1. /\ Range(h.miranda) \subseteq Methods /\ Range(h.default) \subseteq Methods
        /\ Range(h.overridingDefault) \subseteq Methods
        /\ Range(h.conflict) \subseteq Methods /\ Range(h.overridingConflict) \subseteq Methods
    BY <1>2, SeqFacts
  <2> QED BY <2>1 DEF Listed
<1>4. \A m \in Range(h.miranda) : MirandaWell(k, t, v, supt, m)
  BY DEF Lists, MirandaList
<1>5. \A m \in Range(h.default) \union Range(h.overridingDefault) : DefaultWell(t, m)
  BY DEF Lists, DefaultList, OverridingDefaultList
<1>6. \A m \in Range(h.conflict) \union Range(h.overridingConflict) : ConflictWell(t, m)
  BY DEF Lists, ConflictList, OverridingConflictList
<1>7. \A m \in Range(h.miranda) : m.own = "miranda" /\ m.decl \in Range(t) /\ m.pub /\ ~m.conf
  BY <1>4 DEF MirandaWell
<1>8. ASSUME NEW m \in Range(h.default) \union Range(h.overridingDefault)
      PROVE  m.own \in Names /\ m.decl \in Range(t) /\ m.pub /\ ~m.conf
  <2>1. PICK r : r = FindDefaultMethodImplementation(m.sig, t)
    OBVIOUS
  <2>2. r.res = "found" /\ m = r.m
    BY <1>5, <2>1 DEF DefaultWell
  <2>3. r.m.own = r.m.decl /\ r.m.decl \in Range(t) /\ ~r.m.conf
    BY <1>1, <2>1, <2>2, SearchFacts
  <2>4. r.m.pub
    BY <2>1, <2>2, DefaultPublic
  <2> QED BY <1>1, <2>2, <2>3, <2>4
<1>9. \A m \in Range(h.conflict) \union Range(h.overridingConflict) :
         m.own = "conflict" /\ m.decl \in Range(t) /\ m.pub /\ ~m.conf
  BY <1>6 DEF ConflictWell
<1>10. \A m \in Listed(h) : m.decl \in Range(t) /\ m.pub /\ ~m.conf
  BY <1>7, <1>8, <1>9 DEF Listed
<1> QED BY <1>3, <1>7, <1>8, <1>9, <1>10

\* The two lists of default methods, and those of conflict methods, together.
LEMMA TwoLists ==
    ASSUME NEW k, NEW t, NEW v, NEW supt, NEW h, Lists(k, t, v, supt, h)
    PROVE  /\ Range(h.default \o h.overridingDefault) = Range(h.default) \union Range(h.overridingDefault)
           /\ Range(h.conflict \o h.overridingConflict) = Range(h.conflict) \union Range(h.overridingConflict)
           /\ NewVirtuals(h) \in Seq(Methods) /\ Range(NewVirtuals(h)) = Listed(h)
<1>1. /\ h.miranda \in Seq(Methods) /\ h.default \in Seq(Methods) /\ h.overridingDefault \in Seq(Methods)
      /\ h.conflict \in Seq(Methods) /\ h.overridingConflict \in Seq(Methods)
  BY DEF Lists, MirandaList, DefaultList, ConflictList, OverridingDefaultList, OverridingConflictList
<1>2. PICK a : a = h.miranda \o h.default
  OBVIOUS
<1>3. a \in Seq(Methods) /\ Range(a) = Range(h.miranda) \union Range(h.default)
  BY <1>1, <1>2, ConcatFacts
<1>4. PICK b : b = a \o h.overridingDefault
  OBVIOUS
<1>5. b \in Seq(Methods) /\ Range(b) = Range(a) \union Range(h.overridingDefault)
  BY <1>1, <1>3, <1>4, ConcatFacts
<1>6. PICK c : c = b \o h.conflict
  OBVIOUS
<1>7. c \in Seq(Methods) /\ Range(c) = Range(b) \union Range(h.conflict)
  BY <1>1, <1>5, <1>6, ConcatFacts
<1>8. PICK e : e = c \o h.overridingConflict
  OBVIOUS
<1>9. e \in Seq(Methods) /\ Range(e) = Range(c) \union Range(h.overridingConflict)
  BY <1>1, <1>7, <1>8, ConcatFacts
<1>10. NewVirtuals(h) = e
  BY <1>2, <1>4, <1>6, <1>8 DEF NewVirtuals
<1>11. Range(h.default \o h.overridingDefault) = Range(h.default) \union Range(h.overridingDefault)
  BY <1>1, ConcatFacts
<1>12. Range(h.conflict \o h.overridingConflict) = Range(h.conflict) \union Range(h.overridingConflict)
  BY <1>1, ConcatFacts
<1> QED BY <1>3, <1>5, <1>7, <1>9, <1>10, <1>11, <1>12 DEF Listed

\* A copy has the signature of its method and the class that declares it.
LEMMA MoveIs ==
    ASSUME NEW k \in Names, NEW h, NEW m \in Methods
    PROVE  /\ Move(k, h, m) \in Methods /\ Move(k, h, m).sig = m.sig /\ Move(k, h, m).decl = m.decl
           /\ Move(k, h, m).pub = m.pub
           /\ m.conf => Move(k, h, m).conf
           /\ (m.conf => ~m.abs) => (Move(k, h, m).conf => ~Move(k, h, m).abs)
<1>1. PICK g : g = Move(k, h, m)
  OBVIOUS
<1>2. g = MoveMiranda(k, m) \/ g = MoveDefault(k, m) \/ g = MoveConflict(k, m) \/ g = m
  BY <1>1 DEF Move
<1>3. CASE g = MoveMiranda(k, m)
  <2>1. /\ g.sig = m.sig /\ g.decl = m.decl /\ g.pub = m.pub /\ g.final = m.final
        /\ g.abs = m.abs /\ g.conf = m.conf /\ g.own = k /\ g.copied = TRUE
    BY <1>3 DEF MoveMiranda, Methods
  <2>2. g \in Methods
    BY <1>3 DEF MoveMiranda, Methods
  <2> QED BY <1>1, <2>1, <2>2
<1>4. CASE g = MoveDefault(k, m)
  <2>1. /\ g.sig = m.sig /\ g.decl = m.decl /\ g.pub = m.pub /\ g.final = m.final
        /\ g.abs = m.abs /\ g.conf = m.conf /\ g.own = k /\ g.copied = TRUE
    BY <1>4 DEF MoveDefault, Methods
  <2>2. g \in Methods
    BY <1>4 DEF MoveDefault, Methods
  <2> QED BY <1>1, <2>1, <2>2
<1>5. CASE g = MoveConflict(k, m)
  <2>1. /\ g.sig = m.sig /\ g.decl = m.decl /\ g.pub = m.pub /\ g.final = m.final
        /\ g.abs = FALSE /\ g.conf = TRUE /\ g.own = k /\ g.copied = TRUE
    BY <1>5 DEF MoveConflict, Methods
  <2>2. g \in Methods
    BY <1>5 DEF MoveConflict, Methods
  <2> QED BY <1>1, <2>1, <2>2
<1>6. CASE g = m
  BY <1>1, <1>6
<1> QED BY <1>2, <1>3, <1>4, <1>5, <1>6

\* A copy in the class of a method that is not listed is the method itself; the
\* copy of a conflict method is one.
LEMMA MoveKinds ==
    ASSUME NEW k, NEW t, Good(cls), TableOrdered(cls, t), NEW v, NEW supt, NEW h, Lists(k, t, v, supt, h), NEW m
    PROVE  /\ m \notin Listed(h) => Move(k, h, m) = m
           /\ m \in Range(h.conflict) \union Range(h.overridingConflict) => Move(k, h, m) = MoveConflict(k, m)
<1>1. /\ \A e \in Range(h.miranda) : e.own = "miranda"
      /\ \A e \in Range(h.default) \union Range(h.overridingDefault) : e.own \in Names
      /\ \A e \in Range(h.conflict) \union Range(h.overridingConflict) : e.own = "conflict"
  BY ListedFacts
<1>2. /\ Range(h.default \o h.overridingDefault) = Range(h.default) \union Range(h.overridingDefault)
      /\ Range(h.conflict \o h.overridingConflict) = Range(h.conflict) \union Range(h.overridingConflict)
  BY TwoLists
<1>3. ASSUME m \notin Listed(h) PROVE Move(k, h, m) = m
  <2>1. /\ m \notin Range(h.miranda) /\ m \notin Range(h.default \o h.overridingDefault)
        /\ m \notin Range(h.conflict \o h.overridingConflict)
    BY <1>2, <1>3 DEF Listed
  <2> QED BY <2>1 DEF Move
<1>4. ASSUME m \in Range(h.conflict) \union Range(h.overridingConflict) PROVE Move(k, h, m) = MoveConflict(k, m)
  <2>1. m.own = "conflict" /\ "conflict" \notin Names
    BY <1>1, <1>4, NameFacts
  <2>2. /\ m \notin Range(h.miranda) /\ m \notin Range(h.default \o h.overridingDefault)
        /\ m \in Range(h.conflict \o h.overridingConflict)
    BY <1>1, <1>2, <1>4, <2>1
  <2> QED BY <2>2 DEF Move
<1> QED BY <1>3, <1>4

\* The copies of a list.
LEMMA MoveAllIs ==
    ASSUME NEW k \in Names, NEW h, NEW list \in Seq(Methods)
    PROVE  /\ MoveAll(k, h, list) \in Seq(Methods) /\ Len(MoveAll(k, h, list)) = Len(list)
           /\ \A x \in 1..Len(list) : MoveAll(k, h, list)[x] = Move(k, h, list[x])
           /\ \A m \in Range(list) : Move(k, h, m) \in Range(MoveAll(k, h, list))
           /\ \A e \in Range(MoveAll(k, h, list)) : \E m \in Range(list) : e = Move(k, h, m)
           /\ Distinct(list) => Distinct(MoveAll(k, h, list))
<1>1. PICK n \in Nat : n = Len(list) /\ DOMAIN list = 1..n
  OBVIOUS
<1>2. PICK u : u = MoveAll(k, h, list)
  OBVIOUS
<1>3. u = [x \in 1..n |-> Move(k, h, list[x])]
  BY <1>1, <1>2 DEF MoveAll
<1>4. \A x \in 1..n : list[x] \in Methods
  BY <1>1
<1>5. \A x \in 1..n : u[x] = Move(k, h, list[x]) /\ u[x] \in Methods /\ u[x].sig = list[x].sig
  BY <1>3, <1>4, MoveIs
<1>6. u \in [1..n -> Methods]
  BY <1>3, <1>5
<1>7. u \in Seq(Methods) /\ Len(u) = n /\ DOMAIN u = 1..n
  BY <1>6
<1>8. Distinct(list) => Distinct(u)
  BY <1>1, <1>5, <1>7 DEF Distinct
<1>9. \A m \in Range(list) : Move(k, h, m) \in Range(u)
  BY <1>1, <1>5, <1>7 DEF Range
<1>10. \A e \in Range(u) : \E m \in Range(list) : e = Move(k, h, m)
  BY <1>1, <1>5, <1>7 DEF Range
<1> QED BY <1>1, <1>2, <1>5, <1>7, <1>8, <1>9, <1>10

\* w is E and behind it methods of S, each signature once.
Behind(E, S, w) ==
    /\ w \in Seq(Methods) /\ E \in Seq(Methods) /\ Prefix(E, w)
    /\ \A x \in 1..Len(w) : x > Len(E) => w[x] \in S
    /\ \A x, y \in 1..Len(w) : x > Len(E) /\ y > Len(E) /\ w[x].sig = w[y].sig => x = y
\* Another list with other signatures.
LEMMA BehindConcat ==
    ASSUME NEW E, NEW S, NEW w, Behind(E, S, w), NEW a \in Seq(Methods), Distinct(a),
           \A m \in S, n \in Range(a) : m.sig /= n.sig
    PROVE  Behind(E, S \union Range(a), w \o a)
<1>1. PICK u : u = w \o a
  OBVIOUS
<1>2. w \in Seq(Methods) /\ E \in Seq(Methods) /\ Prefix(E, w)
  BY DEF Behind
<1>3. /\ u \in Seq(Methods) /\ Len(u) = Len(w) + Len(a) /\ Len(a) \in Nat /\ Len(w) \in Nat /\ Len(E) \in Nat
      /\ DOMAIN a = 1..Len(a) /\ Len(E) <= Len(w)
  BY <1>1, <1>2 DEF Prefix
<1>4. \A x \in 1..Len(w) : u[x] = w[x] /\ x \in 1..Len(u)
  BY <1>1, <1>2, <1>3
<1>5. \A x \in 1..Len(u) : x > Len(w) => x - Len(w) \in 1..Len(a) /\ u[x] = a[x - Len(w)] /\ u[x] \in Range(a)
  <2> SUFFICES ASSUME NEW x \in 1..Len(u), x > Len(w)
               PROVE  x - Len(w) \in 1..Len(a) /\ u[x] = a[x - Len(w)] /\ u[x] \in Range(a)
    OBVIOUS
  <2>1. x - Len(w) \in 1..Len(a)
    BY <1>3
  <2>2. u[x] = a[x - Len(w)]
    BY <1>1, <1>2, <1>3, <2>1
  <2> QED BY <1>3, <2>1, <2>2 DEF Range
<1>6. Prefix(E, u)
  <2>1. \A x \in 1..Len(E) : x \in 1..Len(w)
    BY <1>3
  <2> QED BY <2>1, <1>2, <1>3, <1>4 DEF Prefix
<1>7. ASSUME NEW x \in 1..Len(u), x > Len(E) PROVE u[x] \in S \union Range(a)
  <2>1. CASE x <= Len(w)
    <3>1. x \in 1..Len(w)
      BY <2>1, <1>3
    <3>2. w[x] \in S
      BY <3>1, <1>7 DEF Behind
    <3> QED BY <3>1, <3>2, <1>4
  <2>2. CASE x > Len(w)
    BY <2>2, <1>5
  <2> QED BY <2>1, <2>2, <1>3
<1>8. ASSUME NEW x \in 1..Len(u), NEW y \in 1..Len(u), x > Len(E), y > Len(E), u[x].sig = u[y].sig
      PROVE  x = y
  <2>1. CASE x <= Len(w) /\ y <= Len(w)
    <3>1. x \in 1..Len(w) /\ y \in 1..Len(w)
      BY <2>1, <1>3
    <3> QED BY <3>1, <1>4, <1>8 DEF Behind
  <2>2. CASE x <= Len(w) /\ y > Len(w)
    <3>1. x \in 1..Len(w)
      BY <2>2, <1>3
    <3>2. u[x] \in S /\ u[y] \in Range(a)
      BY <2>2, <3>1, <1>4, <1>5, <1>8 DEF Behind
    <3> QED BY <3>2, <1>8
  <2>3. CASE x > Len(w) /\ y <= Len(w)
    <3>1. y \in 1..Len(w)
      BY <2>3, <1>3
    <3>2. u[y] \in S /\ u[x] \in Range(a)
      BY <2>3, <3>1, <1>4, <1>5, <1>8 DEF Behind
    <3> QED BY <3>2, <1>8
  <2>4. CASE x > Len(w) /\ y > Len(w)
    <3>1. /\ x - Len(w) \in 1..Len(a) /\ y - Len(w) \in 1..Len(a)
          /\ a[x - Len(w)].sig = a[y - Len(w)].sig
      BY <2>4, <1>5, <1>8
    <3>2. x - Len(w) = y - Len(w)
      BY <3>1 DEF Distinct
    <3> QED BY <3>2, <1>3
  <2> QED BY <2>1, <2>2, <2>3, <2>4, <1>3
<1> QED BY <1>1, <1>2, <1>3, <1>6, <1>7, <1>8 DEF Behind

----------------------------------------------------------------------------
\* The vtable of the class.

\* The class k, not an interface, has come through its stages.
Prepared(k, d, t, v, h) ==
    /\ Linking(k, d, t) /\ ~d.iface /\ Virtual(k, d, t, v) /\ Looped(k, d, t, v, h) /\ h.err = "none"
\* A default method or the copy of an interface method, for k itself too.
Inherited(k, m) == m.decl /= k /\ Overridable(cls, m)

\* What the entries are before they are translated.
LEMMA VirtualEntries ==
    ASSUME NEW k, NEW d, NEW t, Linking(k, d, t), NEW v, Virtual(k, d, t, v)
    PROVE  LET sup == cls[d.super].vtable IN
           /\ v.vtable \in Seq(Methods) /\ sup \in Seq(Methods) /\ Len(sup) <= Len(v.vtable)
           /\ \A x \in 1..Len(v.vtable) :
                  /\ v.vtable[x] \in Methods /\ v.vtable[x].decl \in Linked(cls) \union {k}
                  /\ Inherited(k, v.vtable[x]) => v.vtable[x].pub /\ x \in 1..Len(sup) /\ Kept(sup, v, x)
                  /\ v.vtable[x].conf => ~v.vtable[x].abs
                  /\ v.vtable[x] \in Range(Declared(k, d)) \/ (x \in 1..Len(sup) /\ v.vtable[x] = sup[x])
           /\ \A x \in 1..Len(sup) : /\ sup[x].decl /= k /\ v.vtable[x].sig = sup[x].sig
                                     /\ x \in 1..Len(v.vtable) /\ (sup[x].conf => ~sup[x].abs)
<1>1. PICK sup : sup = cls[d.super].vtable
  OBVIOUS
<1>2. PICK decl : decl = Declared(k, d)
  OBVIOUS
<1>3. k \in Range(Order) /\ d \in Defs[k] /\ k \notin DOMAIN cls /\ Good(cls)
  BY DEF Linking
<1>4. EntriesWell(cls, sup) /\ sup \in Seq(Methods)
  BY <1>1, SuperFacts DEF EntriesWell
<1>5. /\ v.vtable \in Seq(Methods) /\ Len(sup) <= Len(v.vtable)
      /\ \A x \in 1..Len(sup) : v.vtable[x] = sup[x] \/ (v.vtable[x] \in Range(decl) /\ v.vtable[x].sig = sup[x].sig)
      /\ \A x \in 1..Len(v.vtable) : x > Len(sup) => v.vtable[x] \in Range(decl)
  BY <1>1, <1>2 DEF Virtual, VtableEntries
<1>6. Len(sup) \in Nat /\ Len(v.vtable) \in Nat
  BY <1>4, <1>5
<1>7. \A m \in Range(decl) : m.decl = k /\ ~m.conf
  <2>1. \A x \in DOMAIN decl : decl[x].decl = k /\ ~decl[x].conf
    BY <1>2, <1>3, DeclaredIs
  <2> QED BY <2>1 DEF Range
<1>8. \A x \in 1..Len(sup) : /\ sup[x].decl \in Linked(cls) /\ sup[x].decl /= k
                             /\ Overridable(cls, sup[x]) => sup[x].pub
                             /\ sup[x].conf => ~sup[x].abs
  BY <1>3, <1>4 DEF EntriesWell, Linked
<1>9. \A x \in 1..Len(sup) : x \in 1..Len(v.vtable) /\ v.vtable[x].sig = sup[x].sig
  BY <1>5, <1>6
<1>10. ASSUME NEW x \in 1..Len(v.vtable)
       PROVE  /\ v.vtable[x] \in Methods /\ v.vtable[x].decl \in Linked(cls) \union {k}
              /\ Inherited(k, v.vtable[x]) => v.vtable[x].pub /\ x \in 1..Len(sup) /\ Kept(sup, v, x)
              /\ v.vtable[x].conf => ~v.vtable[x].abs
              /\ v.vtable[x] \in Range(decl) \/ (x \in 1..Len(sup) /\ v.vtable[x] = sup[x])
  <2>0. v.vtable[x] \in Methods
    BY <1>5
  <2>1. CASE v.vtable[x] \in Range(decl)
    BY <2>0, <2>1, <1>7 DEF Inherited
  <2>2. CASE v.vtable[x] \notin Range(decl)
    <3>1. x \in 1..Len(sup) /\ v.vtable[x] = sup[x]
      BY <2>2, <1>5, <1>6
    <3>2. Inherited(k, v.vtable[x]) => Overridable(cls, sup[x]) /\ Kept(sup, v, x)
      BY <3>1 DEF Inherited, Kept, Overridable, IsOverridableByDefaultMethod
    <3> QED BY <2>0, <3>1, <3>2, <1>8
  <2> QED BY <2>1, <2>2
<1> QED BY <1>1, <1>2, <1>4, <1>5, <1>8, <1>9, <1>10

\* Entries of a signature behind a kept entry are copies of it, and are translated
\* as it is.
Copies(v, x, y) ==
    /\ v.vtable[y] = v.vtable[x] /\ (x \in DOMAIN v.trans <=> y \in DOMAIN v.trans)
    /\ x \in DOMAIN v.trans => v.trans[x] = v.trans[y]

\* An inherited entry that the class leaves alone repeats only as itself, and both copies are translated alike.
LEMMA KeptRepeats ==
    ASSUME NEW k, NEW d, NEW t, Linking(k, d, t), NEW v, Virtual(k, d, t, v),
           NEW x \in 1..Len(cls[d.super].vtable), Kept(cls[d.super].vtable, v, x),
           NEW y \in 1..Len(v.vtable), x < y, v.vtable[y].sig = v.vtable[x].sig
    PROVE  Copies(v, x, y)
<1>1. PICK sup : sup = cls[d.super].vtable
  OBVIOUS
<1>2. PICK supt : supt = cls[d.super].iftable
  OBVIOUS
<1>3. PICK decl : decl = Declared(k, d)
  OBVIOUS
<1>4. x \in 1..Len(sup) /\ Kept(sup, v, x) /\ v.vtable[x] = sup[x] /\ IsOverridableByDefaultMethod(sup[x])
  BY <1>1 DEF Kept
<1>5. v.vtable[y] = sup[x]
  BY <1>1, <1>4 DEF Virtual, VtableKept
<1>6. /\ \A z \in 1..Len(v.vtable) : v.vtable[z] \in Range(decl) \/ (z \in 1..Len(sup) /\ v.vtable[z] = sup[z])
      /\ \A z \in 1..Len(sup) : sup[z].decl /= k
  BY <1>1, <1>3, VirtualEntries
<1>7. \A m \in Range(decl) : m.decl = k
  <2>1. k \in Range(Order) /\ d \in Defs[k]
    BY DEF Linking
  <2>2. \A z \in DOMAIN decl : decl[z].decl = k
    BY <1>3, <2>1, DeclaredIs
  <2> QED BY <2>2 DEF Range
<1>8. y \in 1..Len(sup) /\ sup[y] = sup[x] /\ v.vtable[y] = sup[y]
  BY <1>4, <1>5, <1>6, <1>7
<1>9. Kept(sup, v, y)
  BY <1>4, <1>8 DEF Kept
<1>10. PICK r : r = FindDefaultMethodImplementation(sup[x].sig, t)
  OBVIOUS
<1>11. /\ x \in DOMAIN v.trans => v.trans[x] = r /\ Outdated(sup[x], r)
       /\ y \in DOMAIN v.trans => v.trans[y] = r /\ Outdated(sup[x], r)
  BY <1>1, <1>8, <1>10 DEF Virtual, VtableTranslations
<1>12. \/ DOMAIN v.trans = {}
       \/ /\ Outdated(sup[x], r) => x \in DOMAIN v.trans
          /\ Outdated(sup[x], r) => y \in DOMAIN v.trans
  BY <1>1, <1>2, <1>4, <1>8, <1>9, <1>10 DEF Virtual, VtableTranslated
<1> QED BY <1>4, <1>5, <1>11, <1>12 DEF Copies

\* What a translated entry is.
NewEntry(k, v, h, x, e) ==
    \/ x \notin DOMAIN v.trans /\ e = Move(k, h, v.vtable[x])
    \/ /\ x \in DOMAIN v.trans /\ v.trans[x].res = "conflict"
       /\ \E m \in Range(h.overridingConflict) : m.sig = v.vtable[x].sig /\ e = Move(k, h, m)
    \/ /\ x \in DOMAIN v.trans /\ v.trans[x].res = "abstract" /\ e = v.vtable[x] /\ Absent(v.vtable[x].sig, h.miranda)
    \/ /\ x \in DOMAIN v.trans /\ v.trans[x].res = "abstract"
       /\ \E m \in Range(h.miranda) : m.sig = v.vtable[x].sig /\ e = Move(k, h, m)
    \/ /\ x \in DOMAIN v.trans /\ v.trans[x].res = "found"
       /\ \E m \in Range(h.default) \union Range(h.overridingDefault) :
              m.sig = v.vtable[x].sig /\ e = Move(k, h, m)
\* TranslateVtableEntry, when the checks hold.
LEMMA NewEntryIs ==
    ASSUME NEW k, NEW d, NEW t, NEW v, NEW h, Prepared(k, d, t, v, h), TranslationCheck(v, h) = "none",
           NEW x \in 1..Len(v.vtable)
    PROVE  NewEntry(k, v, h, x, TranslateVtableEntry(k, v, h, x))
<1>0. /\ Linking(k, d, t) /\ ~d.iface /\ Virtual(k, d, t, v) /\ Looped(k, d, t, v, h) /\ h.err = "none"
      /\ Lists(k, t, v, cls[d.super].iftable, h) /\ Good(cls) /\ TableOrdered(cls, t)
  BY DEF Prepared, Looped, HelperOK, Linking
<1>1. PICK e : e = TranslateVtableEntry(k, v, h, x)
  OBVIOUS
<1>2. PICK r : r = v.trans[x]
  OBVIOUS
<1>3. PICK m : m = v.vtable[x]
  OBVIOUS
<1>4. PICK sup : sup = cls[d.super].vtable
  OBVIOUS
<1>5. CASE x \notin DOMAIN v.trans
  BY <1>1, <1>5 DEF TranslateVtableEntry, NewEntry
<1>6. CASE x \in DOMAIN v.trans
  <2>1. /\ x \in 1..Len(sup) /\ Kept(sup, v, x) /\ r = FindDefaultMethodImplementation(m.sig, t)
    BY <1>0, <1>2, <1>3, <1>4, <1>6 DEF Virtual, VtableTranslations, Kept
  <2>2. Searchable(t)
    BY <1>0, TableSearchable
  <2>3. r.res \in {"abstract", "found", "conflict"} /\ (r.res = "found" => r.m.sig = m.sig)
    BY <2>1, <2>2, SearchFacts
  <2>4. CASE r.res = "conflict"
    <3>1. PICK c : c = FindSameNameAndSignature(m.sig, h.overridingConflict)
      OBVIOUS
    <3>2. c \in Range(h.overridingConflict) /\ c.sig = m.sig
      BY <1>0, <1>2, <1>3, <1>6, <2>4, <3>1, ConflictCreated
    <3>3. e = Move(k, h, c)
      BY <1>1, <1>2, <1>3, <1>6, <2>4, <3>1 DEF TranslateVtableEntry
    <3> QED BY <1>1, <1>2, <1>3, <1>6, <2>4, <3>2, <3>3 DEF NewEntry
  <2>5. CASE r.res = "abstract"
    <3>1. PICK c : c = FindSameNameAndSignature(m.sig, h.miranda)
      OBVIOUS
    <3>2. h.miranda \in Seq(Methods)
      BY <1>0 DEF Lists, MirandaList
    <3>3. \/ c \in Range(h.miranda) /\ c.sig = m.sig /\ c /= NoMethod
          \/ c = NoMethod /\ Absent(m.sig, h.miranda)
      BY <3>1, <3>2, FindIs DEF Absent
    <3>4. e = IF c = NoMethod THEN m ELSE Move(k, h, c)
      BY <1>1, <1>2, <1>3, <1>6, <2>5, <3>1 DEF TranslateVtableEntry
    <3> QED BY <1>1, <1>2, <1>3, <1>6, <2>5, <3>3, <3>4 DEF NewEntry
  <2>6. CASE r.res = "found"
    <3>1. r.m \in Range(h.default \o h.overridingDefault)
      BY <1>2, <1>6, <2>6 DEF TranslationCheck
    <3>2. r.m \in Range(h.default) \union Range(h.overridingDefault)
      BY <1>0, <3>1, TwoLists
    <3>3. e = Move(k, h, r.m)
      BY <1>1, <1>2, <1>3, <1>6, <2>6 DEF TranslateVtableEntry
    <3> QED BY <1>1, <1>2, <1>3, <1>6, <2>3, <2>6, <3>2, <3>3 DEF NewEntry
  <2> QED BY <2>3, <2>4, <2>5, <2>6
<1> QED BY <1>5, <1>6

\* The virtual methods of the class: what it declares and the copies.
Virtuals(k, d, h) == Declared(k, d) \o MoveAll(k, h, NewVirtuals(h))

\* What Prepared says at once.
LEMMA PreparedFacts ==
    ASSUME NEW k, NEW d, NEW t, NEW v, NEW h, Prepared(k, d, t, v, h)
    PROVE  /\ Linking(k, d, t) /\ ~d.iface /\ Virtual(k, d, t, v) /\ Looped(k, d, t, v, h) /\ h.err = "none"
           /\ Lists(k, t, v, cls[d.super].iftable, h) /\ Good(cls) /\ TableOrdered(cls, t)
           /\ k \in Names /\ k \in Range(Order) /\ d \in Defs[k] /\ k \notin DOMAIN cls
           /\ Range(t) \subseteq Linked(cls)
<1>1. k \in Range(Order) /\ Good(cls) /\ TableOrdered(cls, t) /\ d \in Defs[k] /\ k \notin DOMAIN cls
  BY DEF Prepared, Linking
<1>2. k \in Names
  BY <1>1, NameFacts
<1>3. Range(t) \subseteq Linked(cls)
  BY <1>1 DEF TableOrdered
<1> QED BY <1>1, <1>2, <1>3 DEF Prepared, Looped, HelperOK

\* The copy of a listed method.
LEMMA ListedMove ==
    ASSUME NEW k, NEW d, NEW t, NEW v, NEW h, Prepared(k, d, t, v, h), NEW m \in Listed(h)
    PROVE  /\ Move(k, h, m) \in Methods /\ Move(k, h, m).sig = m.sig /\ Move(k, h, m).decl \in Linked(cls)
           /\ Move(k, h, m).pub /\ (Move(k, h, m).conf => ~Move(k, h, m).abs)
           /\ Move(k, h, m) \in Range(Virtuals(k, d, h))
<1>1. m \in Methods /\ m.decl \in Range(t) /\ m.pub /\ ~m.conf
  BY PreparedFacts, ListedFacts
<1>2. k \in Names /\ Range(t) \subseteq Linked(cls)
  BY PreparedFacts
<1>3. /\ Move(k, h, m) \in Methods /\ Move(k, h, m).sig = m.sig /\ Move(k, h, m).decl = m.decl
      /\ Move(k, h, m).pub = m.pub /\ (Move(k, h, m).conf => ~Move(k, h, m).abs)
  BY <1>1, <1>2, MoveIs
<1>4. Move(k, h, m) \in Range(Virtuals(k, d, h))
  <2>1. NewVirtuals(h) \in Seq(Methods) /\ m \in Range(NewVirtuals(h))
    BY PreparedFacts, TwoLists
  <2>2. /\ MoveAll(k, h, NewVirtuals(h)) \in Seq(Methods)
        /\ Move(k, h, m) \in Range(MoveAll(k, h, NewVirtuals(h)))
    BY <1>2, <2>1, MoveAllIs
  <2>3. Declared(k, d) \in Seq(Methods)
    BY PreparedFacts, DeclaredIs
  <2> QED BY <2>2, <2>3, ConcatFacts DEF Virtuals
<1> QED BY <1>1, <1>2, <1>3, <1>4

\* Of a translated entry.
EntryTyped(k, d, v, h, x, e) ==
    LET sup == cls[d.super].vtable IN
    /\ e \in Methods /\ e.sig = v.vtable[x].sig /\ e.decl \in Linked(cls) \union {k}
    /\ Inherited(k, e) => e.pub /\ x \in 1..Len(sup) /\ Kept(sup, v, x)
    /\ e.conf => ~e.abs
    /\ e \in Range(Virtuals(k, d, h)) \/ (x \in 1..Len(sup) /\ e = sup[x])

\* An entry of the updated vtable is a method of the class or the superclass's entry of the slot.
LEMMA EntryTypedIs ==
    ASSUME NEW k, NEW d, NEW t, NEW v, NEW h, Prepared(k, d, t, v, h),
           NEW x \in 1..Len(v.vtable), NEW e, NewEntry(k, v, h, x, e)
    PROVE  EntryTyped(k, d, v, h, x, e)
<1>0. /\ Linking(k, d, t) /\ Virtual(k, d, t, v) /\ k \in Names /\ k \in Range(Order) /\ d \in Defs[k]
      /\ Lists(k, t, v, cls[d.super].iftable, h) /\ Good(cls) /\ TableOrdered(cls, t)
  BY PreparedFacts
<1>1. PICK sup : sup = cls[d.super].vtable
  OBVIOUS
<1>2. PICK m : m = v.vtable[x]
  OBVIOUS
<1>3. /\ m \in Methods /\ m.decl \in Linked(cls) \union {k}
      /\ Inherited(k, m) => m.pub /\ x \in 1..Len(sup) /\ Kept(sup, v, x)
      /\ m.conf => ~m.abs
      /\ m \in Range(Declared(k, d)) \/ (x \in 1..Len(sup) /\ m = sup[x])
  BY <1>0, <1>1, <1>2, VirtualEntries
<1>4. Range(Declared(k, d)) \subseteq Range(Virtuals(k, d, h))
  <2>1. NewVirtuals(h) \in Seq(Methods)
    BY <1>0, TwoLists
  <2>2. MoveAll(k, h, NewVirtuals(h)) \in Seq(Methods)
    BY <1>0, <2>1, MoveAllIs
  <2>3. Declared(k, d) \in Seq(Methods)
    BY <1>0, DeclaredIs
  <2> QED BY <2>2, <2>3, ConcatFacts DEF Virtuals
<1>5. CASE e = m
  BY <1>1, <1>2, <1>3, <1>4, <1>5 DEF EntryTyped
<1>6. \A y \in DOMAIN v.trans : y \in 1..Len(sup) /\ Kept(sup, v, y)
  BY <1>0, <1>1 DEF Virtual, VtableTranslations
<1>7. ASSUME NEW c \in Listed(h), e = Move(k, h, c), c.sig = m.sig, x \in 1..Len(sup) /\ Kept(sup, v, x)
      PROVE  EntryTyped(k, d, v, h, x, e)
  <2>1. /\ e \in Methods /\ e.sig = c.sig /\ e.decl \in Linked(cls) /\ e.pub /\ (e.conf => ~e.abs)
        /\ e \in Range(Virtuals(k, d, h))
    BY <1>7, ListedMove
  <2> QED BY <2>1, <1>1, <1>2, <1>7 DEF EntryTyped
<1>8. CASE x \notin DOMAIN v.trans /\ e = Move(k, h, m)
  <2>1. CASE m \notin Listed(h)
    <3>1. e = m
      BY <1>0, <1>8, <2>1, MoveKinds
    <3> QED BY <3>1, <1>5
  <2>2. CASE m \in Listed(h)
    <3>1. /\ e \in Methods /\ e.sig = m.sig /\ e.decl \in Linked(cls) /\ e.pub /\ (e.conf => ~e.abs)
          /\ e \in Range(Virtuals(k, d, h))
      BY <1>8, <2>2, ListedMove
    <3>2. e.decl = m.decl
      BY <1>0, <1>3, <1>8, MoveIs
    <3>3. Inherited(k, e) => Inherited(k, m)
      BY <3>2 DEF Inherited, Overridable
    <3> QED BY <3>1, <3>3, <1>1, <1>2, <1>3 DEF EntryTyped
  <2> QED BY <2>1, <2>2
<1>9. CASE x \in DOMAIN v.trans /\ \E c \in Listed(h) : c.sig = m.sig /\ e = Move(k, h, c)
  BY <1>6, <1>7, <1>9
<1>10. \/ x \notin DOMAIN v.trans /\ e = Move(k, h, m)
       \/ e = m
       \/ x \in DOMAIN v.trans /\ \E c \in Listed(h) : c.sig = m.sig /\ e = Move(k, h, c)
  BY <1>2 DEF NewEntry, Listed
<1> QED BY <1>5, <1>8, <1>9, <1>10

\* The three lists whose copies go behind the entries have different signatures.
LEMMA ListsDiffer ==
    ASSUME NEW k, NEW d, NEW t, NEW v, NEW h, Prepared(k, d, t, v, h)
    PROVE  /\ \A m \in Range(h.default), n \in Range(h.conflict) : m.sig /= n.sig
           /\ \A m \in Range(h.default), n \in Range(h.miranda) : m.sig /= n.sig
           /\ \A m \in Range(h.conflict), n \in Range(h.miranda) : m.sig /= n.sig
<1>1. Lists(k, t, v, cls[d.super].iftable, h)
  BY PreparedFacts
<1>2. \A m \in Range(h.default) : FindDefaultMethodImplementation(m.sig, t).res = "found"
  BY <1>1 DEF Lists, DefaultList, DefaultWell
<1>3. \A m \in Range(h.conflict) : FindDefaultMethodImplementation(m.sig, t).res = "conflict"
  BY <1>1 DEF Lists, ConflictList, ConflictWell
<1>4. \A m \in Range(h.miranda) : FindDefaultMethodImplementation(m.sig, t).res = "abstract"
  BY <1>1 DEF Lists, MirandaList, MirandaWell
<1> QED BY <1>2, <1>3, <1>4

\* Behind its old entries the vtable has copies of those lists, a signature once.
Extended(k, h, E, w) ==
    /\ w \in Seq(Methods) /\ E \in Seq(Methods) /\ Prefix(E, w)
    /\ \A x \in 1..Len(w) : x > Len(E) =>
           \E m \in Range(h.default) \union Range(h.conflict) \union Range(h.miranda) : w[x] = Move(k, h, m)
    /\ \A x, y \in 1..Len(w) : x > Len(E) /\ y > Len(E) /\ w[x].sig = w[y].sig => x = y

\* UpdateVtable translates the entries in place and appends the new methods, each signature once.
LEMMA UpdateVtableIs ==
    ASSUME NEW k, NEW d, NEW t, NEW v, NEW h, Prepared(k, d, t, v, h), TranslationCheck(v, h) = "none"
    PROVE  \E E : /\ Len(E) = Len(v.vtable) /\ \A x \in 1..Len(E) : NewEntry(k, v, h, x, E[x])
                  /\ \A x \in 1..Len(E) : E[x] = TranslateVtableEntry(k, v, h, x)
                  /\ Extended(k, h, E, UpdateVtable(k, v, h))
<1>0. /\ Linking(k, d, t) /\ Virtual(k, d, t, v) /\ k \in Names /\ Lists(k, t, v, cls[d.super].iftable, h)
  BY PreparedFacts
<1>1. PICK n \in Nat : n = Len(v.vtable) /\ DOMAIN v.vtable = 1..n
  BY <1>0 DEF Virtual, VtableEntries
<1>2. PICK E : E = [i \in 1..n |-> TranslateVtableEntry(k, v, h, i)]
  OBVIOUS
<1>3. \A x \in 1..n : NewEntry(k, v, h, x, E[x])
  <2> TAKE x \in 1..n
  <2>1. NewEntry(k, v, h, x, TranslateVtableEntry(k, v, h, x))
    BY <1>1, NewEntryIs
  <2> QED BY <1>2, <2>1
<1>4. E \in Seq(Methods) /\ Len(E) = n
  <2>1. \A x \in 1..n : E[x] \in Methods
    <3> TAKE x \in 1..n
    <3>1. EntryTyped(k, d, v, h, x, E[x])
      BY <1>1, <1>3, EntryTypedIs
    <3> QED BY <3>1 DEF EntryTyped
  <2>2. E \in [1..n -> Methods]
    BY <1>2, <2>1
  <2> QED BY <2>2
<1>5. PICK a : a = MoveAll(k, h, h.default)
  OBVIOUS
<1>6. PICK b : b = MoveAll(k, h, h.conflict)
  OBVIOUS
<1>7. PICK c : c = MoveAll(k, h, h.miranda)
  OBVIOUS
<1>8. /\ h.default \in Seq(Methods) /\ Distinct(h.default) /\ h.conflict \in Seq(Methods) /\ Distinct(h.conflict)
      /\ h.miranda \in Seq(Methods) /\ Distinct(h.miranda)
  BY <1>0 DEF Lists, DefaultList, ConflictList, MirandaList
<1>9. /\ a \in Seq(Methods) /\ Distinct(a) /\ \A e \in Range(a) : \E m \in Range(h.default) : e = Move(k, h, m)
      /\ b \in Seq(Methods) /\ Distinct(b) /\ \A e \in Range(b) : \E m \in Range(h.conflict) : e = Move(k, h, m)
      /\ c \in Seq(Methods) /\ Distinct(c) /\ \A e \in Range(c) : \E m \in Range(h.miranda) : e = Move(k, h, m)
  BY <1>0, <1>5, <1>6, <1>7, <1>8, MoveAllIs
<1>10. /\ \A m \in Range(h.default) : Move(k, h, m).sig = m.sig
       /\ \A m \in Range(h.conflict) : Move(k, h, m).sig = m.sig
       /\ \A m \in Range(h.miranda) : Move(k, h, m).sig = m.sig
  <2>1. \A m \in Listed(h) : Move(k, h, m).sig = m.sig
    BY ListedMove
  <2> QED BY <2>1 DEF Listed
<1>11. /\ \A m \in Range(a), e \in Range(b) : m.sig /= e.sig
       /\ \A m \in Range(a) \union Range(b), e \in Range(c) : m.sig /= e.sig
  <2>1. /\ \A m \in Range(h.default), e \in Range(h.conflict) : m.sig /= e.sig
        /\ \A m \in Range(h.default), e \in Range(h.miranda) : m.sig /= e.sig
        /\ \A m \in Range(h.conflict), e \in Range(h.miranda) : m.sig /= e.sig
    BY ListsDiffer
  <2>2. \A e \in Range(a) : \E m \in Range(h.default) : e.sig = m.sig
    BY <1>9, <1>10
  <2>3. \A e \in Range(b) : \E m \in Range(h.conflict) : e.sig = m.sig
    BY <1>9, <1>10
  <2>4. \A e \in Range(c) : \E m \in Range(h.miranda) : e.sig = m.sig
    BY <1>9, <1>10
  <2> QED BY <2>1, <2>2, <2>3, <2>4
<1>12. Behind(E, {}, E)
  <2>1. Len(E) \in Nat
    BY <1>4
  <2> QED BY <1>4, <2>1 DEF Behind, Prefix
<1>13. Behind(E, {} \union Range(a), E \o a)
  BY <1>9, <1>12, BehindConcat
<1>14. PICK S : S = {} \union Range(a)
  OBVIOUS
<1>15. PICK w1 : w1 = E \o a
  OBVIOUS
<1>16. Behind(E, S, w1) /\ S = Range(a)
  BY <1>13, <1>14, <1>15
<1>17. Behind(E, S \union Range(b), w1 \o b)
  BY <1>9, <1>11, <1>16, BehindConcat
<1>18. PICK w2 : w2 = w1 \o b
  OBVIOUS
<1>19. PICK S2 : S2 = S \union Range(b)
  OBVIOUS
<1>20. Behind(E, S2, w2) /\ S2 = Range(a) \union Range(b)
  BY <1>16, <1>17, <1>18, <1>19
<1>21. Behind(E, S2 \union Range(c), w2 \o c)
  BY <1>9, <1>11, <1>20, BehindConcat
<1>22. PICK w : w = UpdateVtable(k, v, h)
  OBVIOUS
<1>23. w = w2 \o c
  BY <1>1, <1>2, <1>5, <1>6, <1>7, <1>15, <1>18, <1>22 DEF UpdateVtable
<1>24. ASSUME NEW x \in 1..Len(w), x > Len(E)
       PROVE  \E m \in Range(h.default) \union Range(h.conflict) \union Range(h.miranda) : w[x] = Move(k, h, m)
  <2>1. w[x] \in S2 \union Range(c)
    BY <1>21, <1>23, <1>24 DEF Behind
  <2> QED BY <2>1, <1>9, <1>20
<1>25. Extended(k, h, E, w)
  BY <1>21, <1>23, <1>24 DEF Behind, Extended
<1> QED BY <1>1, <1>2, <1>3, <1>4, <1>22, <1>25

\* The vtable w of the class: the entries, the repeats, and the clashes.
NowTyped(k, w) ==
    /\ w \in Seq(Methods)
    /\ \A x \in 1..Len(w) : /\ w[x].decl \in Linked(cls) \union {k} /\ (Inherited(k, w[x]) => w[x].pub)
                            /\ (w[x].conf => ~w[x].abs)
NowRepeats(k, w) == \A x, y \in 1..Len(w) : x < y /\ w[x].sig = w[y].sig /\ Inherited(k, w[x]) => w[y] = w[x]
NowSettles(k, t, w) == \A x \in 1..Len(w) : Inherited(k, w[x]) /\ Clash(cls, w[x].sig, t) => w[x].conf
VtableNow(k, d, t, h, w) ==
    /\ NowTyped(k, w) /\ NowRepeats(k, w) /\ NowSettles(k, t, w)
    /\ Owned(w, Virtuals(k, d, h), cls[d.super].vtable) /\ SlotsSame(w, cls[d.super].vtable)

\* A clash makes the search find a conflict.
LEMMA ClashSearch ==
    ASSUME NEW k, NEW d, NEW t, NEW v, NEW h, Prepared(k, d, t, v, h), NEW s
    PROVE  Clash(cls, s, t) <=> FindDefaultMethodImplementation(s, t).res = "conflict"
<1>1. Searchable(t)
  BY PreparedFacts, TableSearchable
<1> QED BY <1>1, SearchFacts

\* An entry that was kept and is not translated is not outdated.
LEMMA NotOutdated ==
    ASSUME NEW k, NEW d, NEW t, NEW v, NEW h, Prepared(k, d, t, v, h),
           NEW x \in 1..Len(cls[d.super].vtable), Kept(cls[d.super].vtable, v, x), x \notin DOMAIN v.trans,
           Clash(cls, v.vtable[x].sig, t)
    PROVE  v.vtable[x].conf
<1>1. PICK sup : sup = cls[d.super].vtable
  OBVIOUS
<1>2. PICK supt : supt = cls[d.super].iftable
  OBVIOUS
<1>3. x \in 1..Len(sup) /\ Kept(sup, v, x) /\ v.vtable[x] = sup[x] /\ Overridable(cls, sup[x])
  BY <1>1 DEF Kept, Overridable, IsOverridableByDefaultMethod
<1>4. FindDefaultMethodImplementation(sup[x].sig, t).res = "conflict"
  BY <1>3, ClashSearch
<1>5. Virtual(k, d, t, v)
  BY PreparedFacts
<1>6. \/ Settles(cls, sup, t)
      \/ Outdated(sup[x], FindDefaultMethodImplementation(sup[x].sig, t)) => x \in DOMAIN v.trans
  BY <1>1, <1>2, <1>3, <1>5 DEF Virtual, VtableTranslated
<1>7. CASE Settles(cls, sup, t)
  BY <1>3, <1>7 DEF Settles
<1>8. CASE ~Outdated(sup[x], FindDefaultMethodImplementation(sup[x].sig, t))
  BY <1>3, <1>4, <1>8 DEF Outdated
<1> QED BY <1>6, <1>7, <1>8

\* Without new methods the vtable stays as LinkVirtualMethods made it.
LEMMA UnchangedVtable ==
    ASSUME NEW k, NEW d, NEW t, NEW v, NEW h, Prepared(k, d, t, v, h), NewVirtuals(h) = <<>>
    PROVE  VtableNow(k, d, t, h, v.vtable)
<1>0. /\ Linking(k, d, t) /\ ~d.iface /\ Virtual(k, d, t, v) /\ Looped(k, d, t, v, h) /\ h.err = "none"
      /\ k \in Names /\ k \in Range(Order) /\ d \in Defs[k]
      /\ Lists(k, t, v, cls[d.super].iftable, h)
  BY PreparedFacts
<1>1. PICK sup : sup = cls[d.super].vtable
  OBVIOUS
<1>2. PICK w : w = v.vtable
  OBVIOUS
<1>3. /\ w \in Seq(Methods) /\ sup \in Seq(Methods) /\ Len(sup) <= Len(w)
      /\ \A x \in 1..Len(w) :
                  /\ w[x] \in Methods /\ w[x].decl \in Linked(cls) \union {k}
                  /\ (Inherited(k, w[x]) => w[x].pub /\ x \in 1..Len(sup) /\ Kept(sup, v, x))
                  /\ (w[x].conf => ~w[x].abs)
                  /\ w[x] \in Range(Declared(k, d)) \/ (x \in 1..Len(sup) /\ w[x] = sup[x])
      /\ \A x \in 1..Len(sup) : w[x].sig = sup[x].sig
  BY <1>0, <1>1, <1>2, VirtualEntries
<1>4. NowTyped(k, w)
  BY <1>3 DEF NowTyped
<1>5. NowRepeats(k, w)
  <2> SUFFICES ASSUME NEW x \in 1..Len(w), NEW y \in 1..Len(w), x < y, w[x].sig = w[y].sig, Inherited(k, w[x])
               PROVE  w[y] = w[x]
    BY DEF NowRepeats
  <2>1. x \in 1..Len(sup) /\ Kept(sup, v, x)
    BY <1>3
  <2>2. Copies(v, x, y)
    BY <1>0, <1>1, <1>2, <2>1, KeptRepeats
  <2> QED BY <1>2, <2>2 DEF Copies
<1>6. NowSettles(k, t, w)
  <2> SUFFICES ASSUME NEW x \in 1..Len(w), Inherited(k, w[x]), Clash(cls, w[x].sig, t) PROVE w[x].conf
    BY DEF NowSettles
  <2>1. x \in 1..Len(sup) /\ Kept(sup, v, x)
    BY <1>3
  <2>2. CASE x \notin DOMAIN v.trans
    BY <1>1, <1>2, <2>1, <2>2, NotOutdated
  <2>3. CASE x \in DOMAIN v.trans
    <3>1. FindDefaultMethodImplementation(w[x].sig, t).res = "conflict"
      BY ClashSearch
    <3>2. v.trans[x].res = "conflict"
      BY <1>0, <1>1, <1>2, <2>1, <2>3, <3>1 DEF Virtual, VtableTranslations, Kept
    <3>3. FindSameNameAndSignature(v.vtable[x].sig, h.overridingConflict) \in Range(h.overridingConflict)
      BY <1>0, <2>3, <3>2, ConflictCreated
    <3>4. Listed(h) = Range(<<>>)
      BY <1>0, TwoLists
    <3>5. Range(h.overridingConflict) \subseteq Listed(h)
      BY DEF Listed
    <3>6. Range(<<>>) = {}
      BY DEF Range
    <3> QED BY <3>3, <3>4, <3>5, <3>6
  <2> QED BY <2>2, <2>3
<1>7. Owned(w, Virtuals(k, d, h), sup)
  <2>1. MoveAll(k, h, NewVirtuals(h)) \in Seq(Methods)
    <3>1. NewVirtuals(h) \in Seq(Methods)
      BY <1>0, TwoLists
    <3> QED BY <1>0, <3>1, MoveAllIs
  <2>2. Declared(k, d) \in Seq(Methods)
    BY <1>0, DeclaredIs
  <2>3. Range(Declared(k, d)) \subseteq Range(Virtuals(k, d, h))
    BY <2>1, <2>2, ConcatFacts DEF Virtuals
  <2>4. DOMAIN w = 1..Len(w) /\ DOMAIN sup = 1..Len(sup)
    BY <1>3
  <2> QED BY <1>3, <2>3, <2>4 DEF Owned
<1>8. SlotsSame(w, sup)
  <2>1. DOMAIN sup = 1..Len(sup)
    BY <1>3
  <2> QED BY <1>3, <2>1 DEF SlotsSame
<1> QED BY <1>1, <1>2, <1>4, <1>5, <1>6, <1>7, <1>8 DEF VtableNow

\* The entry of a signature that a miranda method is made for becomes its copy.
LEMMA MirandaReplaces ==
    ASSUME NEW k, NEW d, NEW t, NEW v, NEW h, Prepared(k, d, t, v, h),
           NEW x \in 1..Len(cls[d.super].vtable), Kept(cls[d.super].vtable, v, x),
           NEW m \in Range(h.miranda), m.sig = v.vtable[x].sig,
           NEW e, NewEntry(k, v, h, x, e)
    PROVE  e = Move(k, h, m)
<1>0. /\ Linking(k, d, t) /\ Virtual(k, d, t, v) /\ Lists(k, t, v, cls[d.super].iftable, h)
  BY PreparedFacts
<1>1. PICK sup : sup = cls[d.super].vtable
  OBVIOUS
<1>2. PICK supt : supt = cls[d.super].iftable
  OBVIOUS
<1>3. PICK s : s = m.sig
  OBVIOUS
<1>4. /\ x \in 1..Len(v.vtable) /\ (sup[x].conf => ~sup[x].abs)
      /\ v.vtable \in Seq(Methods)
  BY <1>0, <1>1, VirtualEntries
<1>5. v.vtable[x] = sup[x] /\ sup[x].sig = s /\ Kept(sup, v, x) /\ x \in 1..Len(sup)
  BY <1>1, <1>3 DEF Kept
<1>6. MirandaWell(k, t, v, supt, m)
  BY <1>0, <1>2 DEF Lists, MirandaList
<1>7. FindDefaultMethodImplementation(s, t).res = "abstract" /\ Len(supt) < Len(t)
  BY <1>3, <1>6 DEF MirandaWell
<1>8. PICK z \in 1..Len(v.vtable) : LastEntry(v, s, z)
  <2>1. PICK n \in Nat : n = Len(v.vtable)
    BY <1>4
  <2>2. PICK hits : hits = {z \in 1..n : v.vtable[z].sig = s}
    OBVIOUS
  <2>3. hits \subseteq 0..n /\ hits /= {}
    BY <1>4, <1>5, <2>1, <2>2
  <2>4. PICK z \in hits : \A y \in hits : y <= z
    BY <2>3, MaxIs
  <2>5. \A y \in 1..Len(v.vtable) : y > z => v.vtable[y].sig /= s
    <3> SUFFICES ASSUME NEW y \in 1..Len(v.vtable), y > z, v.vtable[y].sig = s PROVE FALSE
      OBVIOUS
    <3>1. y \in hits
      BY <2>1, <2>2
    <3>2. y <= z /\ y \in Nat /\ z \in Nat
      BY <2>2, <2>4, <3>1
    <3> QED BY <3>2
  <2> QED BY <2>1, <2>2, <2>4, <2>5 DEF LastEntry
<1>9. v.vtable[z] = sup[x]
  <2>1. x \in Nat /\ z \in Nat /\ ~(x > z)
    BY <1>4, <1>5, <1>8 DEF LastEntry
  <2>2. CASE x < z
    <3>1. Copies(v, x, z)
      BY <1>0, <1>1, <1>5, <1>8, <2>2, KeptRepeats DEF LastEntry
    <3> QED BY <1>5, <3>1 DEF Copies
  <2>3. CASE x = z
    BY <1>5, <2>3
  <2> QED BY <2>1, <2>2, <2>3
<1>10. ~(sup[x].abs /\ ~sup[x].conf)
  BY <1>3, <1>6, <1>8, <1>9 DEF MirandaWell
<1>11. ~sup[x].abs
  BY <1>4, <1>10
<1>12. Outdated(sup[x], FindDefaultMethodImplementation(sup[x].sig, t))
  BY <1>5, <1>7, <1>11 DEF Outdated
<1>13. x \in DOMAIN v.trans
  <2>1. supt \in Seq(Names) /\ t \in Seq(Names)
    BY <1>0, <1>2, SuperFacts DEF TableOrdered, Linking
  <2>2. Len(supt) \in Nat /\ Len(t) \in Nat
    BY <2>1
  <2>3. Len(supt) /= Len(t)
    BY <1>7, <2>2
  <2> QED BY <1>0, <1>1, <1>2, <1>5, <1>12, <2>3 DEF Virtual, VtableTranslated
<1>14. v.trans[x].res = "abstract"
  BY <1>0, <1>1, <1>5, <1>7, <1>13 DEF Virtual, VtableTranslations
<1>15. h.miranda \in Seq(Methods) /\ Distinct(h.miranda)
  BY <1>0 DEF Lists, MirandaList
<1>16. ~Absent(s, h.miranda)
  BY <1>3, <1>15, NotAbsent
<1>17. \A c \in Range(h.miranda) : c.sig = s => c = m
  <2>1. DOMAIN h.miranda = 1..Len(h.miranda)
    BY <1>15
  <2> QED BY <1>3, <1>15, <2>1 DEF Distinct, Range
<1>18. PICK c \in Range(h.miranda) : c.sig = s /\ e = Move(k, h, c)
  BY <1>3, <1>5, <1>13, <1>14, <1>16 DEF NewEntry
<1> QED BY <1>17, <1>18

\* Translating keeps what is needed of the vtable.
LEMMA ChangedVtable ==
    ASSUME NEW k, NEW d, NEW t, NEW v, NEW h, Prepared(k, d, t, v, h), TranslationCheck(v, h) = "none"
    PROVE  VtableNow(k, d, t, h, UpdateVtable(k, v, h))
<1>0. /\ Linking(k, d, t) /\ ~d.iface /\ Virtual(k, d, t, v) /\ Looped(k, d, t, v, h) /\ h.err = "none"
      /\ k \in Names /\ k \in Range(Order) /\ d \in Defs[k] /\ Good(cls) /\ TableOrdered(cls, t)
      /\ Lists(k, t, v, cls[d.super].iftable, h)
  BY PreparedFacts
<1>1. PICK sup : sup = cls[d.super].vtable
  OBVIOUS
<1>2. PICK w : w = UpdateVtable(k, v, h)
  OBVIOUS
<1>3. PICK E : /\ Len(E) = Len(v.vtable) /\ \A x \in 1..Len(E) : NewEntry(k, v, h, x, E[x])
               /\ \A x \in 1..Len(E) : E[x] = TranslateVtableEntry(k, v, h, x)
               /\ Extended(k, h, E, w)
  BY <1>2, UpdateVtableIs
<1>4. PICK L \in Nat : L = Len(v.vtable)
  BY <1>0 DEF Virtual, VtableEntries
<1>5. /\ w \in Seq(Methods) /\ Len(w) \in Nat /\ L <= Len(w) /\ DOMAIN w = 1..Len(w)
      /\ \A x \in 1..L : /\ NewEntry(k, v, h, x, w[x]) /\ x \in 1..Len(w)
                         /\ w[x] = TranslateVtableEntry(k, v, h, x)
  BY <1>3, <1>4 DEF Extended, Prefix
<1>6. \A x \in 1..L : EntryTyped(k, d, v, h, x, w[x])
  BY <1>4, <1>5, EntryTypedIs
<1>7. /\ \A x \in 1..Len(w) : x > L =>
           \E m \in Range(h.default) \union Range(h.conflict) \union Range(h.miranda) : w[x] = Move(k, h, m)
      /\ \A x, y \in 1..Len(w) : x > L /\ y > L /\ w[x].sig = w[y].sig => x = y
  BY <1>3, <1>4 DEF Extended
<1>8. /\ sup \in Seq(Methods) /\ DOMAIN sup = 1..Len(sup) /\ Len(sup) \in Nat /\ Len(sup) <= L
      /\ \A x \in 1..Len(sup) : x \in 1..L /\ v.vtable[x].sig = sup[x].sig
  BY <1>0, <1>1, <1>4, VirtualEntries
<1>9. ASSUME NEW x \in 1..Len(w), x > L
      PROVE  /\ w[x].decl \in Linked(cls) /\ w[x].pub /\ (w[x].conf => ~w[x].abs)
             /\ w[x] \in Range(Virtuals(k, d, h))
  <2>1. PICK m \in Range(h.default) \union Range(h.conflict) \union Range(h.miranda) : w[x] = Move(k, h, m)
    BY <1>7, <1>9
  <2>2. m \in Listed(h)
    BY DEF Listed
  <2> QED BY <2>1, <2>2, ListedMove
<1>10. \A x \in 1..Len(w) : x \in 1..L \/ x > L
  BY <1>4, <1>5
<1>11. \A x \in 1..L : /\ w[x].sig = v.vtable[x].sig /\ w[x].decl \in Linked(cls) \union {k}
                       /\ (Inherited(k, w[x]) => w[x].pub /\ x \in 1..Len(sup) /\ Kept(sup, v, x))
                       /\ (w[x].conf => ~w[x].abs)
                       /\ w[x] \in Range(Virtuals(k, d, h)) \/ (x \in 1..Len(sup) /\ w[x] = sup[x])
  BY <1>1, <1>6 DEF EntryTyped
<1>12. NowTyped(k, w)
  <2>1. ASSUME NEW x \in 1..Len(w)
        PROVE  /\ w[x].decl \in Linked(cls) \union {k} /\ (Inherited(k, w[x]) => w[x].pub)
               /\ (w[x].conf => ~w[x].abs)
    BY <1>9, <1>10, <1>11
  <2> QED BY <1>5, <2>1 DEF NowTyped
<1>13. NowRepeats(k, w)
  <2> SUFFICES ASSUME NEW x \in 1..Len(w), NEW y \in 1..Len(w), x < y, w[x].sig = w[y].sig, Inherited(k, w[x])
               PROVE  w[y] = w[x]
    BY DEF NowRepeats
  <2>0. x \in Nat /\ y \in Nat
    OBVIOUS
  <2>1. CASE x > L
    <3>1. y > L
      BY <2>0, <2>1, <1>4
    <3>2. x = y
      BY <1>7, <2>1, <3>1
    <3> QED BY <2>0, <3>2
  <2>2. CASE x \in 1..L
    <3>1. x \in 1..Len(sup) /\ Kept(sup, v, x) /\ w[x].sig = v.vtable[x].sig /\ NewEntry(k, v, h, x, w[x])
      BY <1>5, <1>11, <2>2
    <3>2. CASE y \in 1..L
      <4>1. w[y].sig = v.vtable[y].sig /\ NewEntry(k, v, h, y, w[y])
        BY <1>5, <1>11, <3>2
      <4>2. Copies(v, x, y)
        BY <1>0, <1>1, <1>4, <3>1, <3>2, <4>1, KeptRepeats
      <4>3. w[x] = TranslateVtableEntry(k, v, h, x) /\ w[y] = TranslateVtableEntry(k, v, h, y)
        BY <1>5, <2>2, <3>2
      <4> QED BY <4>2, <4>3 DEF Copies, TranslateVtableEntry
    <3>3. CASE y > L
      <4>1. PICK m \in Range(h.default) \union Range(h.conflict) \union Range(h.miranda) : w[y] = Move(k, h, m)
        BY <1>7, <3>3
      <4>2. w[y].sig = m.sig
        <5>1. m \in Listed(h)
          BY DEF Listed
        <5> QED BY <4>1, <5>1, ListedMove
      <4>3. InVtable(v, m.sig)
        BY <1>4, <2>2, <3>1, <4>2 DEF InVtable
      <4>4. m \notin Range(h.default) /\ m \notin Range(h.conflict)
        BY <1>0, <4>3 DEF Lists, DefaultList, ConflictList
      <4>5. w[x] = Move(k, h, m)
        <5>1. PICK e : e = w[x]
          OBVIOUS
        <5>2. x \in 1..Len(cls[d.super].vtable) /\ Kept(cls[d.super].vtable, v, x)
          BY <1>1, <3>1
        <5>3. NewEntry(k, v, h, x, e)
          BY <3>1, <5>1
        <5>4. m \in Range(h.miranda)
          BY <4>4
        <5>5. m.sig = v.vtable[x].sig
          BY <3>1, <4>2
        <5>6. e = Move(k, h, m)
          BY <5>2, <5>3, <5>4, <5>5, MirandaReplaces
        <5> QED BY <5>1, <5>6
      <4> QED BY <4>1, <4>5
    <3> QED BY <1>10, <3>2, <3>3
  <2> QED BY <1>10, <2>1, <2>2
<1>14. NowSettles(k, t, w)
  <2> SUFFICES ASSUME NEW x \in 1..Len(w), Inherited(k, w[x]), Clash(cls, w[x].sig, t) PROVE w[x].conf
    BY DEF NowSettles
  <2>1. FindDefaultMethodImplementation(w[x].sig, t).res = "conflict"
    BY ClashSearch
  <2>2. \A m \in Range(h.conflict) \union Range(h.overridingConflict) : Move(k, h, m).conf
    <3> TAKE m \in Range(h.conflict) \union Range(h.overridingConflict)
    <3>1. Move(k, h, m) = MoveConflict(k, m)
      BY <1>0, MoveKinds
    <3>2. m \in Methods
      BY <1>0, ListedFacts DEF Listed
    <3> QED BY <3>1, <3>2 DEF MoveConflict, Methods
  <2>3. CASE x > L
    <3>1. PICK m \in Range(h.default) \union Range(h.conflict) \union Range(h.miranda) : w[x] = Move(k, h, m)
      BY <1>7, <2>3
    <3>2. w[x].sig = m.sig
      <4>1. m \in Listed(h)
        BY DEF Listed
      <4> QED BY <3>1, <4>1, ListedMove
    <3>3. m \notin Range(h.default)
      BY <1>0, <2>1, <3>2 DEF Lists, DefaultList, DefaultWell
    <3>4. m \notin Range(h.miranda)
      BY <1>0, <2>1, <3>2 DEF Lists, MirandaList, MirandaWell
    <3> QED BY <2>2, <3>1, <3>3, <3>4
  <2>4. CASE x \in 1..L
    <3>1. x \in 1..Len(sup) /\ Kept(sup, v, x) /\ w[x].sig = v.vtable[x].sig /\ NewEntry(k, v, h, x, w[x])
      BY <1>5, <1>11, <2>4
    <3>2. CASE x \notin DOMAIN v.trans
      <4>1. v.vtable[x].conf
        BY <1>1, <3>1, <3>2, NotOutdated
      <4>2. w[x] = Move(k, h, v.vtable[x])
        BY <3>1, <3>2 DEF NewEntry
      <4>3. v.vtable[x] \in Methods
        BY <1>0, <1>4, <2>4, VirtualEntries
      <4> QED BY <1>0, <4>1, <4>2, <4>3, MoveIs
    <3>3. CASE x \in DOMAIN v.trans
      <4>1. v.trans[x].res = "conflict"
        BY <1>0, <1>1, <2>1, <3>1, <3>3 DEF Virtual, VtableTranslations, Kept
      <4>2. PICK m \in Range(h.overridingConflict) : w[x] = Move(k, h, m)
        BY <3>1, <3>3, <4>1 DEF NewEntry
      <4> QED BY <2>2, <4>2
    <3> QED BY <3>2, <3>3
  <2> QED BY <1>10, <2>3, <2>4
<1>15. Owned(w, Virtuals(k, d, h), sup)
  <2>1. \A x \in 1..Len(w) : w[x] \in Range(Virtuals(k, d, h)) \/ (x \in 1..Len(sup) /\ w[x] = sup[x])
    BY <1>9, <1>10, <1>11
  <2> QED BY <1>5, <1>8, <2>1 DEF Owned
<1>16. SlotsSame(w, sup)
  <2>1. Len(sup) <= Len(w)
    BY <1>5, <1>8
  <2>2. \A x \in 1..Len(sup) : sup[x].sig = w[x].sig
    BY <1>8, <1>11
  <2> QED BY <1>8, <2>1, <2>2 DEF SlotsSame
<1> QED BY <1>1, <1>2, <1>12, <1>13, <1>14, <1>15, <1>16 DEF VtableNow

----------------------------------------------------------------------------
\* A class table that grows.

\* B is the class A; its interface method table may be another one.
SameClass(A, B) ==
    /\ DOMAIN B = DOMAIN A /\ B.ok = A.ok /\ B.iface = A.iface /\ B.super = A.super /\ B.public = A.public
    /\ B.final = A.final /\ B.inst = A.inst /\ B.ifs = A.ifs /\ B.decl = A.decl /\ B.virtuals = A.virtuals
    /\ B.iftable = A.iftable /\ B.arrays = A.arrays /\ B.vtable = A.vtable
Extends(C, D) == DOMAIN C \subseteq DOMAIN D /\ \A c \in DOMAIN C : SameClass(C[c], D[c])

\* What is linked stays linked.
LEMMA LinkedKept ==
    ASSUME NEW C, NEW D, Extends(C, D)
    PROVE  /\ Linked(C) \subseteq Linked(D) /\ Linked(C) \subseteq DOMAIN C
           /\ \A c \in Linked(C) : SameClass(C[c], D[c])
  BY DEF Extends, Linked, SameClass

\* An ordered table stays ordered.
LEMMA OrderedKept ==
    ASSUME NEW C, NEW D, Extends(C, D), NEW t, TableOrdered(C, t)
    PROVE  TableOrdered(D, t)
<1>1. /\ t \in Seq(Names)
      /\ \A i \in Range(t) : i \in Linked(C) /\ C[i].iface /\ Range(C[i].iftable) \subseteq Range(t)
      /\ \A x, y \in DOMAIN t : x < y => t[x] /= t[y] /\ t[y] \notin Range(C[t[x]].iftable)
  BY DEF TableOrdered
<1>2. \A x \in DOMAIN t : t[x] \in Range(t)
  BY DEF Range
<1>3. \A i \in Range(t) : i \in Linked(D) /\ D[i].iface /\ D[i].iftable = C[i].iftable
  BY <1>1, LinkedKept DEF SameClass
<1>4. \A i \in Range(t) : i \in Linked(D) /\ D[i].iface /\ Range(D[i].iftable) \subseteq Range(t)
  BY <1>1, <1>3
<1>5. \A x, y \in DOMAIN t : x < y => t[x] /= t[y] /\ t[y] \notin Range(D[t[x]].iftable)
  BY <1>1, <1>2, <1>3
<1> QED BY <1>1, <1>4, <1>5 DEF TableOrdered

\* The default methods that are in effect stay so.
LEMMA ClashSame ==
    ASSUME NEW C, NEW D, Extends(C, D), NEW t, TableOrdered(C, t), NEW s
    PROVE  Clash(D, s, t) <=> Clash(C, s, t)
<1>1. t \in Seq(Names)
  BY DEF TableOrdered
<1>2. \A x \in 1..Len(t) : t[x] \in Linked(C)
  BY <1>1, SeqFacts DEF TableOrdered
<1>3. \A x \in 1..Len(t) : D[t[x]].decl = C[t[x]].decl /\ D[t[x]].iftable = C[t[x]].iftable
  BY <1>2, LinkedKept DEF SameClass
<1>4. Len(t) \in Nat
  BY <1>1
<1>5. ASSUME NEW p \in 1..Len(t) PROVE InEffect(D, s, t, p) <=> InEffect(C, s, t, p)
  <2>1. \A x \in p + 1..Len(t) : x \in 1..Len(t)
    BY <1>4
  <2>2. HasDefault(D, t[p], s) <=> HasDefault(C, t[p], s)
    BY <1>3 DEF HasDefault
  <2> QED BY <1>3, <2>1, <2>2 DEF InEffect
<1> QED BY <1>5 DEF Clash

\* The tables of a class stay in order.
LEMMA TablesKept ==
    ASSUME NEW C, NEW D, Extends(C, D), NEW c \in Linked(C), Placed(C, c), Tabled(C, c), ClassTables(C, c)
    PROVE  ClassTables(D, c)
<1>1. PICK v : v = C[c].vtable
  OBVIOUS
<1>2. PICK t : t = C[c].iftable
  OBVIOUS
<1>3. PICK sup : sup = C[C[c].super].vtable
  OBVIOUS
<1>4. /\ D[c].vtable = v /\ D[c].iftable = t /\ D[c].super = C[c].super
      /\ D[c].arrays = C[c].arrays /\ D[c].virtuals = C[c].virtuals
  BY <1>1, <1>2, LinkedKept DEF SameClass
<1>5. D[D[c].super].vtable = sup
  BY <1>3, <1>4, LinkedKept DEF SameClass, Placed
<1>6. /\ EntriesWell(C, v) /\ Repeats(C, v) /\ Settles(C, v, t) /\ ArraysWell(C, C[c].arrays, t)
      /\ Owned(v, C[c].virtuals, sup) /\ SlotsSame(v, sup) /\ TableOrdered(C, t)
  BY <1>1, <1>2, <1>3 DEF ClassTables, Tabled
<1>7. \A x \in 1..Len(v) : /\ v[x].decl \in Linked(C) /\ v[x].decl \in Linked(D)
                           /\ (Overridable(D, v[x]) <=> Overridable(C, v[x]))
  <2>1. \A x \in 1..Len(v) : v[x].decl \in Linked(C)
    BY <1>6 DEF EntriesWell
  <2>2. \A x \in 1..Len(v) : v[x].decl \in Linked(D) /\ D[v[x].decl].iface = C[v[x].decl].iface
    BY <2>1, LinkedKept DEF SameClass
  <2> QED BY <2>1, <2>2 DEF Overridable
<1>8. EntriesWell(D, v)
  BY <1>6, <1>7 DEF EntriesWell
<1>9. Repeats(D, v)
  BY <1>6, <1>7 DEF Repeats
<1>10. Settles(D, v, t)
  BY <1>6, <1>7, ClashSame DEF Settles
<1>11. ArraysWell(D, C[c].arrays, t)
  <2>1. t \in Seq(Names)
    BY <1>6 DEF TableOrdered
  <2>2. \A i \in 1..Len(t) : t[i] \in Linked(C)
    BY <1>6, <2>1, SeqFacts DEF TableOrdered
  <2>3. \A i \in 1..Len(t) : D[t[i]].decl = C[t[i]].decl
    BY <2>2, LinkedKept DEF SameClass
  <2> QED BY <1>6, <2>3 DEF ArraysWell
<1> QED BY <1>4, <1>5, <1>6, <1>8, <1>9, <1>10, <1>11 DEF ClassTables

\* A class in order stays in order.
LEMMA GoodKept ==
    ASSUME NEW C, NEW D, Extends(C, D), NEW c \in Linked(C), GoodClass(C, c)
    PROVE  c \in Linked(D) /\ GoodClass(D, c)
<1>1. Placed(C, c) /\ Tabled(C, c) /\ DeclaresWell(C, c) /\ (~C[c].iface => ClassTables(C, c))
  BY DEF GoodClass
<1>2. c \in Linked(D) /\ SameClass(C[c], D[c])
  BY LinkedKept
<1>3. PICK p : p = C[c].super
  OBVIOUS
<1>4. p \in Linked(C) /\ ~C[p].iface /\ SameClass(C[p], D[p])
  BY <1>1, <1>3, LinkedKept DEF Placed
<1>5. \A i \in Range(C[c].ifs) : i \in Linked(C) /\ C[i].iface /\ SameClass(C[i], D[i])
  BY <1>1, LinkedKept DEF Placed
<1>6. Placed(D, c)
  <2>1. D[c].super = p /\ D[c].ifs = C[c].ifs
    BY <1>2, <1>3 DEF SameClass
  <2>2. p \in Linked(D) /\ ~D[p].iface
    BY <1>4, LinkedKept DEF SameClass
  <2>3. \A i \in Range(C[c].ifs) : i \in Linked(D) /\ D[i].iface
    BY <1>5, LinkedKept DEF SameClass
  <2> QED BY <2>1, <2>2, <2>3 DEF Placed
<1>7. Tabled(D, c)
  <2>1. PICK t : t = C[c].iftable
    OBVIOUS
  <2>2. D[c].iftable = t /\ D[c].super = p /\ D[p].iftable = C[p].iftable /\ D[c].ifs = C[c].ifs
    BY <1>2, <1>3, <1>4, <2>1 DEF SameClass
  <2>3. TableOrdered(D, t)
    BY <1>1, <2>1, OrderedKept DEF Tabled
  <2>4. UNION {{i} \union Range(D[i].iftable) : i \in Range(C[c].ifs)}
            = UNION {{i} \union Range(C[i].iftable) : i \in Range(C[c].ifs)}
    BY <1>5 DEF SameClass
  <2> QED BY <1>1, <1>3, <2>1, <2>2, <2>3, <2>4 DEF Tabled
<1>8. DeclaresWell(D, c)
  BY <1>1, <1>2 DEF DeclaresWell, SameClass
<1>9. D[c].iface = C[c].iface
  BY <1>2 DEF SameClass
<1> QED BY <1>1, <1>2, <1>6, <1>7, <1>8, <1>9, TablesKept DEF GoodClass

----------------------------------------------------------------------------
\* The interface table of the class that is linked.

\* An interface that is linked may be added to a table.
LEMMA LinkedInterface ==
    ASSUME NEW C, Good(C), NEW i \in Linked(C), C[i].iface
    PROVE  Interface(C, i) /\ \A j \in Range(C[i].iftable) : Interface(C, j)
<1>1. \A c \in Linked(C) : /\ c \in Names /\ TableOrdered(C, C[c].iftable) /\ c \notin Range(C[c].iftable)
  BY DEF Good, GoodClass, Tabled, Shaped, Linked
<1>2. \A j \in Range(C[i].iftable) : j \in Linked(C) /\ C[j].iface
  BY <1>1 DEF TableOrdered
<1> QED BY <1>1, <1>2 DEF Interface

\* SetupInterfaceLookupTable, when superclass and interfaces may be used.
LEMMA SetupIs ==
    ASSUME Good(cls), NEW k \in Range(Order), k \notin DOMAIN cls, NEW d \in Defs[k], Usable(k, d),
           LinkSuperClass(k, d) = "none", SetupInterfaceLookupTable(d).err = "none"
    PROVE  LET t == SetupInterfaceLookupTable(d).iftable IN
           /\ Linking(k, d, t) /\ \A i \in Range(d.ifs) : i \in Linked(cls) /\ cls[i].iface
           /\ Range(t) = Range(cls[d.super].iftable)
                         \union UNION {{i} \union Range(cls[i].iftable) : i \in Range(d.ifs)}
<1>1. PICK t : t = FillIfTable(cls[d.super].iftable, d.ifs)
  OBVIOUS
<1>2. SetupInterfaceLookupTable(d).iftable = t
  BY <1>1 DEF SetupInterfaceLookupTable
<1>3. \A i \in Range(d.ifs) : cls[i].iface
  BY DEF SetupInterfaceLookupTable
<1>4. d.super \in Linked(cls) /\ \A i \in Range(d.ifs) : i \in Linked(cls)
  BY DEF Usable, Linked
<1>5. ~cls[d.super].iface
  BY DEF LinkSuperClass
<1>6. d.ifs \in Seq(Names)
  BY LinkAssumption DEF Definitions
<1>7. \A i \in Range(d.ifs) : Interface(cls, i) /\ \A j \in Range(cls[i].iftable) : Interface(cls, j)
  BY <1>3, <1>4, LinkedInterface
<1>8. TableOrdered(cls, cls[d.super].iftable)
  BY <1>4 DEF Good, GoodClass, Tabled
<1>9. /\ TableOrdered(cls, t) /\ Prefix(cls[d.super].iftable, t)
      /\ Range(t) = Range(cls[d.super].iftable)
                    \union UNION {{i} \union Range(cls[i].iftable) : i \in Range(d.ifs)}
  BY <1>1, <1>6, <1>7, <1>8, FillIfTableIs
<1>10. Linking(k, d, t)
  BY <1>4, <1>5, <1>9 DEF Linking
<1> QED BY <1>2, <1>3, <1>4, <1>9, <1>10

----------------------------------------------------------------------------
\* The linked class.

\* The fields of LinkedClass.
LinkedFields(k, d, t, v, h, c) ==
    /\ DOMAIN c = Fields /\ c.ok = TRUE /\ c.iface = d.iface /\ c.super = d.super /\ c.ifs = d.ifs
    /\ c.inst = d.inst /\ c.imt = 0
    /\ c.decl = Declared(k, d) /\ c.virtuals = Virtuals(k, d, h) /\ c.iftable = t
    /\ c.arrays = UpdateIfTable(k, h)
    /\ c.vtable = (IF ChangesVtable(d, h) THEN UpdateVtable(k, v, h) ELSE v.vtable)

\* The fields of a linked class, one by one.
LEMMA LinkedClassIs ==
    ASSUME NEW k, NEW d, NEW t, NEW v, NEW h
    PROVE  LinkedFields(k, d, t, v, h, LinkedClass(k, d, t, v, h))
<1>0. PICK c : c = LinkedClass(k, d, t, v, h)
  OBVIOUS
<1>1. PICK vt : vt = IF ChangesVtable(d, h) THEN UpdateVtable(k, v, h) ELSE v.vtable
  OBVIOUS
<1>2. PICK vi : vi = Virtuals(k, d, h)
  OBVIOUS
<1>3. PICK ar : ar = UpdateIfTable(k, h)
  OBVIOUS
<1>4. PICK de : de = Declared(k, d)
  OBVIOUS
<1>5. PICK f : f = Failed(d)
  OBVIOUS
<1>6. DOMAIN f = Fields /\ f.iface = d.iface /\ f.super = d.super /\ f.ifs = d.ifs /\ f.imt = 0
  BY <1>5 DEF Failed, Fields
<1>7. c = [f EXCEPT !.ok = TRUE, !.inst = d.inst, !.decl = de, !.virtuals = vi,
                    !.iftable = t, !.arrays = ar, !.vtable = vt]
  BY <1>0, <1>1, <1>2, <1>3, <1>4, <1>5 DEF LinkedClass, Virtuals
<1>8. /\ DOMAIN c = Fields /\ c.ok = TRUE /\ c.iface = d.iface /\ c.super = d.super /\ c.ifs = d.ifs
      /\ c.inst = d.inst /\ c.imt = 0 /\ c.decl = de /\ c.virtuals = vi /\ c.iftable = t /\ c.arrays = ar
      /\ c.vtable = vt
  BY <1>6, <1>7 DEF Fields
<1>9. LinkedFields(k, d, t, v, h, c)
  BY <1>1, <1>2, <1>3, <1>4, <1>8 DEF LinkedFields
<1> QED BY <1>0, <1>9

\* D is the class table with the linked class.
WithLinked(k, d, t, v, h, D) ==
    /\ Extends(cls, D) /\ k \in Linked(D) /\ SameClass(LinkedClass(k, d, t, v, h), D[k])

\* The vtable that the class ends with.
LEMMA VtableIs ==
    ASSUME NEW k, NEW d, NEW t, NEW v, NEW h, Prepared(k, d, t, v, h),
           ChangesVtable(d, h) => TranslationCheck(v, h) = "none"
    PROVE  VtableNow(k, d, t, h, LinkedClass(k, d, t, v, h).vtable)
<1>1. PICK c : c = LinkedClass(k, d, t, v, h)
  OBVIOUS
<1>2. c.vtable = IF ChangesVtable(d, h) THEN UpdateVtable(k, v, h) ELSE v.vtable
  <2>1. LinkedFields(k, d, t, v, h, c)
    BY <1>1, LinkedClassIs
  <2> QED BY <2>1 DEF LinkedFields
<1>3. ~d.iface
  BY PreparedFacts
<1>4. CASE ChangesVtable(d, h)
  BY <1>1, <1>2, <1>4, ChangedVtable
<1>5. CASE ~ChangesVtable(d, h)
  <2>1. NewVirtuals(h) = <<>>
    BY <1>3, <1>5 DEF ChangesVtable
  <2> QED BY <1>1, <1>2, <1>5, <2>1, UnchangedVtable
<1> QED BY <1>4, <1>5

\* Its method arrays are complete.
LEMMA ArraysIs ==
    ASSUME NEW k, NEW d, NEW t, NEW v, NEW h, Prepared(k, d, t, v, h)
    PROVE  ArraysWell(cls, UpdateIfTable(k, h), t)
<1>0. Linking(k, d, t) /\ Looped(k, d, t, v, h) /\ h.err = "none" /\ k \in Names
  BY PreparedFacts
<1>1. PICK a : a = UpdateIfTable(k, h)
  OBVIOUS
<1>2. DOMAIN h.arrays = 1..Len(t) /\ DOMAIN a = 1..Len(t)
  BY <1>0, <1>1 DEF Looped, HelperOK, HelperArrays, UpdateIfTable
<1>3. ASSUME NEW i \in 1..Len(t)
      PROVE  /\ DOMAIN a[i] = DOMAIN cls[t[i]].decl
             /\ \A j \in DOMAIN cls[t[i]].decl : a[i][j] \in Methods /\ a[i][j].sig = cls[t[i]].decl[j].sig
  <2>1. /\ DOMAIN h.arrays[i] = DOMAIN cls[t[i]].decl
        /\ \A j \in DOMAIN cls[t[i]].decl :
               h.arrays[i][j] = NoMethod \/ (h.arrays[i][j] \in Methods /\ h.arrays[i][j].sig = cls[t[i]].decl[j].sig)
    BY <1>0 DEF Looped, HelperOK, HelperArrays
  <2>2. \A j \in DOMAIN cls[t[i]].decl : h.arrays[i][j] /= NoMethod
    BY <1>0 DEF Looped, AllDone, Done
  <2>3. a[i] = MoveAll(k, h, h.arrays[i])
    BY <1>1, <1>2 DEF UpdateIfTable
  <2>4. DOMAIN a[i] = DOMAIN h.arrays[i] /\ \A j \in DOMAIN h.arrays[i] : a[i][j] = Move(k, h, h.arrays[i][j])
    BY <2>3 DEF MoveAll
  <2>5. ASSUME NEW j \in DOMAIN cls[t[i]].decl
        PROVE  a[i][j] \in Methods /\ a[i][j].sig = cls[t[i]].decl[j].sig
    <3>1. h.arrays[i][j] \in Methods /\ h.arrays[i][j].sig = cls[t[i]].decl[j].sig
      BY <2>1, <2>2
    <3>2. Move(k, h, h.arrays[i][j]) \in Methods /\ Move(k, h, h.arrays[i][j]).sig = h.arrays[i][j].sig
      BY <1>0, <3>1, MoveIs
    <3> QED BY <2>1, <2>4, <3>1, <3>2
  <2> QED BY <2>1, <2>4, <2>5
<1> QED BY <1>1, <1>2, <1>3 DEF ArraysWell

\* The tables of the class are in order.
LEMMA NewTables ==
    ASSUME NEW k, NEW d, NEW t, NEW v, NEW h, Prepared(k, d, t, v, h),
           ChangesVtable(d, h) => TranslationCheck(v, h) = "none",
           NEW D, WithLinked(k, d, t, v, h, D)
    PROVE  ClassTables(D, k)
<1>0. /\ Linking(k, d, t) /\ ~d.iface /\ k \in Names /\ k \notin DOMAIN cls /\ TableOrdered(cls, t)
      /\ Extends(cls, D) /\ k \in Linked(D)
  BY PreparedFacts DEF WithLinked
<1>1. PICK c : c = LinkedClass(k, d, t, v, h)
  OBVIOUS
<1>2. PICK w : w = c.vtable
  OBVIOUS
<1>3. PICK sup : sup = cls[d.super].vtable
  OBVIOUS
<1>4. /\ D[k].vtable = w /\ D[k].iftable = t /\ D[k].super = d.super /\ D[k].iface = d.iface
      /\ D[k].arrays = UpdateIfTable(k, h) /\ D[k].virtuals = Virtuals(k, d, h)
  <2>1. LinkedFields(k, d, t, v, h, c)
    BY <1>1, LinkedClassIs
  <2>2. SameClass(c, D[k])
    BY <1>1 DEF WithLinked
  <2> QED BY <1>2, <2>1, <2>2 DEF LinkedFields, SameClass
<1>5. D[D[k].super].vtable = sup
  <2>1. d.super \in Linked(cls)
    BY <1>0 DEF Linking
  <2> QED BY <1>0, <1>3, <1>4, <2>1, LinkedKept DEF SameClass
<1>6. /\ NowTyped(k, w) /\ NowRepeats(k, w) /\ NowSettles(k, t, w)
      /\ Owned(w, Virtuals(k, d, h), sup) /\ SlotsSame(w, sup)
  BY <1>1, <1>2, <1>3, VtableIs DEF VtableNow
<1>7. ASSUME NEW x \in 1..Len(w)
      PROVE  w[x].decl \in Linked(D) /\ (Overridable(D, w[x]) => Inherited(k, w[x]))
  <2>1. w[x].decl \in Linked(cls) \union {k}
    BY <1>6 DEF NowTyped
  <2>2. CASE w[x].decl = k
    BY <1>0, <1>4, <2>2 DEF Overridable
  <2>3. CASE w[x].decl /= k
    <3>1. w[x].decl \in Linked(cls)
      BY <2>1, <2>3
    <3>2. w[x].decl \in Linked(D) /\ D[w[x].decl].iface = cls[w[x].decl].iface
      BY <1>0, <3>1, LinkedKept DEF SameClass
    <3> QED BY <2>3, <3>2 DEF Overridable, Inherited
  <2> QED BY <2>2, <2>3
<1>8. EntriesWell(D, w)
  BY <1>6, <1>7 DEF EntriesWell, NowTyped
<1>9. Repeats(D, w)
  BY <1>6, <1>7 DEF Repeats, NowRepeats
<1>10. Settles(D, w, t)
  BY <1>0, <1>6, <1>7, ClashSame DEF Settles, NowSettles
<1>11. ArraysWell(D, UpdateIfTable(k, h), t)
  <2>1. ArraysWell(cls, UpdateIfTable(k, h), t)
    BY ArraysIs
  <2>2. t \in Seq(Names)
    BY <1>0 DEF TableOrdered
  <2>3. \A i \in 1..Len(t) : t[i] \in Linked(cls)
    BY <1>0, <2>2, SeqFacts DEF TableOrdered
  <2>4. \A i \in 1..Len(t) : D[t[i]].decl = cls[t[i]].decl
    BY <1>0, <2>3, LinkedKept DEF SameClass
  <2> QED BY <2>1, <2>4 DEF ArraysWell
<1> QED BY <1>4, <1>5, <1>6, <1>8, <1>9, <1>10, <1>11 DEF ClassTables

\* The linked type is in order.
LEMMA NewClass ==
    ASSUME NEW k, NEW d, NEW t, NEW v, NEW h, Linking(k, d, t),
           \A i \in Range(d.ifs) : i \in Linked(cls) /\ cls[i].iface,
           Range(t) = Range(cls[d.super].iftable)
                      \union UNION {{i} \union Range(cls[i].iftable) : i \in Range(d.ifs)},
           ~d.iface => Prepared(k, d, t, v, h),
           ChangesVtable(d, h) => TranslationCheck(v, h) = "none",
           NEW D, WithLinked(k, d, t, v, h, D)
    PROVE  GoodClass(D, k)
<1>0. /\ k \in Range(Order) /\ d \in Defs[k] /\ k \notin DOMAIN cls /\ TableOrdered(cls, t)
      /\ Prefix(cls[d.super].iftable, t) /\ d.super \in Linked(cls) /\ ~cls[d.super].iface
      /\ Extends(cls, D) /\ k \in Linked(D)
  BY DEF Linking, WithLinked
<1>1. PICK c : c = LinkedClass(k, d, t, v, h)
  OBVIOUS
<1>2. /\ D[k].iftable = t /\ D[k].super = d.super /\ D[k].iface = d.iface /\ D[k].ifs = d.ifs
      /\ D[k].decl = Declared(k, d)
  <2>1. LinkedFields(k, d, t, v, h, c)
    BY <1>1, LinkedClassIs
  <2>2. SameClass(c, D[k])
    BY <1>1 DEF WithLinked
  <2> QED BY <2>1, <2>2 DEF LinkedFields, SameClass
<1>3. SameClass(cls[d.super], D[d.super]) /\ d.super \in Linked(D)
  BY <1>0, LinkedKept
<1>4. \A i \in Range(d.ifs) : i \in Linked(D) /\ D[i].iface /\ D[i].iftable = cls[i].iftable
  BY <1>0, LinkedKept DEF SameClass
<1>5. Placed(D, k)
  BY <1>0, <1>2, <1>3, <1>4 DEF Placed, SameClass
<1>6. Tabled(D, k)
  <2>1. TableOrdered(D, t)
    BY <1>0, OrderedKept
  <2>2. k \notin Range(t)
    BY <1>0 DEF TableOrdered, Linked
  <2>3. D[d.super].iftable = cls[d.super].iftable
    BY <1>3 DEF SameClass
  <2>4. UNION {{i} \union Range(D[i].iftable) : i \in Range(d.ifs)}
            = UNION {{i} \union Range(cls[i].iftable) : i \in Range(d.ifs)}
    BY <1>4
  <2> QED BY <1>0, <1>2, <2>1, <2>2, <2>3, <2>4 DEF Tabled
<1>7. DeclaresWell(D, k)
  BY <1>0, <1>2, DeclaredIs DEF DeclaresWell
<1>8. ~d.iface => ClassTables(D, k)
  BY NewTables
<1> QED BY <1>2, <1>5, <1>6, <1>7, <1>8 DEF GoodClass

----------------------------------------------------------------------------
\* The errors of linking.

\* OverrideEntries ends with a linkage error or with none.
LEMMA OverrideErrors ==
    ASSUME NEW k, NEW decl, NEW t, NEW sup, Len(sup) \in Nat
    PROVE  OverrideEntries(k, decl, t, sup).err \in {"none", "LinkageError"}
<1>1. PICK f : OverrideSteps(f, k, decl, t, sup) /\ OverrideEntries(k, decl, t, sup) = f[Len(sup)]
  BY OverrideRec
<1>2. PICK T : T = {n \in 0..Len(sup) : "err" \in DOMAIN f[n] /\ f[n].err \in {"none", "LinkageError"}}
  OBVIOUS
<1>3. 0 \in T
  <2>1. f[0] = [vtable |-> sup, hash |-> HashTable(decl), trans |-> NoTranslations, err |-> "none"]
    BY <1>1 DEF OverrideSteps
  <2> QED BY <1>2, <2>1
<1>4. \A n \in 0..Len(sup) - 1 : n \in T => n + 1 \in T
  <2> SUFFICES ASSUME NEW n \in 0..Len(sup) - 1, n \in T PROVE n + 1 \in T
    OBVIOUS
  <2>1. n + 1 \in 1..Len(sup) /\ (n + 1) - 1 = n /\ n + 1 \in 0..Len(sup)
    OBVIOUS
  <2>2. PICK j : j = n + 1
    OBVIOUS
  <2>3. PICK st : st = f[n]
    OBVIOUS
  <2>4. PICK o : o = f[n + 1]
    OBVIOUS
  <2>5. o = OverrideEntry(k, decl, t, st, j)
    BY <1>1, <2>1, <2>2, <2>3, <2>4 DEF OverrideSteps
  <2>6. PICK slot : slot = FindSlot(st.hash, decl, st.vtable[j].sig)
    OBVIOUS
  <2>7. PICK r : r = FindDefaultMethodImplementation(st.vtable[j].sig, t)
    OBVIOUS
  <2>8. \/ o = st \/ o = [st EXCEPT !.err = "LinkageError"]
        \/ o = [st EXCEPT !.vtable[j] = decl[st.hash[slot]], !.hash[slot] = Removed]
        \/ o = [st EXCEPT !.trans = With(@, j, r)]
    BY <2>5, <2>6, <2>7 DEF OverrideEntry
  <2>9. "err" \in DOMAIN st /\ st.err \in {"none", "LinkageError"}
    BY <1>2, <2>3
  <2>10. "err" \in DOMAIN o /\ o.err \in {"none", "LinkageError"}
    BY <2>8, <2>9
  <2> QED BY <1>2, <2>1, <2>4, <2>10
<1>5. 0..Len(sup) \subseteq T
  BY <1>3, <1>4, SetInduction
<1> QED BY <1>1, <1>2, <1>5

\* So does LinkVirtualMethods.
LEMMA VirtualErrors ==
    ASSUME NEW k, NEW d, NEW t, Linking(k, d, t)
    PROVE  LinkVirtualMethods(k, d, t).err \in {"none", "LinkageError"}
<1>1. cls[d.super].vtable \in Seq(Methods)
  BY SuperFacts DEF EntriesWell
<1>2. Len(cls[d.super].vtable) \in Nat
  BY <1>1
<1>3. OverrideEntries(k, Declared(k, d), t, cls[d.super].vtable).err \in {"none", "LinkageError"}
  BY <1>2, OverrideErrors
<1> QED BY <1>3 DEF LinkVirtualMethods

\* A conflict method that an entry is to be translated to has been created: the
\* first check of TranslationCheck holds.
LEMMA CheckHolds ==
    ASSUME NEW k, NEW d, NEW t, NEW v, NEW h, Prepared(k, d, t, v, h)
    PROVE  TranslationCheck(v, h) \in {"none", "DCHECK: move"}
<1>0. /\ Linking(k, d, t) /\ ~d.iface /\ Virtual(k, d, t, v) /\ Looped(k, d, t, v, h) /\ h.err = "none"
  BY PreparedFacts
<1>1. ASSUME NEW x \in DOMAIN v.trans, v.trans[x].res = "conflict"
      PROVE  FindSameNameAndSignature(v.vtable[x].sig, h.overridingConflict) /= NoMethod
  BY <1>0, <1>1, ConflictCreated
<1> QED BY <1>1 DEF TranslationCheck

\* The errors of the stages, and what holds when there is none.
NoFailure(k, d, t, v, h) ==
    /\ ~d.iface => Prepared(k, d, t, v, h)
    /\ ChangesVtable(d, h) => TranslationCheck(v, h) = "none"
LinkErrors == {"none", "IncompatibleClassChangeError", "LinkageError", "IllegalAccessError", "DCHECK: move"}

\* LinkMethods ends in a listed error, or no part of it failed.
LEMMA FirstErrorIs ==
    ASSUME NEW k, NEW d, NEW t, Linking(k, d, t), NEW setup, setup.err = "none",
           NEW v, v = LinkVirtualMethods(k, d, t), NEW h, h = LinkInterfaceMethodsLoop(k, d, v, t)
    PROVE  /\ FirstError(d, setup, v, h) \in LinkErrors
           /\ FirstError(d, setup, v, h) = "none" => NoFailure(k, d, t, v, h)
<1>1. v.err \in {"none", "LinkageError"}
  BY VirtualErrors
<1>2. d.iface \in BOOLEAN
  BY LinkAssumption DEF Linking, Definitions
<1>3. CASE v.err = "LinkageError"
  BY <1>3 DEF FirstError, LinkErrors
<1>4. CASE v.err = "none" /\ d.iface
  <2>1. Searchable(t)
    BY TableSearchable DEF Linking
  <2>2. h.err \in {"none", "IllegalAccessError"}
    BY <1>2, <1>4, <2>1, InterfaceLoopErrors DEF Errors
  <2>3. ~ChangesVtable(d, h)
    BY <1>4 DEF ChangesVtable
  <2> QED BY <1>4, <2>2, <2>3 DEF FirstError, LinkErrors, NoFailure
<1>5. CASE v.err = "none" /\ ~d.iface
  <2>1. Virtual(k, d, t, v)
    BY <1>5, VirtualIs
  <2>2. Looped(k, d, t, v, h)
    BY <1>5, <2>1, LoopIs
  <2>3. h.err \in {"none", "IllegalAccessError"}
    BY <2>2 DEF Looped, HelperOK
  <2>4. CASE h.err = "IllegalAccessError"
    BY <1>5, <2>4 DEF FirstError, LinkErrors
  <2>5. CASE h.err = "none"
    <3>1. Prepared(k, d, t, v, h)
      BY <1>5, <2>1, <2>2, <2>5 DEF Prepared
    <3>2. TranslationCheck(v, h) \in {"none", "DCHECK: move"}
      BY <3>1, CheckHolds
    <3> QED BY <1>5, <2>5, <3>1, <3>2 DEF FirstError, LinkErrors, NoFailure
  <2> QED BY <2>3, <2>4, <2>5
<1> QED BY <1>1, <1>3, <1>4, <1>5

\* What LinkMethods returns: an error, or a class in order.
Result(k, d, l) ==
    /\ l.err \in LinkErrors /\ DOMAIN l.c = Fields /\ l.c.ok = TRUE /\ l.c.inst = d.inst /\ l.c.imt = 0
    /\ l.err = "none" => \A D : Extends(cls, D) /\ k \in Linked(D) /\ SameClass(l.c, D[k]) => GoodClass(D, k)

\* LinkMethods gives a class whose tables are in order over those of its supertypes, or an error.
LEMMA LinkMethodsIs ==
    ASSUME Good(cls), NEW k \in Range(Order), k \notin DOMAIN cls, NEW d \in Defs[k], Usable(k, d),
           LinkSuperClass(k, d) = "none"
    PROVE  Result(k, d, LinkMethods(k, d))
<1>1. PICK setup : setup = SetupInterfaceLookupTable(d)
  OBVIOUS
<1>2. PICK t : t = setup.iftable
  OBVIOUS
<1>3. PICK v : v = LinkVirtualMethods(k, d, t)
  OBVIOUS
<1>4. PICK h : h = LinkInterfaceMethodsLoop(k, d, v, t)
  OBVIOUS
<1>5. PICK c : c = LinkedClass(k, d, t, v, h)
  OBVIOUS
<1>6. PICK e : e = FirstError(d, setup, v, h)
  OBVIOUS
<1>7. PICK l : l = LinkMethods(k, d)
  OBVIOUS
<1>8. l.err = e /\ l.c = c
  <2>1. l = [err |-> e, imt |-> UpdateIMT(k, h), newConflict |-> h.newConflict, c |-> c]
    BY <1>1, <1>2, <1>3, <1>4, <1>5, <1>6, <1>7 DEF LinkMethods, LinkMethodsOver, LinkMethodsWith, LinkInterfaceMethods
  <2> QED BY <2>1
<1>9. DOMAIN c = Fields /\ c.ok = TRUE /\ c.inst = d.inst /\ c.imt = 0
  <2>1. LinkedFields(k, d, t, v, h, c)
    BY <1>5, LinkedClassIs
  <2> QED BY <2>1 DEF LinkedFields
<1>10. CASE setup.err /= "none"
  <2>1. e = setup.err /\ setup.err = "IncompatibleClassChangeError"
    BY <1>1, <1>6, <1>10 DEF FirstError, SetupInterfaceLookupTable
  <2> QED BY <1>7, <1>8, <1>9, <2>1 DEF Result, LinkErrors
<1>11. CASE setup.err = "none"
  <2>1. /\ Linking(k, d, t) /\ \A i \in Range(d.ifs) : i \in Linked(cls) /\ cls[i].iface
        /\ Range(t) = Range(cls[d.super].iftable)
                      \union UNION {{i} \union Range(cls[i].iftable) : i \in Range(d.ifs)}
    BY <1>1, <1>2, <1>11, SetupIs
  <2>2. e \in LinkErrors /\ (e = "none" => NoFailure(k, d, t, v, h))
    BY <1>3, <1>4, <1>6, <1>11, <2>1, FirstErrorIs
  <2>3. ASSUME e = "none", NEW D, Extends(cls, D), k \in Linked(D), SameClass(c, D[k])
        PROVE  GoodClass(D, k)
    <3>1. WithLinked(k, d, t, v, h, D)
      BY <1>5, <2>3 DEF WithLinked
    <3>2. /\ ~d.iface => Prepared(k, d, t, v, h)
          /\ ChangesVtable(d, h) => TranslationCheck(v, h) = "none"
      BY <2>2, <2>3 DEF NoFailure
    <3> QED BY <2>1, <3>1, <3>2, NewClass
  <2> QED BY <1>7, <1>8, <1>9, <2>2, <2>3 DEF Result
<1> QED BY <1>10, <1>11

----------------------------------------------------------------------------
\* The invariant.

\* A class that can be instantiated has an IMT, no other class has one.
HasImage(r, n) == IF r.inst THEN r.imt \in 1..n ELSE r.imt = 0
Images(C, n) == \A c \in DOMAIN C : HasImage(C[c], n)
\* I is a list of length n.
ListOf(I, n) == n \in Nat /\ Len(I) = n /\ DOMAIN I = 1..n /\ \E S : I \in Seq(S)
\* The tables of all linked types are in order, and the check that may end the
\* process is the one of UpdateVtable.
Inv == /\ Good(cls)
       /\ \E n \in Nat : ListOf(imts, n) /\ Images(cls, n)
       /\ calls \in 0..MaxCalls /\ aborted \in {"none", "DCHECK: move"}

\* FindSuperImt returns the number of an IMT, or 0.
LEMMA SuperImtIs ==
    ASSUME Good(cls), NEW n, Images(cls, n), NEW d, d.super \in Linked(cls)
    PROVE  FindSuperImt(d) \in 1..n \/ FindSuperImt(d) = 0
<1>1. PICK N \in Nat : N = Len(Order)
  BY NameFacts
<1>2. PICK f : SuperSteps(f, d) /\ LastSuper(d) = f[N]
  BY <1>1, SuperImtRec
<1>3. PICK T : T = {m \in 0..N : f[m] \in Linked(cls)}
  OBVIOUS
<1>4. 0 \in T
  BY <1>2, <1>3 DEF SuperSteps
<1>5. \A m \in 0..N - 1 : m \in T => m + 1 \in T
  <2> SUFFICES ASSUME NEW m \in 0..N - 1, m \in T PROVE m + 1 \in T
    OBVIOUS
  <2>1. m + 1 \in 1..N /\ (m + 1) - 1 = m /\ m + 1 \in 0..N
    OBVIOUS
  <2>2. f[m + 1] = InstOrSuper(f[m])
    BY <1>1, <1>2, <2>1 DEF SuperSteps
  <2>3. f[m] \in Linked(cls)
    BY <1>3
  <2>4. cls[f[m]].super \in Linked(cls)
    BY <2>3 DEF Good, GoodClass, Placed
  <2> QED BY <1>3, <2>1, <2>2, <2>3, <2>4 DEF InstOrSuper
<1>6. 0..N \subseteq T
  BY <1>4, <1>5, SetInduction
<1>7. LastSuper(d) \in DOMAIN cls
  BY <1>2, <1>3, <1>6 DEF Linked
<1> QED BY <1>7 DEF FindSuperImt, Images, HasImage

\* What the class table is with a new class.
LEMMA WithExtends ==
    ASSUME NEW C, NEW k, k \notin DOMAIN C, NEW r
    PROVE  /\ Extends(C, With(C, k, r)) /\ DOMAIN With(C, k, r) = DOMAIN C \union {k} /\ With(C, k, r)[k] = r
           /\ \A c \in DOMAIN C : With(C, k, r)[c] = C[c]
<1>1. DOMAIN With(C, k, r) = DOMAIN C \union {k} /\ With(C, k, r)[k] = r
  BY DEF With
<1>2. \A c \in DOMAIN C : With(C, k, r)[c] = C[c]
  BY DEF With
<1> QED BY <1>1, <1>2 DEF Extends, SameClass

\* A new class that is in order, or that failed, leaves the table in order.
LEMMA AddClass ==
    ASSUME NEW C, Good(C), NEW k \in Names, k \notin DOMAIN C, NEW r, DOMAIN r = Fields,
           r.ok \in BOOLEAN, r.inst \in BOOLEAN, r.inst => r.ok,
           r.ok => GoodClass(With(C, k, r), k)
    PROVE  Good(With(C, k, r))
<1>1. PICK D : D = With(C, k, r)
  OBVIOUS
<1>2. /\ Extends(C, D) /\ DOMAIN D = DOMAIN C \union {k} /\ D[k] = r
      /\ \A c \in DOMAIN C : D[c] = C[c]
  BY <1>1, WithExtends
<1>3. Shaped(C) /\ \A c \in Linked(C) : GoodClass(C, c)
  BY DEF Good
<1>4. Shaped(D)
  <2>1. DOMAIN D \subseteq Names
    BY <1>2, <1>3 DEF Shaped
  <2>2. "Object" \in Linked(D) /\ ~D["Object"].iface
    BY <1>2, <1>3, LinkedKept DEF Shaped, SameClass
  <2>3. \A c \in DOMAIN D : DOMAIN D[c] = Fields /\ D[c].inst \in BOOLEAN /\ (D[c].inst => D[c].ok)
    BY <1>2, <1>3 DEF Shaped
  <2> QED BY <2>1, <2>2, <2>3 DEF Shaped
<1>5. ASSUME NEW c \in Linked(D) PROVE GoodClass(D, c)
  <2>1. CASE c = k
    BY <1>1, <1>2, <2>1 DEF Linked
  <2>2. CASE c /= k
    <3>1. c \in Linked(C)
      BY <1>2, <2>2 DEF Linked
    <3> QED BY <1>2, <1>3, <3>1, GoodKept
  <2> QED BY <2>1, <2>2
<1> QED BY <1>1, <1>4, <1>5 DEF Good

\* The images with the new class.
LEMMA AddImage ==
    ASSUME NEW C, NEW n \in Nat, NEW m \in Nat, n <= m, Images(C, n), NEW k, k \notin DOMAIN C, NEW r, HasImage(r, m)
    PROVE  Images(With(C, k, r), m)
<1>1. PICK D : D = With(C, k, r)
  OBVIOUS
<1>2. /\ DOMAIN D = DOMAIN C \union {k} /\ D[k] = r
      /\ \A c \in DOMAIN C : D[c] = C[c]
  <2>1. /\ DOMAIN With(C, k, r) = DOMAIN C \union {k} /\ With(C, k, r)[k] = r
        /\ \A c \in DOMAIN C : With(C, k, r)[c] = C[c]
    BY WithExtends
  <2> QED BY <1>1, <2>1
<1>3. 1..n \subseteq 1..m
  OBVIOUS
<1>4. ASSUME NEW c \in DOMAIN D PROVE HasImage(D[c], m)
  <2>1. CASE c = k
    BY <1>2, <2>1
  <2>2. CASE c /= k
    BY <1>2, <1>3, <2>2 DEF Images, HasImage
  <2> QED BY <2>1, <2>2
<1> QED BY <1>1, <1>4 DEF Images

\* The initial state.
LEMMA InitInv == Init => Inv
<1> SUFFICES ASSUME Init PROVE Inv
  OBVIOUS
<1>1. PICK o : o = ObjectClass
  OBVIOUS
<1>2. PICK m : m = Method("Object", "o", "concrete")
  OBVIOUS
<1>3. cls = [k \in {"Object"} |-> o] /\ imts = <<EmptyImt>> /\ calls = 0 /\ aborted = "none"
  BY <1>1 DEF Init
<1>4. /\ DOMAIN o = Fields /\ o.ok = TRUE /\ o.inst = TRUE /\ o.iface = FALSE /\ o.super = "Object"
      /\ o.ifs = <<>> /\ o.imt = 1 /\ o.iftable = <<>> /\ o.arrays = <<>>
      /\ o.decl = <<m>> /\ o.virtuals = <<m>> /\ o.vtable = <<m>>
  BY <1>1, <1>2 DEF ObjectClass, Failed, Fields
<1>5. DOMAIN cls = {"Object"} /\ cls["Object"] = o
  BY <1>3
<1>6. Linked(cls) = {"Object"}
  BY <1>4, <1>5 DEF Linked
<1>7. m \in Methods /\ m.decl = "Object" /\ m.own = "Object" /\ m.conf = FALSE /\ m.abs = FALSE
  BY <1>2, LinkAssumption, NameFacts DEF Method, Methods
<1>8. Range(<<>>) = {} /\ <<>> \in Seq(Names) /\ Len(<<>>) = 0
  BY DEF Range
<1>9. Shaped(cls)
  BY <1>4, <1>5, <1>6, NameFacts DEF Shaped
<1>10. Placed(cls, "Object")
  BY <1>4, <1>5, <1>6, <1>8 DEF Placed
<1>11. Tabled(cls, "Object")
  <2>1. TableOrdered(cls, <<>>)
    BY <1>8 DEF TableOrdered
  <2>2. Prefix(<<>>, <<>>)
    BY <1>8 DEF Prefix
  <2> QED BY <1>4, <1>5, <1>8, <2>1, <2>2 DEF Tabled
<1>12. DeclaresWell(cls, "Object")
  <2>1. /\ <<m>> \in Seq(Methods) /\ DOMAIN <<m>> = {1} /\ <<m>>[1] = m
    BY <1>7
  <2>2. PICK v : v = <<m>>
    OBVIOUS
  <2>3. v \in Seq(Methods) /\ DOMAIN v = {1} /\ v[1] = m
    BY <2>1, <2>2
  <2>4. cls["Object"].decl = v /\ cls["Object"].iface = FALSE
    BY <1>4, <1>5, <2>2
  <2>5. \A x \in DOMAIN v : x = 1 /\ v[x].decl = "Object" /\ v[x].own = "Object" /\ ~v[x].conf
    BY <1>7, <2>3
  <2> QED BY <2>3, <2>4, <2>5 DEF DeclaresWell
<1>13. ClassTables(cls, "Object")
  <2>1. PICK v : v = <<m>>
    OBVIOUS
  <2>2. /\ v \in Seq(Methods) /\ Len(v) = 1 /\ DOMAIN v = {1} /\ 1..Len(v) = {1} /\ v[1] = m /\ m \in Range(v)
    <3>1. v \in Seq(Methods) /\ Len(v) = 1 /\ v[1] = m /\ DOMAIN v = 1..1
      BY <1>7, <2>1
    <3>2. 1..1 = {1}
      OBVIOUS
    <3> QED BY <3>1, <3>2 DEF Range
  <2>3. ~Overridable(cls, m)
    BY <1>7 DEF Overridable
  <2>4. EntriesWell(cls, v)
    BY <1>6, <1>7, <2>2, <2>3 DEF EntriesWell
  <2>5. Repeats(cls, v)
    BY <2>2, <2>3 DEF Repeats
  <2>6. Settles(cls, v, <<>>)
    BY <2>2, <2>3 DEF Settles
  <2>7. ArraysWell(cls, <<>>, <<>>)
    BY <1>8 DEF ArraysWell
  <2>8. Owned(v, v, v)
    BY <2>2 DEF Owned
  <2>9. SlotsSame(v, v)
    BY <2>2 DEF SlotsSame
  <2> QED BY <1>4, <1>5, <2>1, <2>4, <2>5, <2>6, <2>7, <2>8, <2>9 DEF ClassTables
<1>14. Good(cls)
  BY <1>6, <1>9, <1>10, <1>11, <1>12, <1>13 DEF Good, GoodClass
<1>15. ListOf(imts, 1)
  <2>1. imts \in Seq({EmptyImt}) /\ Len(imts) = 1 /\ DOMAIN imts = 1..1
    BY <1>3
  <2> QED BY <2>1 DEF ListOf
<1>16. Images(cls, 1)
  BY <1>4, <1>5 DEF Images, HasImage
<1>17. calls \in 0..MaxCalls
  BY <1>3, LinkAssumption
<1> QED BY <1>3, <1>14, <1>15, <1>16, <1>17 DEF Inv

----------------------------------------------------------------------------
\* The steps.

\* A list whose p-th entry changes, and one with a new entry.
LEMMA ListPut ==
    ASSUME NEW I, NEW n, ListOf(I, n), NEW p \in 1..n, NEW x
    PROVE  ListOf([I EXCEPT ![p] = x], n)
<1>1. PICK S : I \in Seq(S) /\ n \in Nat /\ Len(I) = n /\ DOMAIN I = 1..n
  BY DEF ListOf
<1>2. PICK S2 : S2 = S \union {x}
  OBVIOUS
<1>3. PICK J : J = [I EXCEPT ![p] = x]
  OBVIOUS
<1>4. \A q \in 1..n : I[q] \in S
  BY <1>1, SeqFacts
<1>5. J \in [1..n -> S2]
  BY <1>1, <1>2, <1>3, <1>4
<1>6. J \in Seq(S2) /\ Len(J) = n /\ DOMAIN J = 1..n
  BY <1>1, <1>5
<1> QED BY <1>1, <1>3, <1>6 DEF ListOf

\* Appending to a list of n elements gives one of n + 1.
LEMMA ListAppend ==
    ASSUME NEW I, NEW n, ListOf(I, n), NEW x
    PROVE  ListOf(Append(I, x), n + 1)
<1>1. PICK S : I \in Seq(S) /\ n \in Nat /\ Len(I) = n /\ DOMAIN I = 1..n
  BY DEF ListOf
<1>2. PICK S2 : S2 = S \union {x}
  OBVIOUS
<1>3. \A q \in 1..n : I[q] \in S
  BY <1>1, SeqFacts
<1>4. I \in Seq(S2)
  <2>1. I \in [1..n -> S2]
    <3>1. I = [q \in 1..n |-> I[q]]
      BY <1>1
    <3> QED BY <1>2, <1>3, <3>1
  <2> QED BY <1>1, <2>1
<1>5. /\ Append(I, x) \in Seq(S2) /\ Len(Append(I, x)) = n + 1 /\ DOMAIN Append(I, x) = 1..n + 1
  BY <1>1, <1>2, <1>4
<1> QED BY <1>1, <1>5 DEF ListOf

\* The class table after LinkClass: the type failed, or it is linked and has an IMT
\* if it can be instantiated.
Installed(k, d, r) ==
    /\ cls' = With(cls, k, r) /\ DOMAIN r = Fields
    /\ \/ r.ok = FALSE /\ r.inst = FALSE /\ r.imt = 0 /\ imts' = imts
       \/ r.ok = TRUE /\ r.inst = FALSE /\ r.imt = 0 /\ imts' = imts /\ GoodClass(cls', k)
       \/ /\ r.ok = TRUE /\ r.inst = TRUE /\ imts' = imts /\ GoodClass(cls', k)
          /\ r.imt = FindSuperImt(d) /\ r.imt /= 0
       \/ /\ r.ok = TRUE /\ r.inst = TRUE /\ GoodClass(cls', k)
          /\ r.imt = Len(imts) + 1 /\ \E m : imts' = Append(imts, m)

\* A class that failed to link has no tables to inherit.
LEMMA FailedIs ==
    ASSUME NEW d
    PROVE  DOMAIN Failed(d) = Fields /\ Failed(d).ok = FALSE /\ Failed(d).inst = FALSE /\ Failed(d).imt = 0
  BY DEF Failed, Fields

\* LinkClass adds one type: a failed one, or one whose tables are in order.
LEMMA InstalledIs ==
    ASSUME Inv, NEW k \in Range(Order), NEW d \in Defs[k], LinkClass(k, d)
    PROVE  /\ aborted' \in {"none", "DCHECK: move"} /\ UNCHANGED calls
           /\ UNCHANGED <<cls, imts>> \/ \E r : Installed(k, d, r)
<1>1. /\ Good(cls) /\ k \notin DOMAIN cls /\ Usable(k, d) /\ UNCHANGED <<conflicts, calls>>
      /\ aborted \in {"none", "DCHECK: move"}
  BY DEF Inv, LinkClass
<1>2. PICK f : f = Failed(d)
  OBVIOUS
<1>3. DOMAIN f = Fields /\ f.ok = FALSE /\ f.inst = FALSE /\ f.imt = 0
  BY <1>2, FailedIs
<1>4. ASSUME cls' = With(cls, k, f), imts' = imts, aborted' = aborted
      PROVE  aborted' \in {"none", "DCHECK: move"} /\ \E r : Installed(k, d, r)
  <2>1. Installed(k, d, f)
    BY <1>3, <1>4 DEF Installed
  <2> QED BY <1>1, <1>4, <2>1
<1>5. CASE LinkSuperClass(k, d) /= "none"
  <2>1. cls' = With(cls, k, f) /\ UNCHANGED <<imts, aborted>>
    BY <1>2, <1>5 DEF LinkClass
  <2> QED BY <1>1, <1>4, <2>1
<1>6. CASE LinkSuperClass(k, d) = "none"
  <2>1. PICK l : l = LinkMethods(k, d)
    OBVIOUS
  <2>2. PICK n : n = FindSuperImt(d)
    OBVIOUS
  <2>3. Install(k, d, l, n)
    BY <1>6, <2>1, <2>2 DEF LinkClass
  <2>4. Result(k, d, l)
    BY <1>1, <1>6, <2>1, LinkMethodsIs
  <2>5. PICK c : c = l.c
    OBVIOUS
  <2>6. l.err \in LinkErrors /\ DOMAIN c = Fields /\ c.ok = TRUE /\ c.inst = d.inst /\ c.imt = 0
    BY <2>4, <2>5 DEF Result
  <2>7. d.inst \in BOOLEAN
    BY LinkAssumption DEF Definitions
  <2>8. CASE l.err \in Aborts
    <3>1. aborted' = l.err /\ UNCHANGED <<cls, imts>>
      BY <2>3, <2>8 DEF Install
    <3>2. l.err = "DCHECK: move"
      BY <2>6, <2>8 DEF Aborts, LinkErrors
    <3> QED BY <1>1, <3>1, <3>2
  <2>9. CASE l.err \notin Aborts /\ l.err /= "none"
    <3>1. cls' = With(cls, k, f) /\ UNCHANGED <<imts, aborted>>
      BY <1>2, <2>3, <2>9 DEF Install
    <3> QED BY <1>1, <1>4, <3>1
  <2>10. CASE l.err = "none"
    <3>1. ASSUME NEW r, SameClass(c, r), r.ok = TRUE PROVE GoodClass(With(cls, k, r), k)
      <4>1. PICK D : D = With(cls, k, r)
        OBVIOUS
      <4>2. Extends(cls, D) /\ k \in DOMAIN D /\ D[k] = r
        <5>1. k \in DOMAIN D /\ D[k] = r
          BY <4>1 DEF With
        <5>2. \A x \in DOMAIN cls : x \in DOMAIN D /\ D[x] = cls[x]
          BY <1>1, <4>1 DEF With
        <5> QED BY <5>1, <5>2 DEF Extends, SameClass
      <4>3. k \in Linked(D)
        BY <3>1, <4>2 DEF Linked
      <4>4. GoodClass(D, k)
        BY <2>4, <2>5, <2>10, <3>1, <4>2, <4>3 DEF Result
      <4> QED BY <4>1, <4>4
    <3>2. l.err \notin Aborts
      BY <2>10 DEF Aborts
    <3>3. UNCHANGED aborted
      BY <2>3, <3>2 DEF Install
    <3>4. CASE ~d.inst
      <4>1. cls' = With(cls, k, c) /\ UNCHANGED imts
        BY <2>3, <2>5, <2>10, <3>2, <3>4 DEF Install
      <4>2. SameClass(c, c)
        BY DEF SameClass
      <4>3. GoodClass(cls', k)
        BY <2>6, <3>1, <4>1, <4>2
      <4>4. Installed(k, d, c)
        BY <2>6, <2>7, <3>4, <4>1, <4>3 DEF Installed
      <4> QED BY <1>1, <3>3, <4>4
    <3>5. CASE d.inst /\ ShareImt(l, n)
      <4>1. PICK r : r = [c EXCEPT !.imt = n]
        OBVIOUS
      <4>2. cls' = With(cls, k, r) /\ UNCHANGED imts /\ n /= 0
        BY <2>3, <2>5, <2>10, <3>2, <3>5, <4>1 DEF Install, ShareImt
      <4>3. SameClass(c, r) /\ DOMAIN r = Fields /\ r.imt = n /\ r.ok = TRUE /\ r.inst = TRUE
        BY <2>6, <2>7, <3>5, <4>1 DEF SameClass, Fields
      <4>4. GoodClass(cls', k)
        BY <3>1, <4>2, <4>3
      <4>5. Installed(k, d, r)
        BY <2>2, <4>2, <4>3, <4>4 DEF Installed
      <4> QED BY <1>1, <3>3, <4>5
    <3>6. CASE d.inst /\ ~ShareImt(l, n)
      <4>1. PICK r : r = [c EXCEPT !.imt = Len(imts) + 1]
        OBVIOUS
      <4>2. cls' = With(cls, k, r) /\ imts' = Append(imts, l.imt)
        BY <2>3, <2>5, <2>10, <3>2, <3>6, <4>1 DEF Install
      <4>3. SameClass(c, r) /\ DOMAIN r = Fields /\ r.imt = Len(imts) + 1 /\ r.ok = TRUE /\ r.inst = TRUE
        BY <2>6, <2>7, <3>6, <4>1 DEF SameClass, Fields
      <4>4. GoodClass(cls', k)
        BY <3>1, <4>2, <4>3
      <4>5. Installed(k, d, r)
        BY <4>2, <4>3, <4>4 DEF Installed
      <4> QED BY <1>1, <3>3, <4>5
    <3> QED BY <2>7, <3>4, <3>5, <3>6
  <2> QED BY <2>8, <2>9, <2>10
<1> QED BY <1>5, <1>6

\* LinkClass keeps the invariant.
LEMMA LinkStep ==
    ASSUME Inv, NEW k \in Range(Order), NEW d \in Defs[k], LinkClass(k, d)
    PROVE  Inv'
<1>1. /\ aborted' \in {"none", "DCHECK: move"} /\ UNCHANGED calls
      /\ UNCHANGED <<cls, imts>> \/ \E r : Installed(k, d, r)
  BY InstalledIs
<1>2. PICK n \in Nat : ListOf(imts, n) /\ Images(cls, n)
  BY DEF Inv
<1>3. Good(cls) /\ calls' \in 0..MaxCalls /\ k \notin DOMAIN cls /\ k \in Names /\ d.super \in Linked(cls)
  BY <1>1, NameFacts DEF Inv, LinkClass, Usable, Linked
<1>4. CASE UNCHANGED <<cls, imts>>
  BY <1>1, <1>2, <1>3, <1>4 DEF Inv
<1>5. CASE \E r : Installed(k, d, r)
  <2>1. PICK r : Installed(k, d, r)
    BY <1>5
  <2>2. cls' = With(cls, k, r) /\ DOMAIN r = Fields
    BY <2>1 DEF Installed
  <2>3. /\ r.ok \in BOOLEAN /\ r.inst \in BOOLEAN /\ (r.inst => r.ok)
        /\ (r.ok => GoodClass(cls', k))
    BY <2>1 DEF Installed
  <2>4. Good(cls')
    BY <1>3, <2>2, <2>3, AddClass
  <2>5. PICK m \in Nat : n <= m /\ ListOf(imts', m) /\ HasImage(r, m)
    <3>1. CASE imts' = imts /\ r.inst = FALSE /\ r.imt = 0
      BY <1>2, <3>1 DEF HasImage
    <3>2. CASE imts' = imts /\ r.inst = TRUE /\ r.imt = FindSuperImt(d) /\ r.imt /= 0
      <4>1. r.imt \in 1..n
        BY <1>2, <1>3, <3>2, SuperImtIs
      <4> QED BY <1>2, <3>2, <4>1 DEF HasImage
    <3>3. CASE r.inst = TRUE /\ r.imt = Len(imts) + 1 /\ \E x : imts' = Append(imts, x)
      <4>1. ListOf(imts', n + 1)
        BY <1>2, <3>3, ListAppend
      <4>2. r.imt = n + 1
        BY <1>2, <3>3 DEF ListOf
      <4>3. HasImage(r, n + 1)
        BY <1>2, <3>3, <4>2 DEF HasImage
      <4>4. n + 1 \in Nat /\ n <= n + 1
        OBVIOUS
      <4> QED BY <4>1, <4>3, <4>4
    <3> QED BY <2>1, <3>1, <3>2, <3>3 DEF Installed
  <2>6. Images(cls', m)
    BY <1>2, <1>3, <2>2, <2>5, AddImage
  <2> QED BY <1>1, <1>3, <2>4, <2>5, <2>6 DEF Inv
<1> QED BY <1>1, <1>4, <1>5

\* AddMethodToConflictTable keeps it.
LEMMA ConflictStep ==
    ASSUME Inv, NEW k \in DOMAIN cls, NEW i, NEW j, AddMethodToConflictTable(k, i, j)
    PROVE  Inv'
<1>1. PICK n \in Nat : ListOf(imts, n) /\ Images(cls, n)
  BY DEF Inv
<1>2. PICK p : p = cls[k].imt
  OBVIOUS
<1>3. p \in 1..n
  BY <1>1, <1>2 DEF AddMethodToConflictTable, Images, HasImage
<1>4. UNCHANGED <<cls, aborted>> /\ calls' = calls + 1 /\ calls < MaxCalls
  BY DEF AddMethodToConflictTable
<1>5. \/ imts' = imts \/ \E x : imts' = [imts EXCEPT ![p] = x]
  BY <1>2 DEF AddMethodToConflictTable
<1>6. ListOf(imts', n)
  BY <1>1, <1>3, <1>5, ListPut
<1>7. calls' \in 0..MaxCalls
  <2>1. calls \in 0..MaxCalls
    BY DEF Inv
  <2>2. MaxCalls \in Nat
    BY LinkAssumption
  <2> QED BY <1>4, <2>1, <2>2
<1> QED BY <1>1, <1>4, <1>6, <1>7 DEF Inv

\* FillIMTAndConflictTables keeps it.
LEMMA ImageStep ==
    ASSUME Inv, NEW k \in DOMAIN cls, FillIMTAndConflictTables(k)
    PROVE  Inv'
<1>1. PICK n \in Nat : ListOf(imts, n) /\ Images(cls, n)
  BY DEF Inv
<1>2. PICK p : p = cls[k].imt
  OBVIOUS
<1>3. PICK s : s = cls[cls[k].super].imt
  OBVIOUS
<1>4. cls[k].inst /\ UNCHANGED aborted /\ calls < MaxCalls /\ (calls' = calls \/ calls' = calls + 1)
  BY DEF FillIMTAndConflictTables
<1>5. p \in 1..n
  BY <1>1, <1>2, <1>4 DEF Images, HasImage
<1>6. \/ cls' = cls /\ \E x : imts' = [imts EXCEPT ![p] = x]
      \/ cls[cls[k].super].inst /\ cls' = [cls EXCEPT ![k].imt = s] /\ imts' = imts
  BY <1>2, <1>3 DEF FillIMTAndConflictTables
<1>7. calls' \in 0..MaxCalls
  <2>1. calls \in 0..MaxCalls
    BY DEF Inv
  <2>2. MaxCalls \in Nat
    BY LinkAssumption
  <2> QED BY <1>4, <2>1, <2>2
<1>8. CASE cls' = cls /\ \E x : imts' = [imts EXCEPT ![p] = x]
  <2>1. ListOf(imts', n)
    <3>1. PICK x : imts' = [imts EXCEPT ![p] = x]
      BY <1>8
    <3> QED BY <1>1, <1>5, <3>1, ListPut
  <2> QED BY <1>1, <1>4, <1>7, <1>8, <2>1 DEF Inv
<1>9. CASE cls[cls[k].super].inst /\ cls' = [cls EXCEPT ![k].imt = s] /\ imts' = imts
  <2>1. Shaped(cls) /\ \A c \in Linked(cls) : GoodClass(cls, c)
    BY DEF Inv, Good
  <2>2. PICK D : D = [cls EXCEPT ![k].imt = s]
    OBVIOUS
  <2>3. PICK r : r = [cls[k] EXCEPT !.imt = s]
    OBVIOUS
  <2>4. DOMAIN D = DOMAIN cls /\ D[k] = r /\ \A c \in DOMAIN cls : c /= k => D[c] = cls[c]
    BY <2>2, <2>3
  <2>5. SameClass(cls[k], r) /\ DOMAIN r = Fields /\ r.imt = s /\ r.inst = cls[k].inst /\ r.ok = cls[k].ok
    <3>1. DOMAIN cls[k] = Fields
      BY <2>1 DEF Shaped
    <3> QED BY <2>3, <3>1 DEF SameClass, Fields
  <2>6. Extends(cls, D)
    <3>1. \A c \in DOMAIN cls : SameClass(cls[c], D[c])
      BY <2>4, <2>5 DEF SameClass
    <3> QED BY <2>4, <3>1 DEF Extends
  <2>7. Linked(D) = Linked(cls)
    BY <2>4, <2>5 DEF Linked
  <2>8. Shaped(D)
    <3>1. \A c \in DOMAIN D : DOMAIN D[c] = Fields /\ D[c].inst \in BOOLEAN /\ (D[c].inst => D[c].ok)
      BY <2>1, <2>4, <2>5 DEF Shaped
    <3>2. ~D["Object"].iface
      BY <2>1, <2>6, LinkedKept DEF Shaped, SameClass
    <3> QED BY <2>1, <2>4, <2>7, <3>1, <3>2 DEF Shaped
  <2>9. Good(D)
    BY <2>1, <2>6, <2>7, <2>8, GoodKept DEF Good
  <2>10. k \in Linked(cls)
    BY <1>4, <2>1 DEF Shaped, Linked
  <2>11. cls[k].super \in DOMAIN cls
    BY <2>1, <2>10 DEF GoodClass, Placed, Linked
  <2>12. s \in 1..n
    BY <1>1, <1>3, <1>9, <2>11 DEF Images, HasImage
  <2>13. Images(D, n)
    BY <1>1, <1>4, <2>4, <2>5, <2>12 DEF Images, HasImage
  <2> QED BY <1>1, <1>4, <1>7, <1>9, <2>2, <2>9, <2>13 DEF Inv
<1> QED BY <1>6, <1>8, <1>9

\* Every step keeps the invariant.
LEMMA NextInv == Inv /\ [Next]_vars => Inv'
<1> SUFFICES ASSUME Inv, [Next]_vars PROVE Inv'
  OBVIOUS
<1>1. CASE UNCHANGED vars
  BY <1>1 DEF Inv, vars
<1>2. ASSUME NEW k \in Range(Order), NEW d \in Defs[k], LinkClass(k, d) PROVE Inv'
  BY <1>2, LinkStep
<1>3. ASSUME NEW k \in DOMAIN cls, NEW i \in DOMAIN cls[k].iftable, NEW j \in DOMAIN cls[k].arrays[i],
             AddMethodToConflictTable(k, i, j)
      PROVE  Inv'
  BY <1>3, ConflictStep
<1>4. ASSUME NEW k \in DOMAIN cls, FillIMTAndConflictTables(k) PROVE Inv'
  BY <1>4, ImageStep
<1>5. CASE Ended
  BY <1>1, <1>5 DEF Ended
<1> QED BY <1>1, <1>2, <1>3, <1>4, <1>5 DEF Next, Running

----------------------------------------------------------------------------
\* What the invariant gives.

\* The invariant gives the types.
LEMMA InvTypes == Inv => TypeOK
<1> SUFFICES ASSUME Inv PROVE TypeOK
  OBVIOUS
<1>1. PICK n \in Nat : ListOf(imts, n) /\ Images(cls, n)
  BY DEF Inv
<1>2. DOMAIN imts = 1..n
  BY <1>1 DEF ListOf
<1>3. ASSUME NEW k \in DOMAIN cls PROVE cls[k].inst = (cls[k].imt \in DOMAIN imts)
  <2>1. cls[k].inst \in BOOLEAN /\ HasImage(cls[k], n)
    BY <1>1 DEF Inv, Good, Shaped, Images
  <2>2. CASE cls[k].inst = TRUE
    <3>1. cls[k].imt \in DOMAIN imts
      BY <1>2, <2>1, <2>2 DEF HasImage
    <3> QED BY <2>2, <3>1
  <2>3. CASE cls[k].inst = FALSE
    <3>1. cls[k].imt = 0
      BY <2>1, <2>3 DEF HasImage
    <3>2. cls[k].imt \notin DOMAIN imts
      BY <1>2, <3>1
    <3>3. (cls[k].imt \in DOMAIN imts) = FALSE
      BY <3>2
    <3> QED BY <2>3, <3>3
  <2> QED BY <2>1, <2>2, <2>3
<1>4. DOMAIN cls \subseteq Names /\ calls \in 0..MaxCalls
  BY DEF Inv, Good, Shaped
<1> QED BY <1>3, <1>4 DEF TypeOK

\* The interface tables are complete and ordered.
LEMMA InvOrdered == Inv => IfTableOrdered
<1> SUFFICES ASSUME Inv, NEW k \in DOMAIN cls, cls[k].ok, NEW t, t = cls[k].iftable
             PROVE  /\ Range(t) = Range(cls[cls[k].super].iftable)
                                  \union UNION {{i} \union Range(cls[i].iftable) : i \in Range(cls[k].ifs)}
                    /\ \A x, y \in DOMAIN t : x < y => t[x] /= t[y] /\ ~IsAssignableFrom(t[y], t[x])
  BY DEF IfTableOrdered
<1>1. Tabled(cls, k)
  BY DEF Inv, Good, GoodClass, Linked
<1>2. TableOrdered(cls, t)
  BY <1>1 DEF Tabled
<1>3. \A x, y \in DOMAIN t : x < y => t[x] /= t[y] /\ ~IsAssignableFrom(t[y], t[x])
  BY <1>2 DEF TableOrdered, IsAssignableFrom
<1> QED BY <1>1, <1>3 DEF Tabled

\* The tables of a linked class.
LEMMA LinkedTables ==
    ASSUME Inv, NEW k \in LinkedClasses
    PROVE  ClassTables(cls, k) /\ TableOrdered(cls, cls[k].iftable)
<1>1. GoodClass(cls, k) /\ ~cls[k].iface
  BY DEF Inv, Good, Linked, LinkedClasses
<1> QED BY <1>1 DEF GoodClass, Tabled

\* A class owns the entries that are not its superclass's.
LEMMA InvOwns == Inv => OwnsVtable
<1> SUFFICES ASSUME Inv, NEW k \in LinkedClasses
             PROVE  Owned(cls[k].vtable, cls[k].virtuals, cls[cls[k].super].vtable)
  BY DEF OwnsVtable, Owned
<1> QED BY LinkedTables DEF ClassTables

\* The slots keep their signatures.
LEMMA InvSlots == Inv => SlotsKept
<1> SUFFICES ASSUME Inv, NEW k \in LinkedClasses
             PROVE  SlotsSame(cls[k].vtable, cls[cls[k].super].vtable)
  BY DEF SlotsKept, SlotsSame
<1> QED BY LinkedTables DEF ClassTables

\* The method arrays have no empty slot.
LEMMA InvArrays == Inv => ArraysComplete
<1> SUFFICES ASSUME Inv, NEW k \in LinkedClasses, NEW t, t = cls[k].iftable
             PROVE  /\ DOMAIN cls[k].arrays = DOMAIN t
                    /\ \A i \in DOMAIN t :
                           /\ DOMAIN cls[k].arrays[i] = DOMAIN cls[t[i]].decl
                           /\ \A j \in DOMAIN cls[t[i]].decl : cls[k].arrays[i][j].sig = cls[t[i]].decl[j].sig
  BY DEF ArraysComplete
<1>1. ArraysWell(cls, cls[k].arrays, t)
  BY LinkedTables DEF ClassTables
<1>2. DOMAIN t = 1..Len(t)
  <2>1. t \in Seq(Names)
    BY LinkedTables DEF TableOrdered
  <2> QED BY <2>1
<1> QED BY <1>1, <1>2 DEF ArraysWell

\* Where default methods clash, the entry throws.
LEMMA InvClashes == Inv => ClashesThrow
<1> SUFFICES ASSUME Inv, NEW k \in LinkedClasses, NEW x \in DOMAIN cls[k].vtable, NEW m, m = cls[k].vtable[x],
                    IsOverridableByDefaultMethod(m),
                    FindDefaultMethodImplementation(m.sig, cls[k].iftable).res = "conflict"
             PROVE  m.conf
  BY DEF ClashesThrow
<1>1. PICK t : t = cls[k].iftable
  OBVIOUS
<1>2. /\ EntriesWell(cls, cls[k].vtable) /\ Settles(cls, cls[k].vtable, t) /\ TableOrdered(cls, t)
  BY <1>1, LinkedTables DEF ClassTables
<1>3. Searchable(t)
  BY <1>2, TableSearchable DEF Inv
<1>4. Clash(cls, m.sig, t)
  BY <1>1, <1>3, SearchFacts
<1>5. x \in 1..Len(cls[k].vtable)
  <2>1. cls[k].vtable \in Seq(Methods)
    BY <1>2 DEF EntriesWell
  <2> QED BY <2>1
<1>6. Overridable(cls, m)
  BY DEF Overridable, IsOverridableByDefaultMethod
<1> QED BY <1>2, <1>4, <1>5, <1>6 DEF Settles

\* Two entries of a signature agree unless the first is a class's own.
LEMMA InvDuplicates == Inv => DuplicatesAgree
<1> SUFFICES ASSUME Inv, NEW k \in LinkedClasses, NEW v, v = cls[k].vtable, NEW x \in DOMAIN v, NEW y \in DOMAIN v,
                    x < y, v[x].sig = v[y].sig, IsOverridableByDefaultMethod(v[x])
             PROVE  v[x] = v[y]
  BY DEF DuplicatesAgree
<1>1. EntriesWell(cls, v) /\ Repeats(cls, v)
  BY LinkedTables DEF ClassTables
<1>2. DOMAIN v = 1..Len(v)
  <2>1. v \in Seq(Methods)
    BY <1>1 DEF EntriesWell
  <2> QED BY <2>1
<1>3. Overridable(cls, v[x])
  BY DEF Overridable, IsOverridableByDefaultMethod
<1> QED BY <1>1, <1>2, <1>3 DEF Repeats

\* The tables are well formed in every reachable state.
LEMMA InvTables == Inv => TablesWellFormed
<1>1. Inv => LinkerChecksHold
  BY DEF Inv, LinkerChecksHold
<1> QED BY <1>1, InvTypes, InvOrdered, InvOwns, InvSlots, InvArrays, InvDuplicates DEF TablesWellFormed

\* The invariant holds in every reachable state.
LEMMA Invariance == Spec => []Inv
<1> QED BY InitInv, NextInv, PTL DEF Spec

\* The tables of every type that has been linked - interface table, method
\* arrays and vtable - are complete, ordered and owned by the class, and no
\* check of the linker's methods search fails, for every hierarchy, order of
\* linking and hash function.
THEOREM TablesWellFormedAlways == Spec => []TablesWellFormed
<1> QED BY Invariance, InvTables, PTL

\* No virtual call picks one of two clashing default methods: LinkInterfaceMethods
\* gives the entry a conflict method, in this class or the superclass's.
THEOREM ClashesThrowAlways == Spec => []ClashesThrow
<1> QED BY Invariance, InvClashes, PTL
==============================================================================
